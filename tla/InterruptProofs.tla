-------------------------- MODULE InterruptProofs --------------------------
(***************************************************************************)
(* Proofs about Interrupt, for any number of top level components, add-ons *)
(* and requests.                                                           *)
(***************************************************************************)
EXTENDS Interrupt, SequenceTheorems, TLAPS

----------------------------------------------------------------------------
(* The inductive invariant *)

Distinct(s) == \A j, k \in DOMAIN s : s[j] = s[k] => j = k

ServerInv == server \in [at : {"spawned", "made", "listening", "returned"}, down : BOOLEAN]

\* The handler's loop: while it waits for an answer it is not at the root container.
LoopInv ==
    /\ hpc = "await" => i > 1
    /\ rpc # "none" => hpc = "listen"

\* Every top level component has one place in topLevel, behind the root container,
\* from the time it is initialized.
PlaceInv ==
    /\ \A k \in DOMAIN topLevel : k > 1 => topLevel[k] \in Tops /\ kstage[topLevel[k]] # "new"
    /\ \A j, k \in DOMAIN topLevel : topLevel[j] = topLevel[k] => j = k
    /\ \A t \in Tops : kstage[t] # "new" => \E k \in DOMAIN topLevel : k > 1 /\ topLevel[k] = t

\* No add-on is twice in the slice.
OnceInv == Distinct(components)

TypeInv == TypeOK /\ ServerInv /\ LoopInv /\ PlaceInv /\ OnceInv

\* An add-on that has left the slice is down, and the slice is empty when the root
\* container is Stopped.
SliceInv ==
    /\ \A a \in AddOns : kstage[a] # "down" => \E k \in DOMAIN components : components[k] = a
    /\ rpc \in {"Stopped", "tearDown"} => components = <<>>
    /\ \A k \in DOMAIN subscribe : subscribe[k] = "Stopped" => components = <<>>
    /\ exited => components = <<>>
    /\ stopping # "none" => kstage[Http] = "stopping"

\* Before the handler has come to it, a component that ran at the time of the
\* signal still runs; ...
Ahead(t) == \E k \in DOMAIN topLevel : /\ topLevel[k] = t /\ k > 1 /\ k <= i
                                       /\ hpc = "await" => k < i
                                       /\ kstage[t] = "started"

\* ... then the handler waits for it, and then it is settled.
Waits(t) == hpc = "await" /\ topLevel[i] = t

RunInv ==
    /\ hpc = "wait" => running = {}
    /\ \A t \in running : Settled(t) \/ (hpc # "listen" /\ (Ahead(t) \/ Waits(t)))
    /\ \A a \in AddOns : kstage[a] # "started" => hpc = "listen"

Inv == TypeInv /\ SliceInv /\ RunInv

----------------------------------------------------------------------------
(* Sequences *)

LEMMA EmptyLength ==
    ASSUME NEW S, NEW s \in Seq(S)
    PROVE  Len(s) \in Nat /\ DOMAIN s = 1..Len(s) /\ (Len(s) = 0 <=> s = <<>>)
<1>1. Len(s) = 0 => s = <<>>
  BY EmptySeq
<1> QED BY <1>1, LenProperties

LEMMA RemoveAtProperties ==
    ASSUME NEW S, NEW s \in Seq(S), NEW m \in 1..Len(s)
    PROVE  /\ RemoveAt(s, m) \in Seq(S) /\ DOMAIN RemoveAt(s, m) = 1..(Len(s) - 1)
           /\ \A k \in 1..(Len(s) - 1) : RemoveAt(s, m)[k] = IF k < m THEN s[k] ELSE s[k+1]
<1> DEFINE a == SubSeq(s, 1, m-1)
           b == SubSeq(s, m+1, Len(s))
           n == Len(s)
<1>1. n \in Nat /\ m \in Nat /\ 1 <= m /\ m <= n
  BY LenProperties
<1>2. \A k \in 1..n : s[k] \in S
  BY ElementOfSeq
<1>3. a \in Seq(S) /\ Len(a) = m - 1 /\ \A k \in 1..(m-1) : a[k] = s[k]
  BY <1>1, <1>2
<1>4. b \in Seq(S) /\ Len(b) = n - m /\ \A k \in 1..(n-m) : b[k] = s[m+k]
  BY <1>1, <1>2
<1>5. RemoveAt(s, m) = a \o b
  BY DEF RemoveAt
<1>6. /\ a \o b \in Seq(S) /\ Len(a \o b) = n - 1
      /\ \A k \in 1..(n-1) : (a \o b)[k] = IF k <= m-1 THEN a[k] ELSE b[k - (m-1)]
  <2> HIDE DEF a, b, n
  <2>1. a \o b \in Seq(S) /\ Len(a \o b) = Len(a) + Len(b)
        /\ \A k \in 1..(Len(a) + Len(b)) : (a \o b)[k] = IF k <= Len(a) THEN a[k] ELSE b[k - Len(a)]
    BY <1>3, <1>4, ConcatProperties
  <2>2. Len(a) + Len(b) = n - 1
    BY <1>1, <1>3, <1>4
  <2> QED BY <1>3, <2>1, <2>2
<1>7. DOMAIN (a \o b) = 1..(n-1)
  BY <1>6
<1>8. \A k \in 1..(n-1) : (a \o b)[k] = IF k < m THEN s[k] ELSE s[k+1]
  <2> HIDE DEF a, b, n
  <2> SUFFICES ASSUME NEW k \in 1..(n-1) PROVE (a \o b)[k] = IF k < m THEN s[k] ELSE s[k+1]
    OBVIOUS
  <2>1. CASE k < m
    BY <1>1, <1>3, <1>6, <2>1
  <2>2. CASE ~(k < m)
    <3>1. k - (m-1) \in 1..(n-m) /\ m + (k - (m-1)) = k+1 /\ ~(k <= m-1)
      BY <1>1, <2>2
    <3> QED BY <1>4, <1>6, <2>2, <3>1
  <2> QED BY <2>1, <2>2
<1> QED BY <1>5, <1>6, <1>7, <1>8

\* Where no name is there twice, removeComponent takes out that name and no other.
LEMMA Removed ==
    ASSUME NEW S, NEW s \in Seq(S), NEW x, Distinct(s)
    PROVE  /\ removeComponent(s, x) \in Seq(S) /\ Distinct(removeComponent(s, x))
           /\ \A y \in S : y # x /\ (\E k \in DOMAIN s : s[k] = y)
                 => \E k \in DOMAIN removeComponent(s, x) : removeComponent(s, x)[k] = y
<1>1. CASE ~\E k \in DOMAIN s : s[k] = x
  BY <1>1 DEF removeComponent
<1>2. CASE \E k \in DOMAIN s : s[k] = x
  <2> DEFINE m == CHOOSE k \in DOMAIN s : s[k] = x /\ \A j \in DOMAIN s : s[j] = x => j <= k
             u == RemoveAt(s, m)
  <2>1. Len(s) \in Nat /\ DOMAIN s = 1..Len(s)
    BY LenProperties
  <2>2. m \in DOMAIN s /\ s[m] = x
    <3>1. PICK k \in DOMAIN s : s[k] = x
      BY <1>2
    <3>2. \A j \in DOMAIN s : s[j] = x => j <= k
      BY <2>1, <3>1 DEF Distinct
    <3> QED BY <3>1, <3>2
  <2>3. removeComponent(s, x) = u
    BY <1>2 DEF removeComponent
  <2> HIDE DEF m
  <2>4. u \in Seq(S) /\ DOMAIN u = 1..(Len(s) - 1)
        /\ \A k \in 1..(Len(s) - 1) : u[k] = IF k < m THEN s[k] ELSE s[k+1]
    BY <2>1, <2>2, RemoveAtProperties
  <2> HIDE DEF u
  <2>5. Distinct(u)
    <3> SUFFICES ASSUME NEW j \in 1..(Len(s)-1), NEW k \in 1..(Len(s)-1), u[j] = u[k] PROVE j = k
      BY <2>4 DEF Distinct
    <3>1. m \in 1..Len(s) /\ j \in 1..Len(s) /\ j+1 \in 1..Len(s) /\ k \in 1..Len(s) /\ k+1 \in 1..Len(s)
      BY <2>1, <2>2
    <3>2. \A p, q \in 1..Len(s) : s[p] = s[q] => p = q
      BY <2>1 DEF Distinct
    <3>3. CASE j < m /\ k < m
      BY <2>4, <3>1, <3>2, <3>3
    <3>4. CASE j < m /\ ~(k < m)
      <4>1. j = k+1
        BY <2>4, <3>1, <3>2, <3>4
      <4> QED BY <3>1, <3>4, <4>1
    <3>5. CASE ~(j < m) /\ k < m
      <4>1. j+1 = k
        BY <2>4, <3>1, <3>2, <3>5
      <4> QED BY <3>1, <3>5, <4>1
    <3>6. CASE ~(j < m) /\ ~(k < m)
      <4>1. j+1 = k+1
        BY <2>4, <3>1, <3>2, <3>6
      <4> QED BY <3>1, <4>1
    <3> QED BY <3>3, <3>4, <3>5, <3>6
  <2>6. ASSUME NEW y \in S, y # x, NEW k \in DOMAIN s, s[k] = y
        PROVE  \E q \in DOMAIN u : u[q] = y
    <3>1. k # m /\ k \in 1..Len(s) /\ m \in 1..Len(s)
      BY <2>1, <2>2, <2>6
    <3>2. CASE k < m
      <4>1. k \in 1..(Len(s)-1)
        BY <2>1, <3>1, <3>2
      <4> QED BY <2>4, <2>6, <3>2, <4>1
    <3>3. CASE k > m
      <4>1. k-1 \in 1..(Len(s)-1) /\ ~(k-1 < m) /\ (k-1)+1 = k
        BY <2>1, <3>1, <3>3
      <4>2. u[k-1] = s[k]
        BY <2>4, <4>1
      <4> QED BY <2>4, <2>6, <4>1, <4>2
    <3> QED BY <2>1, <3>1, <3>2, <3>3
  <2> QED BY <2>3, <2>4, <2>5, <2>6
<1> QED BY <1>1, <1>2

----------------------------------------------------------------------------
(* Types *)

Stages == {"new", "initialized", "started", "stopping", "down"}

\* A component that is not new, or is an add-on or the root container, changes its
\* stage: topLevel stays what it should be.
LEMMA StageSet ==
    ASSUME TypeInv, NEW x \in Comps, NEW s \in Stages \ {"new"}, x \in Tops => kstage[x] # "new",
           kstage' = [kstage EXCEPT ![x] = s], topLevel' = topLevel
    PROVE  /\ kstage' \in [Comps -> Stages] /\ PlaceInv'
           /\ kstage'[x] = s /\ \A y \in Comps : y # x => kstage'[y] = kstage[y]
<1>1. kstage \in [Comps -> Stages]
  BY DEF TypeInv, TypeOK, Stages
<1>2. kstage' \in [Comps -> Stages] /\ kstage'[x] = s
      /\ \A y \in Comps : y # x => kstage'[y] = kstage[y]
  BY <1>1
<1>3. \A y \in Tops : kstage'[y] # "new" <=> kstage[y] # "new"
  BY <1>2 DEF Comps
<1> QED BY <1>2, <1>3 DEF TypeInv, PlaceInv

LEMMA TypeInit == Init => TypeInv
<1> SUFFICES ASSUME Init PROVE TypeInv
  OBVIOUS
<1> USE InterruptAssumption
<1>1. topLevel \in Seq({Root} \union Tops) /\ topLevel[1] = Root /\ Len(topLevel) = 1
      /\ DOMAIN topLevel = {1}
  BY DEF Init
<1>2. TypeOK
  <2>1. kstage \in [Comps -> {"new", "initialized", "started", "stopping", "down"}]
    BY DEF Init
  <2>2. components \in Seq(AddOns)
    BY DEF Init
  <2>3. subscribe \in Seq({"Stopping", "Inactive", "Stopped"}) /\ Len(subscribe) <= ChanCap
    BY DEF Init, ChanCap
  <2>4. {ctxDone, exited} \subseteq BOOLEAN
    BY Zenon DEF Init
  <2> QED BY <1>1, <2>1, <2>2, <2>3, <2>4 DEF Init, TypeOK
<1>3. ServerInv
  BY DEF Init, ServerInv
<1>4. LoopInv
  BY DEF Init, LoopInv
<1>5. PlaceInv
  BY <1>1 DEF Init, PlaceInv, Comps
<1>6. OnceInv
  BY DEF Init, OnceInv, Distinct, IsInjective
<1> QED BY <1>2, <1>3, <1>4, <1>5, <1>6 DEF TypeInv

\* What the steps of the interrupt handler do to the index.
LEMMA Index ==
    ASSUME TypeInv
    PROVE  /\ Len(topLevel) \in Nat /\ DOMAIN topLevel = 1..Len(topLevel) /\ 1 <= Len(topLevel)
           /\ i \in Nat /\ 1 <= i /\ i <= Len(topLevel)
           /\ i > 1 => /\ i - 1 \in 1..Len(topLevel)
                       /\ topLevel[i] \in Tops /\ kstage[topLevel[i]] # "new"
<1>1. Len(topLevel) \in Nat /\ DOMAIN topLevel = 1..Len(topLevel)
  BY LenProperties DEF TypeInv, TypeOK
<1>2. i \in 1..Len(topLevel)
  BY DEF TypeInv, TypeOK
<1> QED BY <1>1, <1>2 DEF TypeInv, PlaceInv

LEMMA TypeBootstrap == ASSUME TypeInv, NEW t \in Tops, Bootstrap(t) PROVE TypeInv'
<1>1. kstage \in [Comps -> Stages] /\ t \in Comps
  BY DEF TypeInv, TypeOK, Stages, Comps
<1>2. CASE kstage[t] = "new"
  <2>1. topLevel' = Append(topLevel, t) /\ kstage' = [kstage EXCEPT ![t] = "initialized"]
    BY <1>2 DEF Bootstrap
  <2>2. /\ topLevel' \in Seq({Root} \union Tops) /\ Len(topLevel') = Len(topLevel) + 1
        /\ DOMAIN topLevel' = 1..(Len(topLevel) + 1)
        /\ \A k \in 1..Len(topLevel) : topLevel'[k] = topLevel[k]
        /\ topLevel'[Len(topLevel) + 1] = t
    BY <2>1, AppendProperties DEF TypeInv, TypeOK
  <2>3. kstage' \in [Comps -> Stages] /\ kstage'[t] = "initialized"
        /\ \A y \in Comps : y # t => kstage'[y] = kstage[y]
    BY <1>1, <2>1 DEF Stages
  <2>4. \A k \in DOMAIN topLevel : k > 1 => topLevel[k] # t
    BY <1>2 DEF TypeInv, PlaceInv
  <2>5. topLevel[1] = Root /\ Root # t
    BY InterruptAssumption DEF TypeInv, TypeOK
  <2>6. \A k \in 1..Len(topLevel) : topLevel[k] # t
    BY Index, <2>4, <2>5
  <2>7. TypeOK'
    <3>1. topLevel'[1] = Root /\ i \in 1..Len(topLevel')
      BY Index, <2>2, <2>5
    <3> QED BY <2>2, <2>3, <3>1 DEF TypeInv, TypeOK, Bootstrap, handler, httpVars, Stages
  <2>8. PlaceInv'
    <3>1. ASSUME NEW k \in DOMAIN topLevel', k > 1
          PROVE  topLevel'[k] \in Tops /\ kstage'[topLevel'[k]] # "new"
      <4>1. CASE k = Len(topLevel) + 1
        BY <2>2, <2>3, <4>1
      <4>2. CASE k \in 1..Len(topLevel)
        <5>1. topLevel[k] \in Tops /\ kstage[topLevel[k]] # "new" /\ topLevel[k] # t
          BY Index, <2>6, <3>1, <4>2 DEF TypeInv, PlaceInv
        <5> QED BY <2>2, <2>3, <4>2, <5>1 DEF Comps
      <4> QED BY Index, <2>2, <3>1, <4>1, <4>2
    <3>2. ASSUME NEW j \in DOMAIN topLevel', NEW k \in DOMAIN topLevel', topLevel'[j] = topLevel'[k]
          PROVE  j = k
      <4>1. j \in 1..Len(topLevel) \/ j = Len(topLevel) + 1
        BY Index, <2>2
      <4>2. k \in 1..Len(topLevel) \/ k = Len(topLevel) + 1
        BY Index, <2>2
      <4>3. CASE j \in 1..Len(topLevel) /\ k \in 1..Len(topLevel)
        BY Index, <2>2, <3>2, <4>3 DEF TypeInv, PlaceInv
      <4> QED BY <2>2, <2>6, <3>2, <4>1, <4>2, <4>3
    <3>3. ASSUME NEW y \in Tops, kstage'[y] # "new"
          PROVE  \E k \in DOMAIN topLevel' : k > 1 /\ topLevel'[k] = y
      <4>1. CASE y = t
        BY Index, <2>2, <4>1
      <4>2. CASE y # t
        <5>1. PICK k \in DOMAIN topLevel : k > 1 /\ topLevel[k] = y
          BY <2>3, <3>3, <4>2 DEF TypeInv, PlaceInv, Comps
        <5> QED BY Index, <2>2, <5>1
      <4> QED BY <4>1, <4>2
    <3> QED BY <3>1, <3>2, <3>3 DEF PlaceInv
  <2>9. ServerInv' /\ LoopInv' /\ OnceInv'
    BY DEF TypeInv, ServerInv, LoopInv, OnceInv, Bootstrap, handler, httpVars
  <2> QED BY <2>7, <2>8, <2>9 DEF TypeInv
<1>3. CASE kstage[t] = "initialized"
  <2>1. topLevel' = topLevel /\ kstage' = [kstage EXCEPT ![t] = "started"]
    BY <1>3 DEF Bootstrap
  <2>2. kstage' \in [Comps -> Stages] /\ PlaceInv'
    BY <1>1, <1>3, <2>1, StageSet DEF Stages
  <2>3. TypeOK'
    BY <2>1, <2>2 DEF TypeInv, TypeOK, Bootstrap, handler, httpVars, Stages
  <2>4. ServerInv' /\ LoopInv' /\ OnceInv'
    BY DEF TypeInv, ServerInv, LoopInv, OnceInv, Bootstrap, handler, httpVars
  <2> QED BY <2>2, <2>3, <2>4 DEF TypeInv
<1> QED BY <1>2, <1>3 DEF Bootstrap

LEMMA TypeStops == ASSUME TypeInv, NEW x \in Comps, Stops(x) PROVE TypeInv'
<1>1. kstage[x] = "stopping" /\ kstage' = [kstage EXCEPT ![x] = "down"] /\ topLevel' = topLevel
  BY DEF Stops
<1>2. kstage' \in [Comps -> Stages] /\ PlaceInv'
  BY <1>1, StageSet DEF Stages
<1>3. components' \in Seq(AddOns) /\ OnceInv'
  BY Removed DEF TypeInv, TypeOK, OnceInv, Stops
<1>4. TypeOK'
  BY <1>1, <1>2, <1>3 DEF TypeInv, TypeOK, Stops, handler, httpVars, Stages
<1>5. ServerInv' /\ LoopInv'
  BY DEF TypeInv, ServerInv, LoopInv, Stops, handler, httpVars
<1> QED BY <1>2, <1>3, <1>4, <1>5 DEF TypeInv

LEMMA TypeSignal == ASSUME TypeInv, Signal PROVE TypeInv'
<1>1. i' \in 1..Len(topLevel) /\ hpc' = "next" /\ running' \subseteq Tops
  BY Index DEF Signal
<1>2. TypeOK'
  BY <1>1 DEF TypeInv, TypeOK, Signal, httpVars
<1>3. ServerInv' /\ PlaceInv' /\ OnceInv'
  BY DEF TypeInv, ServerInv, PlaceInv, OnceInv, Signal, httpVars
<1>4. LoopInv'
  BY <1>1 DEF TypeInv, LoopInv, Signal
<1> QED BY <1>2, <1>3, <1>4 DEF TypeInv

\* The handler turns to a component: what becomes of that component.
LEMMA Sent ==
    ASSUME TypeInv, HandlerSend
    PROVE  /\ topLevel[i] \in Tops /\ AfterShutdown(kstage[topLevel[i]]) \in Stages \ {"new"}
           /\ kstage' = [kstage EXCEPT ![topLevel[i]] = AfterShutdown(kstage[topLevel[i]])]
<1>1. i > 1 /\ topLevel[i] \in Tops /\ kstage[topLevel[i]] # "new"
  BY Index DEF HandlerSend
<1>2. kstage[topLevel[i]] \in Stages
  BY <1>1 DEF TypeInv, TypeOK, Stages, Comps
<1>3. AfterShutdown(kstage[topLevel[i]]) \in Stages \ {"new"}
  BY <1>1, <1>2 DEF AfterShutdown, Stages
<1> QED BY <1>1, <1>3 DEF HandlerSend

LEMMA TypeSend == ASSUME TypeInv, HandlerSend PROVE TypeInv'
<1> DEFINE t == topLevel[i]
<1>1. i > 1 /\ t \in Tops /\ kstage[t] # "new" /\ i - 1 \in 1..Len(topLevel)
  BY Index DEF HandlerSend
<1>2. kstage' \in [Comps -> Stages] /\ PlaceInv'
  <2>1. topLevel' = topLevel /\ t \in Comps
    BY <1>1 DEF HandlerSend, Comps
  <2> QED BY <1>1, <2>1, Sent, StageSet
<1>3. hpc' \in {"next", "await"} /\ i' \in 1..Len(topLevel) /\ (hpc' = "await" => i' > 1)
  BY Index, <1>1 DEF HandlerSend
<1>4. TypeOK'
  BY <1>2, <1>3 DEF TypeInv, TypeOK, HandlerSend, httpVars, Stages
<1>5. ServerInv' /\ OnceInv'
  BY DEF TypeInv, ServerInv, OnceInv, HandlerSend, httpVars
<1>6. LoopInv'
  BY <1>3 DEF TypeInv, LoopInv, HandlerSend
<1> QED BY <1>2, <1>4, <1>5, <1>6 DEF TypeInv

LEMMA TypeAnswered == ASSUME TypeInv, HandlerAnswered PROVE TypeInv'
<1>1. i > 1 /\ topLevel[i] \in Tops /\ i - 1 \in 1..Len(topLevel)
  BY Index DEF HandlerAnswered, TypeInv, LoopInv
<1>2. TypeOK'
  BY <1>1 DEF TypeInv, TypeOK, HandlerAnswered, httpVars
<1>3. ServerInv' /\ PlaceInv' /\ OnceInv'
  BY DEF TypeInv, ServerInv, PlaceInv, OnceInv, HandlerAnswered, httpVars
<1>4. LoopInv'
  BY DEF TypeInv, LoopInv, HandlerAnswered
<1> QED BY <1>2, <1>3, <1>4 DEF TypeInv

LEMMA TypeRoot == ASSUME TypeInv, HandlerRoot PROVE TypeInv'
<1>1. kstage' \in [Comps -> Stages] /\ PlaceInv'
  <2>1. Root \in Comps /\ Root \notin Tops
    BY InterruptAssumption DEF Comps
  <2> QED BY <2>1, StageSet DEF HandlerRoot, Stages
<1>2. TypeOK'
  BY <1>1 DEF TypeInv, TypeOK, HandlerRoot, httpVars, Stages
<1>3. ServerInv' /\ OnceInv'
  BY DEF TypeInv, ServerInv, OnceInv, HandlerRoot, httpVars
<1>4. LoopInv'
  BY DEF TypeInv, LoopInv, HandlerRoot
<1> QED BY <1>1, <1>2, <1>3, <1>4 DEF TypeInv

Notified == {"Stopping", "Inactive", "Stopped"}

LEMMA TypeListen == ASSUME TypeInv, HandlerListen PROVE TypeInv'
<1>1. subscribe \in Seq(Notified) /\ subscribe # <<>> /\ Len(subscribe) <= ChanCap
  BY DEF TypeInv, TypeOK, HandlerListen, Notified
<1>2. subscribe' \in Seq(Notified) /\ Len(subscribe') = Len(subscribe) - 1
  BY <1>1, HeadTailProperties DEF HandlerListen
<1>3. Len(subscribe') <= ChanCap
  BY <1>1, <1>2, EmptyLength DEF ChanCap
<1>4. exited' \in BOOLEAN
  BY Zenon DEF HandlerListen
<1>5. TypeOK'
  BY <1>2, <1>3, <1>4 DEF TypeInv, TypeOK, HandlerListen, handler, httpVars, Notified
<1>6. ServerInv' /\ PlaceInv' /\ OnceInv' /\ LoopInv'
  BY DEF TypeInv, ServerInv, PlaceInv, OnceInv, LoopInv, HandlerListen, handler, httpVars
<1> QED BY <1>5, <1>6 DEF TypeInv

LEMMA TypeNotify ==
    ASSUME TypeInv, NEW at \in Notified, NEW to \in {"Inactive", "unlocked", "tearDown"},
           RootNotify(at, to)
    PROVE  TypeInv'
<1>1. subscribe \in Seq(Notified) /\ Len(subscribe) \in Nat
  BY LenProperties DEF TypeInv, TypeOK, Notified
<1>2. subscribe' \in Seq(Notified) /\ Len(subscribe') = Len(subscribe) + 1
  BY <1>1, AppendProperties DEF RootNotify
<1>3. Len(subscribe') <= ChanCap
  BY <1>1, <1>2 DEF ChanCap, RootNotify
<1>4. TypeOK'
  BY <1>2, <1>3 DEF TypeInv, TypeOK, RootNotify, handler, httpVars, Notified
<1>5. hpc = "listen"
  BY DEF TypeInv, LoopInv, RootNotify, Notified
<1>6. ServerInv' /\ PlaceInv' /\ OnceInv' /\ LoopInv'
  BY <1>5 DEF TypeInv, ServerInv, PlaceInv, OnceInv, LoopInv, RootNotify, handler, httpVars
<1> QED BY <1>4, <1>6 DEF TypeInv

\* The last of a slice that is not empty.
LEMMA LastOne ==
    ASSUME TypeInv, components # <<>>
    PROVE  /\ Last(components) \in AddOns /\ Last(components) \in Comps
           /\ Last(components) \notin Tops /\ Last(components) # Root
<1>1. components \in Seq(AddOns)
  BY DEF TypeInv, TypeOK
<1>2. Len(components) \in Nat /\ Len(components) # 0
  BY <1>1, EmptyLength
<1>3. components[Len(components)] \in AddOns
  BY <1>1, <1>2, ElementOfSeq
<1> QED BY <1>3, InterruptAssumption DEF Last, Comps

LEMMA TypeRootStop == ASSUME TypeInv, RootStop PROVE TypeInv'
<1>1. hpc = "listen"
  BY DEF TypeInv, LoopInv, RootStop
<1>2. kstage' \in [Comps -> Stages] /\ PlaceInv'
  <2>1. CASE components = <<>>
    BY <2>1 DEF RootStop, TypeInv, TypeOK, PlaceInv, Stages
  <2>2. CASE components # <<>>
    <3>1. kstage' = [kstage EXCEPT ![Last(components)] = "stopping"] /\ topLevel' = topLevel
      BY <2>2 DEF RootStop
    <3> QED BY <2>2, <3>1, LastOne, StageSet DEF Stages
  <2> QED BY <2>1, <2>2
<1>3. TypeOK'
  BY <1>2 DEF TypeInv, TypeOK, RootStop, handler, httpVars, Stages
<1>4. ServerInv' /\ OnceInv' /\ LoopInv'
  BY <1>1 DEF TypeInv, ServerInv, OnceInv, LoopInv, RootStop, handler, httpVars
<1> QED BY <1>2, <1>3, <1>4 DEF TypeInv

LEMMA TypeRootPlain == ASSUME TypeInv, RootSecondCall \/ RootAnswered PROVE TypeInv'
<1>1. hpc = "listen"
  BY DEF TypeInv, LoopInv, RootSecondCall, RootAnswered
<1>2. ctxDone' \in BOOLEAN
  <2>1. ctxDone \in BOOLEAN
    BY DEF TypeInv, TypeOK
  <2> QED BY <2>1, Zenon DEF RootSecondCall, RootAnswered, httpVars
<1>3. TypeOK'
  BY <1>2 DEF TypeInv, TypeOK, RootSecondCall, RootAnswered, handler, httpVars
<1>4. ServerInv' /\ PlaceInv' /\ OnceInv' /\ LoopInv'
  BY <1>1 DEF TypeInv, ServerInv, PlaceInv, OnceInv, LoopInv, RootSecondCall, RootAnswered,
              handler, httpVars
<1> QED BY <1>3, <1>4 DEF TypeInv

LEMMA TypeTearDown == ASSUME TypeInv, RootTearDown PROVE TypeInv'
<1>1. kstage' \in [Comps -> Stages] /\ PlaceInv'
  <2>1. Root \in Comps /\ Root \notin Tops
    BY InterruptAssumption DEF Comps
  <2> QED BY <2>1, StageSet DEF RootTearDown, Stages
<1>2. TypeOK'
  BY <1>1 DEF TypeInv, TypeOK, RootTearDown, handler, httpVars, Stages
<1>3. ServerInv' /\ OnceInv' /\ LoopInv'
  BY DEF TypeInv, ServerInv, OnceInv, LoopInv, RootTearDown, handler, httpVars
<1> QED BY <1>1, <1>2, <1>3 DEF TypeInv

LEMMA TypeHttpPlain == ASSUME TypeInv, HttpStart \/ HttpStop \/ HttpDeadline PROVE TypeInv'
<1>1. ServerInv'
  <2>1. server \in [at : {"spawned", "made", "listening", "returned"}, down : BOOLEAN]
    BY DEF TypeInv, ServerInv
  <2>2. CASE HttpStart
    <3>1. CASE server' = [at |-> "made", down |-> FALSE]
      BY <3>1 DEF ServerInv
    <3>2. ASSUME NEW v \in {"returned", "listening"}, server' = [server EXCEPT !.at = v]
          PROVE  ServerInv'
      BY <2>1, <3>2 DEF ServerInv
    <3>3. (IF server.down THEN "returned" ELSE "listening") \in {"returned", "listening"}
      OBVIOUS
    <3> QED BY <2>2, <3>1, <3>2, <3>3 DEF HttpStart
  <2>3. CASE HttpStop
    BY <2>1, <2>3 DEF HttpStop, ServerInv
  <2>4. CASE HttpDeadline
    BY <2>1, <2>4 DEF HttpDeadline, ServerInv
  <2> QED BY <2>2, <2>3, <2>4
<1>2. server'.at \in {"spawned", "made", "listening", "returned"}
  BY <1>1 DEF ServerInv
<1>3. TypeOK'
  BY <1>2 DEF TypeInv, TypeOK, HttpStart, HttpStop, HttpDeadline, handler
<1>4. PlaceInv' /\ OnceInv' /\ LoopInv'
  BY DEF TypeInv, PlaceInv, OnceInv, LoopInv, HttpStart, HttpStop, HttpDeadline, handler
<1> QED BY <1>1, <1>3, <1>4 DEF TypeInv

LEMMA TypeDrained == ASSUME TypeInv, HttpDrained PROVE TypeInv'
<1>1. Http \in Comps /\ Http \notin Tops
  BY InterruptAssumption DEF Comps
<1>2. kstage' \in [Comps -> Stages] /\ PlaceInv'
  BY <1>1, StageSet DEF HttpDrained, Stages
<1>3. components' \in Seq(AddOns) /\ OnceInv'
  BY Removed DEF TypeInv, TypeOK, OnceInv, HttpDrained
<1>4. TypeOK'
  BY <1>2, <1>3 DEF TypeInv, TypeOK, HttpDrained, handler, Stages
<1>5. ServerInv' /\ LoopInv'
  BY DEF TypeInv, ServerInv, LoopInv, HttpDrained, handler
<1> QED BY <1>2, <1>3, <1>4, <1>5 DEF TypeInv

LEMMA TypeRequest == ASSUME TypeInv, NEW r \in Requests, Request(r) \/ Respond(r) PROVE TypeInv'
<1>1. req' \in [Requests -> {"new", "active", "done"}]
  BY DEF TypeInv, TypeOK, Request, Respond
<1>2. TypeOK'
  BY <1>1 DEF TypeInv, TypeOK, Request, Respond, handler
<1>3. ServerInv' /\ PlaceInv' /\ OnceInv' /\ LoopInv'
  BY DEF TypeInv, ServerInv, PlaceInv, OnceInv, LoopInv, Request, Respond, handler
<1> QED BY <1>2, <1>3 DEF TypeInv

LEMMA TypeStep == TypeInv /\ [Next]_vars => TypeInv'
<1> SUFFICES ASSUME TypeInv, [Next]_vars PROVE TypeInv'
  OBVIOUS
<1>1. ASSUME NEW t \in Tops, Bootstrap(t) PROVE TypeInv'
  BY <1>1, TypeBootstrap
<1>2. ASSUME NEW x \in Comps, Stops(x) PROVE TypeInv'
  BY <1>2, TypeStops
<1>3. CASE HandlerStep
  BY <1>3, TypeSend, TypeAnswered, TypeRoot, TypeListen DEF HandlerStep
<1>4. CASE RootStep
  BY <1>4, TypeNotify, TypeRootStop, TypeRootPlain, TypeTearDown DEF RootStep, Notified
<1>5. CASE HttpStep
  BY <1>5, TypeHttpPlain, TypeDrained DEF HttpStep
<1>6. ASSUME NEW r \in Requests, Request(r) \/ Respond(r) PROVE TypeInv'
  BY <1>6, TypeRequest
<1>7. CASE UNCHANGED vars
  BY <1>7 DEF vars, TypeInv, TypeOK, ServerInv, LoopInv, PlaceInv, OnceInv
<1> QED BY <1>1, <1>2, <1>3, <1>4, <1>5, <1>6, <1>7, TypeSignal DEF Next

\* The variables of the interrupt handler, of the root container's Shutdown and of
\* the HttpServer keep their types, and the handler's index is one of a component.
THEOREM TypeCorrect == Spec => []TypeOK
<1>1. TypeInv => TypeOK
  BY DEF TypeInv
<1> QED BY <1>1, TypeInit, TypeStep, PTL DEF Spec

----------------------------------------------------------------------------
(* The add-ons and the root container's slice *)

\* Whom an add-on's stage can be told from: topLevel holds none.
LEMMA Apart ==
    /\ \A a \in AddOns : a \notin Tops /\ a # Root /\ a \in Comps
    /\ \A t \in Tops : t \notin AddOns /\ t # Root /\ t \in Comps
    /\ Root \in Comps /\ Http \in AddOns
BY InterruptAssumption DEF Comps

LEMMA SliceInit == Init => SliceInv
<1> SUFFICES ASSUME Init PROVE SliceInv
  OBVIOUS
<1>1. \A a \in AddOns : \E k \in DOMAIN components : components[k] = a
  BY DEF Init, AddOns, Range
<1> QED BY <1>1 DEF Init, SliceInv

\* An add-on, or a top level component, goes down: it leaves the slice and nobody
\* else does.
LEMMA SliceGone ==
    ASSUME TypeInv, SliceInv, NEW x \in Comps, kstage[x] = "stopping",
           kstage' = [kstage EXCEPT ![x] = "down"], topLevel' = topLevel,
           components' = removeComponent(components, x),
           rpc' = rpc, subscribe' = subscribe, exited' = exited,
           stopping' = stopping \/ stopping' = "none", stopping' # "none" => x # Http
    PROVE  SliceInv'
<1>1. kstage'[x] = "down" /\ \A y \in Comps : y # x => kstage'[y] = kstage[y]
  BY StageSet DEF Stages
<1>2. \A y \in AddOns : y # x /\ (\E k \in DOMAIN components : components[k] = y)
          => \E k \in DOMAIN components' : components'[k] = y
  BY Removed DEF TypeInv, TypeOK, OnceInv
<1>3. \A a \in AddOns : kstage'[a] # "down" => \E k \in DOMAIN components' : components'[k] = a
  BY <1>1, <1>2, Apart DEF SliceInv
<1>4. components = <<>> => components' = <<>>
  BY DEF removeComponent
<1>5. stopping' # "none" => kstage'[Http] = "stopping"
  BY <1>1, Apart DEF SliceInv
<1> QED BY <1>3, <1>4, <1>5 DEF SliceInv

\* A component that is no add-on, or that has not begun to stop, changes its stage.
LEMMA SliceKeeps ==
    ASSUME TypeInv, SliceInv, NEW x \in Comps, NEW s \in Stages,
           kstage' = [kstage EXCEPT ![x] = s],
           x \in AddOns => kstage[x] = "started" /\ s = "stopping",
           components' = components, rpc' = rpc \/ rpc' \notin {"Stopped", "tearDown"},
           subscribe' = subscribe, exited' = exited, stopping' = stopping
    PROVE  SliceInv'
<1>1. kstage \in [Comps -> Stages]
  BY DEF TypeInv, TypeOK, Stages
<1>2. kstage'[x] = s /\ \A y \in Comps : y # x => kstage'[y] = kstage[y]
  BY <1>1
<1>3. \A a \in AddOns : /\ kstage'[a] # "down" => kstage[a] # "down"
                        /\ kstage[a] = "stopping" => kstage'[a] = "stopping"
  BY <1>2, Apart DEF Stages
<1> QED BY <1>3, Apart DEF SliceInv

LEMMA SliceListen == ASSUME TypeInv, SliceInv, HandlerListen PROVE SliceInv'
<1>1. subscribe \in Seq(Notified) /\ subscribe # <<>> /\ subscribe' = Tail(subscribe)
  BY DEF TypeInv, TypeOK, HandlerListen, Notified
<1>2. Len(subscribe) \in Nat /\ DOMAIN subscribe = 1..Len(subscribe) /\ Len(subscribe) # 0
      /\ Len(subscribe) <= 1
  BY <1>1, EmptyLength DEF TypeInv, TypeOK, ChanCap
<1>3. 1 \in DOMAIN subscribe
  BY <1>2
<1>4. subscribe' \in Seq(Notified) /\ Len(subscribe') = Len(subscribe) - 1
      /\ Head(subscribe) = subscribe[1]
  BY <1>1, HeadTailProperties
<1>5. \A n \in Nat : n <= 1 /\ n # 0 => n = 1
  OBVIOUS
<1>6. Len(subscribe') = 0
  BY <1>2, <1>4, <1>5
<1>7. DOMAIN subscribe' = {}
  BY <1>4, <1>6, EmptyLength
<1>8. exited' => components = <<>>
  BY <1>3, <1>4 DEF HandlerListen, SliceInv
<1> QED BY <1>7, <1>8 DEF SliceInv, HandlerListen, handler, httpVars

LEMMA SliceNotify ==
    ASSUME TypeInv, SliceInv, NEW at \in Notified, NEW to \in {"Inactive", "unlocked", "tearDown"},
           RootNotify(at, to), to = "tearDown" => at = "Stopped"
    PROVE  SliceInv'
<1>1. subscribe \in Seq(Notified) /\ Len(subscribe) \in Nat /\ DOMAIN subscribe = 1..Len(subscribe)
  BY LenProperties DEF TypeInv, TypeOK, Notified
<1>2. /\ DOMAIN subscribe' = 1..(Len(subscribe) + 1)
      /\ \A k \in 1..Len(subscribe) : subscribe'[k] = subscribe[k]
      /\ subscribe'[Len(subscribe) + 1] = at
  BY <1>1, AppendProperties DEF RootNotify
<1>3. at = "Stopped" => components = <<>>
  BY DEF RootNotify, SliceInv
<1>4. ASSUME NEW k \in DOMAIN subscribe', subscribe'[k] = "Stopped" PROVE components = <<>>
  <2>1. CASE k = Len(subscribe) + 1
    BY <1>2, <1>3, <1>4, <2>1
  <2>2. CASE k \in 1..Len(subscribe)
    BY <1>1, <1>2, <1>4, <2>2 DEF SliceInv
  <2> QED BY <1>1, <1>2, <2>1, <2>2
<1> QED BY <1>3, <1>4 DEF SliceInv, RootNotify, handler, httpVars

LEMMA SliceStep == TypeInv /\ SliceInv /\ [Next]_vars => SliceInv'
<1> SUFFICES ASSUME TypeInv, SliceInv, [Next]_vars PROVE SliceInv'
  OBVIOUS
<1>1. ASSUME NEW t \in Tops, Bootstrap(t) PROVE SliceInv'
  <2>1. t \in Comps /\ t \notin AddOns
    BY Apart
  <2>2. kstage' = [kstage EXCEPT ![t] = "initialized"] \/ kstage' = [kstage EXCEPT ![t] = "started"]
    BY <1>1 DEF Bootstrap
  <2>3. /\ components' = components /\ rpc' = rpc /\ subscribe' = subscribe /\ exited' = exited
        /\ stopping' = stopping
    BY <1>1 DEF Bootstrap, httpVars
  <2> QED BY <2>1, <2>2, <2>3, SliceKeeps DEF Stages
<1>2. ASSUME NEW x \in Comps, Stops(x) PROVE SliceInv'
  <2>1. x # Http
    BY <1>2, Apart DEF Stops
  <2> QED BY <1>2, <2>1, SliceGone DEF Stops, httpVars
<1>3. CASE Signal
  BY <1>3 DEF Signal, SliceInv, httpVars
<1>4. CASE HandlerSend
  <2>1. topLevel[i] \in Comps /\ topLevel[i] \notin AddOns
    BY <1>4, Sent, Apart
  <2>2. /\ components' = components /\ rpc' = rpc /\ subscribe' = subscribe /\ exited' = exited
        /\ stopping' = stopping
    BY <1>4 DEF HandlerSend, httpVars
  <2> QED BY <1>4, <2>1, <2>2, Sent, SliceKeeps
<1>5. CASE HandlerAnswered
  BY <1>5 DEF HandlerAnswered, SliceInv, httpVars
<1>6. CASE HandlerRoot
  <2>1. Root \in Comps /\ Root \notin AddOns
    BY Apart
  <2> QED BY <1>6, <2>1, SliceKeeps DEF HandlerRoot, httpVars, Stages
<1>7. CASE RootNotify("Stopping", "Inactive") \/ RootNotify("Inactive", "unlocked")
           \/ RootNotify("Stopped", "tearDown")
  BY <1>7, SliceNotify DEF Notified
<1>8. CASE RootSecondCall \/ RootAnswered
  BY <1>8 DEF RootSecondCall, RootAnswered, SliceInv, handler, httpVars
<1>9. CASE RootStop
  <2>1. CASE components = <<>>
    BY <1>9, <2>1 DEF RootStop, SliceInv, handler, httpVars
  <2>2. CASE components # <<>>
    BY <1>9, <2>2, LastOne, SliceKeeps DEF RootStop, httpVars, Stages
  <2> QED BY <2>1, <2>2
<1>10. CASE RootTearDown
  <2>1. Root \in Comps /\ Root \notin AddOns
    BY Apart
  <2> QED BY <1>10, <2>1, SliceKeeps DEF RootTearDown, httpVars, Stages
<1>11. CASE HttpStart \/ HttpStop \/ HttpDeadline
  BY <1>11 DEF HttpStart, HttpStop, HttpDeadline, SliceInv, handler
<1>12. CASE HttpDrained
  <2>1. kstage[Http] = "stopping" /\ Http \in Comps
    BY <1>12, Apart DEF HttpDrained, SliceInv
  <2> QED BY <1>12, <2>1, SliceGone DEF HttpDrained
<1>13. ASSUME NEW r \in Requests, Request(r) \/ Respond(r) PROVE SliceInv'
  BY <1>13 DEF Request, Respond, SliceInv, handler
<1>14. CASE UNCHANGED vars
  BY <1>14 DEF vars, SliceInv
<1> QED BY <1>1, <1>2, <1>3, <1>4, <1>5, <1>6, <1>7, <1>8, <1>9, <1>10, <1>11, <1>12, <1>13, <1>14,
           SliceListen DEF Next, HandlerStep, RootStep, HttpStep

----------------------------------------------------------------------------
(* The handler and the components that ran when the signal came *)

LEMMA RunInit == Init => RunInv
<1> SUFFICES ASSUME Init PROVE RunInv
  OBVIOUS
<1>1. \A a \in AddOns : kstage[a] = "started"
  BY Apart DEF Init
<1> QED BY <1>1 DEF Init, RunInv

\* The handler stays where it is; nobody who runs, or is down, is changed but
\* add-ons, and those only when the handler listens to the root container.
LEMMA RunKeeps ==
    ASSUME TypeInv, RunInv, UNCHANGED handler,
           \A k \in DOMAIN topLevel : k \in DOMAIN topLevel' /\ topLevel'[k] = topLevel[k],
           \A t \in Tops : kstage[t] \in {"started", "down"} => kstage'[t] = kstage[t],
           \A a \in AddOns : kstage'[a] # "started" => kstage[a] # "started" \/ hpc = "listen"
    PROVE  RunInv'
<1>1. hpc' = hpc /\ i' = i /\ running' = running /\ timedout' = timedout
  BY DEF handler
<1>2. i \in DOMAIN topLevel
  BY Index
<1>3. ASSUME NEW t \in running'
      PROVE  Settled(t)' \/ (hpc' # "listen" /\ (Ahead(t)' \/ Waits(t)'))
  <2>1. t \in running /\ t \in Tops
    BY <1>1, <1>3 DEF TypeInv, TypeOK
  <2>2. CASE Settled(t)
    BY <1>1, <2>1, <2>2 DEF Settled
  <2>3. CASE hpc # "listen" /\ Ahead(t)
    BY <1>1, <2>1, <2>3 DEF Ahead
  <2>4. CASE hpc # "listen" /\ Waits(t)
    BY <1>1, <1>2, <2>4 DEF Waits
  <2> QED BY <2>1, <2>2, <2>3, <2>4 DEF RunInv
<1> QED BY <1>1, <1>3 DEF RunInv

LEMMA RunSignal == ASSUME TypeInv, RunInv, Signal PROVE RunInv'
<1>1. ASSUME NEW t \in running' PROVE Ahead(t)'
  <2>1. t \in Tops /\ kstage[t] = "started"
    BY <1>1 DEF Signal
  <2>2. PICK k \in DOMAIN topLevel : k > 1 /\ topLevel[k] = t
    BY <2>1 DEF TypeInv, PlaceInv
  <2>3. k <= Len(topLevel)
    BY Index, <2>2
  <2> QED BY <2>1, <2>2, <2>3 DEF Signal, Ahead
<1>2. \A a \in AddOns : kstage[a] = "started"
  BY DEF Signal, RunInv
<1> QED BY <1>1, <1>2 DEF Signal, RunInv

LEMMA RunSend == ASSUME TypeInv, RunInv, HandlerSend PROVE RunInv'
<1> DEFINE x == topLevel[i]
<1>1. x \in Tops /\ x \in Comps /\ i \in DOMAIN topLevel /\ i > 1 /\ hpc = "next"
  BY Index, Sent, Apart DEF HandlerSend
<1>2. /\ kstage'[x] = AfterShutdown(kstage[x]) /\ \A y \in Comps : y # x => kstage'[y] = kstage[y]
  BY <1>1, Sent DEF TypeInv, TypeOK
<1>3. topLevel' = topLevel /\ running' = running /\ timedout' = timedout
  BY DEF HandlerSend
<1>4. \/ kstage[x] = "started" /\ hpc' = "await" /\ i' = i
      \/ kstage[x] # "started" /\ hpc' = "next" /\ i' = i - 1
  BY <1>1 DEF HandlerSend
<1>5. ASSUME NEW t \in running' PROVE Settled(t)' \/ (hpc' # "listen" /\ (Ahead(t)' \/ Waits(t)'))
  <2>1. t \in running /\ t \in Tops /\ t \in Comps
    BY <1>3, <1>5, Apart DEF TypeInv, TypeOK
  <2>2. CASE Settled(t)
    BY <1>2, <1>3, <2>1, <2>2 DEF Settled, AfterShutdown
  <2>3. CASE Ahead(t)
    <3>1. PICK k \in DOMAIN topLevel : topLevel[k] = t /\ k > 1 /\ k <= i /\ kstage[t] = "started"
      BY <2>3 DEF Ahead
    <3>2. CASE k = i
      BY <1>3, <1>4, <3>1, <3>2 DEF Waits
    <3>3. CASE k # i
      <4>1. t # x
        BY <1>1, <3>1, <3>3 DEF TypeInv, PlaceInv
      <4>2. kstage'[t] = "started"
        BY <1>2, <2>1, <3>1, <4>1
      <4>3. k < i /\ k <= i - 1 /\ k <= i'
        BY Index, <1>4, <3>1, <3>3
      <4> QED BY <1>3, <1>4, <3>1, <4>2, <4>3 DEF Ahead
    <3> QED BY <3>2, <3>3
  <2> QED BY <1>1, <2>1, <2>2, <2>3 DEF RunInv, Waits
<1>6. \A a \in AddOns : kstage'[a] = kstage[a]
  BY <1>1, <1>2, Apart
<1>7. \A a \in AddOns : kstage'[a] # "started" => hpc' = "listen"
  BY <1>1, <1>6 DEF RunInv
<1> QED BY <1>4, <1>5, <1>7 DEF RunInv

LEMMA RunAnswered == ASSUME TypeInv, RunInv, HandlerAnswered PROVE RunInv'
<1>1. /\ hpc = "await" /\ hpc' = "next" /\ i' = i - 1
      /\ topLevel' = topLevel /\ running' = running /\ kstage' = kstage
      /\ timedout \subseteq timedout'
      /\ kstage[topLevel[i]] = "down" \/ topLevel[i] \in timedout'
  BY DEF HandlerAnswered
<1>2. ASSUME NEW t \in running' PROVE Settled(t)' \/ Ahead(t)'
  <2>1. CASE Settled(t)
    BY <1>1, <2>1 DEF Settled
  <2>2. CASE Ahead(t)
    <3>1. PICK k \in DOMAIN topLevel : topLevel[k] = t /\ k > 1 /\ k < i /\ kstage[t] = "started"
      BY <1>1, <2>2 DEF Ahead
    <3>2. k <= i - 1
      BY Index, <3>1
    <3> QED BY <1>1, <3>1, <3>2 DEF Ahead
  <2>3. CASE Waits(t)
    BY <1>1, <2>3 DEF Waits, Settled
  <2> QED BY <1>1, <1>2, <2>1, <2>2, <2>3 DEF RunInv
<1> QED BY <1>1, <1>2 DEF RunInv

\* The loop is over: everybody who ran has been settled.
LEMMA RunRoot == ASSUME TypeInv, RunInv, HandlerRoot PROVE RunInv'
<1>1. hpc = "next" /\ i = 1 /\ hpc' = "listen" /\ running' = running /\ timedout' = timedout
  BY DEF HandlerRoot
<1>2. \A y \in Comps : y # Root => kstage'[y] = kstage[y]
  BY DEF HandlerRoot, TypeInv, TypeOK
<1>3. \A t \in running : ~Ahead(t) /\ ~Waits(t)
  BY Index, <1>1 DEF Ahead, Waits
<1>4. \A t \in running : Settled(t)'
  BY <1>1, <1>2, <1>3, Apart DEF RunInv, Settled, TypeInv, TypeOK
<1> QED BY <1>1, <1>4 DEF RunInv

LEMMA RunStep == Inv /\ [Next]_vars => RunInv'
<1> SUFFICES ASSUME Inv, [Next]_vars PROVE RunInv'
  OBVIOUS
<1>0. TypeInv /\ SliceInv /\ RunInv /\ kstage \in [Comps -> Stages]
  BY DEF Inv, TypeInv, TypeOK, Stages
<1>1. ASSUME NEW t \in Tops, Bootstrap(t) PROVE RunInv'
  <2>1. \A k \in DOMAIN topLevel : k \in DOMAIN topLevel' /\ topLevel'[k] = topLevel[k]
    <3>1. CASE topLevel' = topLevel
      BY <3>1
    <3>2. CASE topLevel' = Append(topLevel, t)
      BY <1>0, <3>2, Index, AppendProperties DEF TypeInv, TypeOK
    <3> QED BY <1>1, <3>1, <3>2 DEF Bootstrap
  <2>2. \A y \in Comps : y # t => kstage'[y] = kstage[y]
    BY <1>0, <1>1 DEF Bootstrap
  <2>3. kstage[t] \notin {"started", "down"}
    BY <1>1 DEF Bootstrap
  <2> QED BY <1>0, <1>1, <2>1, <2>2, <2>3, Apart, RunKeeps DEF Bootstrap
<1>2. ASSUME NEW x \in Comps, Stops(x) PROVE RunInv'
  <2>1. kstage[x] = "stopping" /\ \A y \in Comps : y # x => kstage'[y] = kstage[y]
    BY <1>0, <1>2 DEF Stops
  <2> QED BY <1>0, <1>2, <2>1, Apart, RunKeeps DEF Stops
<1>3. CASE HandlerListen
  BY <1>0, <1>3, RunKeeps DEF HandlerListen
<1>4. CASE RootNotify("Stopping", "Inactive") \/ RootNotify("Inactive", "unlocked")
           \/ RootNotify("Stopped", "tearDown") \/ RootSecondCall \/ RootAnswered
  <2>1. kstage' = kstage /\ topLevel' = topLevel /\ UNCHANGED handler
    BY <1>4 DEF RootNotify, RootSecondCall, RootAnswered
  <2> QED BY <1>0, <2>1, RunKeeps
<1>5. CASE RootStop
  <2>1. hpc = "listen"
    BY <1>0, <1>5 DEF RootStop, TypeInv, LoopInv
  <2>2. \A t \in Tops : kstage'[t] = kstage[t]
    <3>1. CASE components = <<>>
      BY <1>5, <3>1 DEF RootStop
    <3>2. CASE components # <<>>
      BY <1>0, <1>5, <3>2, LastOne, Apart DEF RootStop
    <3> QED BY <3>1, <3>2
  <2> QED BY <1>0, <1>5, <2>1, <2>2, RunKeeps DEF RootStop
<1>6. CASE RootTearDown
  <2>1. \A y \in Comps : y # Root => kstage'[y] = kstage[y]
    BY <1>0, <1>6 DEF RootTearDown
  <2> QED BY <1>0, <1>6, <2>1, Apart, RunKeeps DEF RootTearDown
<1>7. CASE HttpStart \/ HttpStop \/ HttpDeadline
  <2>1. kstage' = kstage /\ topLevel' = topLevel /\ UNCHANGED handler
    BY <1>7 DEF HttpStart, HttpStop, HttpDeadline
  <2> QED BY <1>0, <2>1, RunKeeps
<1>8. CASE HttpDrained
  <2>1. kstage[Http] = "stopping" /\ \A y \in Comps : y # Http => kstage'[y] = kstage[y]
    BY <1>0, <1>8 DEF HttpDrained, SliceInv
  <2>2. \A a \in AddOns : kstage'[a] # "started" => kstage[a] # "started"
    BY <2>1, Apart
  <2> QED BY <1>0, <1>8, <2>1, <2>2, Apart, RunKeeps DEF HttpDrained
<1>9. ASSUME NEW r \in Requests, Request(r) \/ Respond(r) PROVE RunInv'
  <2>1. kstage' = kstage /\ topLevel' = topLevel /\ UNCHANGED handler
    BY <1>9 DEF Request, Respond
  <2> QED BY <1>0, <2>1, RunKeeps
<1>10. CASE UNCHANGED vars
  BY <1>0, <1>10, RunKeeps DEF vars, handler
<1> QED BY <1>0, <1>1, <1>2, <1>3, <1>4, <1>5, <1>6, <1>7, <1>8, <1>9, <1>10,
           RunSignal, RunSend, RunAnswered, RunRoot DEF Next, HandlerStep, RootStep, HttpStep

\* However the application's components and the add-ons stop, and whatever does not
\* answer in time: no add-on is stopped before every top level component that ran
\* at the time of the signal is down or has had its time, and os.Exit comes only
\* after every add-on is torn down.
THEOREM EndIsOrderly == Spec => []OrderlyEnd
<1>1. Init => Inv
  BY TypeInit, SliceInit, RunInit DEF Inv
<1>2. Inv /\ [Next]_vars => Inv'
  BY TypeStep, SliceStep, RunStep DEF Inv
<1>3. Inv => OrderlyEnd
  BY DEF Inv, SliceInv, RunInv, OrderlyEnd
<1> QED BY <1>1, <1>2, <1>3, PTL DEF Spec
=============================================================================
