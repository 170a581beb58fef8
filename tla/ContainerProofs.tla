-------------------------- MODULE ContainerProofs --------------------------
(***************************************************************************)
(* Proofs about Container, for any number of components.                   *)
(*                                                                         *)
(* Two results hold whoever shuts components down and whenever Add is      *)
(* called.  The others are about a container that is the only one to shut  *)
(* its components down and that nothing is added to meanwhile (Alone).     *)
(***************************************************************************)
EXTENDS Container, SequenceTheorems, FiniteSetTheorems, WellFoundedInduction, TLAPS

----------------------------------------------------------------------------
(* Invariants that hold in every setting *)

\* The indices and lengths that were read stay within the memory of the slice.
ReadInv ==
    /\ act.n <= Len(array)
    /\ \A x \in Comps : snap[x].n <= Len(array) /\ (rpc[x] = "assign" => snap[x].idx >= 1)

TypeInv == TypeOK /\ ReadInv

\* A component that runs is in the map, or about to be put there; one that takes
\* itself out of the container is down.
FoundInv ==
    \A x \in Children :
        /\ kstage[x] \in {"initialized", "started", "stopping", "stuck"}
              => x \in cComponents \/ (act.at = "map" /\ act.comp = x)
        /\ rpc[x] # "none" => kstage[x] = "down"

----------------------------------------------------------------------------
(* Invariants of a container that ends alone *)

Alone == Clients = {} /\ ~AddsDuringStop

InSlice(x) == \E i \in 1..len : array[i] = x
LastIs(x) == len # 0 /\ array[len] = x

OnceInv == \A i, j \in 1..len : array[i] = array[j] => i = j

\* Before the shutdown nothing ends; after it nothing is added.
PhaseInv ==
    /\ cstage = "started" => /\ spc = "none" /\ ~late
                             /\ \A x \in Children : kstage[x] \notin {"stopping", "stuck", "down"}
    /\ cstage # "started" => pending = {} /\ act.at = "wait"
    /\ spc \notin {"none", "crashed"} => cstage = "halting"
    /\ kstage[Self] = "started"

\* What is being added: not yet in the slice, and in the map from ActMap on.
AddInv ==
    /\ \A x \in pending : /\ x \notin cComponents /\ ~InSlice(x)
                          /\ ~Activating(x)
                          /\ x \in Children => kstage[x] = "new"
    /\ act.at \in {"init", "map"} => act.comp \notin cComponents /\ ~InSlice(act.comp)
    /\ act.at \in {"lock", "append"} => act.comp \in cComponents /\ ~InSlice(act.comp)
    /\ act.at = "start" => act.comp \in cComponents /\ InSlice(act.comp)
    /\ act.at = "append" => act.n = len
    /\ act.comp \in Children => /\ act.at = "init" => kstage[act.comp] = "new"
                                /\ act.at \in {"map", "lock", "append", "start"}
                                      => kstage[act.comp] \in {"initialized", "started"}

\* The slice and the map, while components are added and removed.
MatchInv ==
    \A x \in Comps :
        /\ rpc[x] \in {"none", "delete"} /\ ~(act.at \in {"lock", "append"} /\ act.comp = x)
              => (x \in cComponents <=> InSlice(x))
        /\ rpc[x] \in {"read", "assign"} => x \notin cComponents
        /\ x \in Children /\ kstage[x] \in {"new", "aborted"} => x \notin cComponents

\* The only component that ends is the last of the slice, until it is cut off.
EndInv ==
    /\ \A x \in Children : kstage[x] \in {"stopping", "stuck"} \/ rpc[x] # "none" => LastIs(x)
    /\ \A x \in Comps : rpc[x] = "assign" => LastIs(x) /\ snap[x] = [idx |-> len, n |-> len]
    /\ rpc[Self] # "none" => cstage = "down"
    /\ cstage = "down" => spc \in {"none", "crashed"} /\ (len = 0 \/ (len = 1 /\ array[1] = Self))

\* Where Stop is: the component it is busy with is the last of the slice, or gone.
StopInv ==
    /\ spc = "test" => last >= len
    /\ spc \in {"send", "wait"} => target # Self /\ (InSlice(target) => LastIs(target))
    /\ spc = "return" => len = 1 /\ array[1] = Self

\* As long as no Shutdown has timed out, whatever ends is waited for.
QuietInv ==
    ~late => /\ ~panicked /\ ~Crashed
             /\ \A x \in Children : kstage[x] = "stopping" \/ rpc[x] # "none"
                                       => spc = "wait" /\ target = x
             /\ spc = "test" => last <= len

GenInv == TypeInv /\ FoundInv
AloneInv == OnceInv /\ PhaseInv /\ AddInv /\ MatchInv /\ EndInv /\ StopInv /\ QuietInv
Inv == GenInv /\ AloneInv

----------------------------------------------------------------------------
(* The slice *)

KStages == {"new", "initialized", "aborted", "started", "stopping", "stuck", "down"}

\* A set of indices that is not empty has a largest one.
LEMMA MaxExists ==
    ASSUME NEW n \in Nat, NEW I, I \subseteq 1..n, I # {}
    PROVE  Max(I) \in I /\ \A i \in I : i <= Max(I)
<1> DEFINE T == {n - i : i \in I}
<1>0. \A i \in I : i \in Nat /\ n - i \in Nat
  OBVIOUS
<1>1. T \subseteq Nat /\ T # {}
  BY <1>0
<1>2. PICK t \in T : \A u \in T : ~(<<u, t>> \in OpToRel(<, Nat))
  BY <1>1, WFMin, NatLessThanWellFounded
<1>3. \A u \in T : ~(u < t)
  BY <1>1, <1>2 DEF OpToRel
<1>4. PICK m \in I : t = n - m
  BY <1>2
<1>5. \A i \in I : m >= i
  <2> SUFFICES ASSUME NEW i \in I PROVE m >= i
    OBVIOUS
  <2>1. n - i \in T
    OBVIOUS
  <2>2. ~(n - i < n - m)
    BY <1>3, <1>4, <2>1
  <2>3. i \in Nat /\ m \in Nat
    OBVIOUS
  <2> QED BY <2>2, <2>3
<1>6. Max(I) \in I /\ \A i \in I : Max(I) >= i
  BY <1>4, <1>5 DEF Max
<1> DEFINE M == Max(I)
<1>7. M \in I /\ \A i \in I : M >= i
  BY <1>6
<1> HIDE DEF M
<1>8. \A i \in I : i <= M
  BY <1>0, <1>7
<1> QED BY <1>7, <1>8 DEF M

\* Go's append: behind the length that was read, or at the end of the memory.
LEMMA Appended ==
    ASSUME NEW S, NEW s \in Seq(S), NEW n \in Nat, n <= Len(s), NEW x \in S,
           NEW a, a = IF n < Len(s) THEN [s EXCEPT ![n + 1] = x] ELSE Append(s, x)
    PROVE  /\ a \in Seq(S) /\ Len(s) <= Len(a) /\ n + 1 <= Len(a)
           /\ a[n + 1] = x /\ \A i \in 1..n : a[i] = s[i]
<1>1. Len(s) \in Nat /\ DOMAIN s = 1..Len(s)
  BY LenProperties
<1>2. CASE n < Len(s)
  <2>1. n + 1 \in 1..Len(s)
    BY <1>1, <1>2
  <2>2. a = [s EXCEPT ![n + 1] = x]
    BY <1>2
  <2>3. a \in Seq(S) /\ Len(a) = Len(s) /\ \A i \in 1..Len(s) : a[i] = IF i = n+1 THEN x ELSE s[i]
    BY <2>1, <2>2, ExceptSeq
  <2>4. \A i \in 1..n : i \in 1..Len(s) /\ i # n+1
    BY <1>1, <1>2
  <2>0. \A p, q \in Nat : q + 1 \in 1..p => p <= p /\ q + 1 <= p
    OBVIOUS
  <2>5. Len(s) <= Len(a) /\ n + 1 <= Len(a)
    BY <1>1, <2>0, <2>1, <2>3
  <2>6. a[n + 1] = x
    BY <2>1, <2>3
  <2>7. \A i \in 1..n : a[i] = s[i]
    BY <2>3, <2>4
  <2> QED BY <2>3, <2>5, <2>6, <2>7
<1>3. CASE ~(n < Len(s))
  <2>0. \A p, q \in Nat : p <= q /\ ~(p < q) => p = q
    OBVIOUS
  <2>1. n = Len(s)
    BY <1>1, <1>3, <2>0
  <2>2. a = Append(s, x)
    BY <1>3
  <2>3. /\ a \in Seq(S) /\ Len(a) = Len(s) + 1 /\ a[Len(s) + 1] = x
        /\ \A i \in 1..Len(s) : a[i] = s[i]
    BY <2>2, AppendProperties
  <2>4. Len(s) <= Len(a) /\ n + 1 <= Len(a)
    BY <1>1, <2>1, <2>3
  <2> QED BY <2>1, <2>3, <2>4
<1> QED BY <1>2, <1>3

\* removeComponent's move of what is behind an index.
LEMMA Moved ==
    ASSUME NEW S, NEW s \in Seq(S), NEW m \in Nat, NEW n \in Nat, m >= 1, m <= n, n <= Len(s),
           NEW a, a = [i \in DOMAIN s |-> IF i \in m..(n - 1) THEN s[i + 1] ELSE s[i]]
    PROVE  a \in Seq(S) /\ Len(a) = Len(s) /\ \A i \in 1..(m - 1) : a[i] = s[i]
<1>1. Len(s) \in Nat /\ DOMAIN s = 1..Len(s)
  BY LenProperties
<1>2. \A i \in 1..Len(s) : s[i] \in S
  BY ElementOfSeq
<1>3. \A i \in 1..Len(s) : a[i] \in S
  <2> SUFFICES ASSUME NEW i \in 1..Len(s) PROVE a[i] \in S
    OBVIOUS
  <2>1. a[i] = IF i \in m..(n - 1) THEN s[i + 1] ELSE s[i]
    BY <1>1
  <2>2. i \in m..(n - 1) => i + 1 \in 1..Len(s)
    BY <1>1
  <2> QED BY <1>2, <2>1, <2>2
<1>4. DOMAIN a = 1..Len(s)
  BY <1>1
<1>5. a \in [1..Len(s) -> S]
  BY <1>3, <1>4
<1>6. \A i \in 1..(m - 1) : i \in 1..Len(s) /\ i \notin m..(n - 1)
  BY <1>1
<1> QED BY <1>1, <1>4, <1>5, <1>6

----------------------------------------------------------------------------
(* Types *)

LEMMA Lengths ==
    ASSUME TypeInv
    PROVE  /\ array \in Seq(Comps) /\ Len(array) \in Nat /\ DOMAIN array = 1..Len(array)
           /\ len \in Nat /\ len <= Len(array) /\ act.n \in Nat /\ act.comp \in Comps
           /\ \A i \in 1..len : array[i] \in Comps
           /\ \A x \in Comps : snap[x].n \in Nat /\ snap[x].idx \in Nat
<1>1. array \in Seq(Comps) /\ Len(array) \in Nat /\ DOMAIN array = 1..Len(array)
  BY LenProperties DEF TypeInv, TypeOK
<1>2. len \in Nat /\ len <= Len(array) /\ act.n \in Nat /\ act.comp \in Comps
  BY <1>1 DEF TypeInv, TypeOK
<1>3. \A i \in 1..len : array[i] \in Comps
  <2>1. \A i \in 1..len : i \in 1..Len(array)
    BY <1>1, <1>2
  <2> QED BY <1>1, <2>1, ElementOfSeq
<1>4. \A x \in Comps : snap[x].n \in Nat /\ snap[x].idx \in Nat
  BY DEF TypeInv, TypeOK
<1> QED BY <1>1, <1>2, <1>3, <1>4

LEMMA TypeInit == Init => TypeInv
<1> SUFFICES ASSUME Init PROVE TypeInv
  OBVIOUS
<1> USE ContainerAssumption
<1>1. array \in Seq(Comps) /\ len \in 0..Len(array) /\ cComponents \subseteq Comps
  <2>1. Self \in Comps
    BY DEF Comps
  <2>2. CASE Bootstrap = "first"
    <3>1. array = <<Self>> /\ len = Len(array) /\ cComponents = {Self}
      BY <2>2 DEF Init
    <3> QED BY <2>1, <3>1
  <2>3. CASE Bootstrap # "first"
    <3>1. array = <<>> /\ len = Len(array) /\ cComponents = {}
      BY <2>3 DEF Init
    <3> QED BY <3>1
  <2> QED BY <2>2, <2>3
<1>2. Len(array) \in Nat
  BY <1>1, LenProperties
<1>3. kstage \in [Comps -> KStages]
  BY DEF Init, KStages
<1>4. act \in [at : {"wait", "init", "map", "lock", "append", "start"}, comp : Comps, n : Nat]
      /\ act.n = 0
  BY DEF Init, Resting, Comps
<1>5. snap \in [Comps -> [idx : Nat, n : Nat]] /\ \A x \in Comps : snap[x].n = 0
  BY DEF Init, NoSnap
<1>6. rpc \in [Comps -> {"none", "delete", "read", "assign"}] /\ \A x \in Comps : rpc[x] = "none"
  BY DEF Init
<1>7. panicked \in BOOLEAN /\ late \in BOOLEAN
  BY Zenon DEF Init
<1>8. TypeOK
  BY <1>1, <1>3, <1>4, <1>5, <1>6, <1>7 DEF Init, TypeOK, Comps, KStages
<1>9. ReadInv
  BY <1>2, <1>4, <1>5, <1>6 DEF ReadInv
<1> QED BY <1>8, <1>9 DEF TypeInv

LEMMA TypeAdd == ASSUME TypeInv, NEW x \in Comps, Add(x) PROVE TypeInv'
<1>1. TypeOK'
  BY DEF TypeInv, TypeOK, Add, list, stopVars, rmVars
<1>2. ReadInv'
  BY DEF TypeInv, ReadInv, Add, list, rmVars
<1> QED BY <1>1, <1>2 DEF TypeInv

ActStates == {"wait", "init", "map", "lock", "append", "start"}

\* The activation goroutine changes its place, the length it has read and the
\* stage of a component.
LEMMA TypeActing ==
    ASSUME TypeInv, NEW at \in ActStates, NEW x \in Comps, NEW n \in Nat, n <= Len(array),
           act' = [at |-> at, comp |-> x, n |-> n], kstage' \in [Comps -> KStages],
           pending' \subseteq Comps, cComponents' \subseteq Comps,
           UNCHANGED <<cstage, list, stopVars, rmVars>>
    PROVE  TypeInv'
<1>1. act' \in [at : ActStates, comp : Comps, n : Nat]
  OBVIOUS
<1>2. TypeOK'
  BY <1>1 DEF TypeInv, TypeOK, list, stopVars, rmVars, KStages, ActStates
<1>3. ReadInv'
  BY DEF TypeInv, ReadInv, list, rmVars
<1> QED BY <1>2, <1>3 DEF TypeInv

\* act as a record of its fields.
LEMMA ActFields ==
    ASSUME TypeInv
    PROVE  /\ act = [at |-> act.at, comp |-> act.comp, n |-> act.n]
           /\ \A v : [act EXCEPT !.at = v] = [at |-> v, comp |-> act.comp, n |-> act.n]
           /\ \A v, m : [act EXCEPT !.at = v, !.n = m] = [at |-> v, comp |-> act.comp, n |-> m]
<1>1. act \in [at : ActStates, comp : Comps, n : Nat]
  BY DEF TypeInv, TypeOK, ActStates
<1>2. act = [at |-> act.at, comp |-> act.comp, n |-> act.n]
  BY <1>1
<1>3. \A v : [act EXCEPT !.at = v] = [at |-> v, comp |-> act.comp, n |-> act.n]
  BY <1>1
<1>4. \A v, m : [act EXCEPT !.at = v, !.n = m] = [at |-> v, comp |-> act.comp, n |-> m]
  <2> SUFFICES ASSUME NEW v, NEW m
               PROVE  [act EXCEPT !.at = v, !.n = m] = [at |-> v, comp |-> act.comp, n |-> m]
    OBVIOUS
  <2> DEFINE b == [act EXCEPT !.at = v]
  <2>1. [act EXCEPT !.at = v, !.n = m] = [b EXCEPT !.n = m]
    OBVIOUS
  <2>2. b = [at |-> v, comp |-> act.comp, n |-> act.n]
    BY <1>3
  <2> HIDE DEF b
  <2>3. [b EXCEPT !.n = m] = [at |-> v, comp |-> act.comp, n |-> m]
    BY <2>2
  <2> QED BY <2>1, <2>3
<1> QED BY <1>2, <1>3, <1>4

\* The stage of one component changes.
LEMMA StageSet ==
    ASSUME TypeInv, NEW x \in Comps, NEW s \in KStages, kstage' = [kstage EXCEPT ![x] = s]
    PROVE  /\ kstage' \in [Comps -> KStages]
           /\ kstage'[x] = s /\ \A y \in Comps : y # x => kstage'[y] = kstage[y]
<1>1. kstage \in [Comps -> KStages]
  BY DEF TypeInv, TypeOK, KStages
<1> QED BY <1>1

LEMMA TypeAct == ASSUME TypeInv, ActStep PROVE TypeInv'
<1>0. /\ kstage \in [Comps -> KStages] /\ act.comp \in Comps /\ 0 <= Len(array)
      /\ pending \subseteq Comps /\ cComponents \subseteq Comps /\ act.n <= Len(array) /\ len <= Len(array)
      /\ act.n \in Nat /\ len \in Nat /\ Self \in Comps /\ 0 \in Nat /\ kstage[act.comp] \in KStages
  BY Lengths DEF TypeInv, TypeOK, ReadInv, Comps, KStages
<1>1. ASSUME NEW x \in Comps, ActTake(x) PROVE TypeInv'
  BY <1>0, <1>1, TypeActing DEF ActTake, ActStates
<1>2. CASE ActInit
  <2>1. CASE kstage' = [kstage EXCEPT ![act.comp] = IF @ = "new" THEN "initialized" ELSE @]
             /\ act' = [act EXCEPT !.at = "map"]
    <3>1. kstage' \in [Comps -> KStages]
      BY <1>0, <2>1 DEF KStages
    <3>2. act' = [at |-> "map", comp |-> act.comp, n |-> act.n]
      BY <2>1, ActFields
    <3> QED BY <1>0, <1>2, <3>1, <3>2, TypeActing DEF ActInit, ActStates
  <2>2. CASE kstage' = [kstage EXCEPT ![act.comp] = "aborted"] /\ act' = Resting
    <3>1. kstage' \in [Comps -> KStages]
      BY <1>0, <2>2 DEF KStages
    <3> QED BY <1>0, <1>2, <2>2, <3>1, TypeActing DEF ActInit, ActStates, Resting
  <2> QED BY <1>2, <2>1, <2>2 DEF ActInit
<1>3. CASE ActMap
  <2>1. act' = [at |-> "lock", comp |-> act.comp, n |-> act.n]
    BY <1>3, ActFields DEF ActMap
  <2>2. cComponents' \subseteq Comps /\ kstage' = kstage /\ pending' = pending
    BY <1>0, <1>3 DEF ActMap
  <2> QED BY <1>0, <1>3, <2>1, <2>2, TypeActing DEF ActMap, ActStates
<1>4. CASE ActLock
  <2>1. act' = [at |-> "append", comp |-> act.comp, n |-> len]
    BY <1>4, ActFields DEF ActLock
  <2> QED BY <1>0, <1>4, <2>1, TypeActing DEF ActLock, ActStates
<1>5. CASE ActAppend
  <2>1. /\ array' \in Seq(Comps) /\ Len(array) <= Len(array') /\ act.n + 1 <= Len(array')
    BY <1>0, <1>5, Lengths, Appended DEF ActAppend
  <2>2. act' = [at |-> "start", comp |-> act.comp, n |-> act.n]
    BY <1>5, ActFields DEF ActAppend
  <2>3. act' \in [at : ActStates, comp : Comps, n : Nat] /\ act'.n = act.n
    BY <1>0, <2>2 DEF ActStates
  <2>4. Len(array') \in Nat /\ Len(array) \in Nat
    BY <2>1, Lengths, LenProperties
  <2>5. len' \in 0..Len(array')
    BY <1>0, <1>5, <2>1, <2>4 DEF ActAppend
  <2>6. TypeOK'
    BY <1>5, <2>1, <2>3, <2>5 DEF TypeInv, TypeOK, ActAppend, stopVars, rmVars, ActStates
  <2>7. \A m \in Nat : m <= Len(array) => m <= Len(array')
    BY <2>1, <2>4
  <2>8. ReadInv'
    BY <1>0, <1>5, <2>3, <2>7, Lengths DEF TypeInv, ReadInv, ActAppend, rmVars
  <2> QED BY <2>6, <2>8 DEF TypeInv
<1>6. CASE ActStart
  <2>1. kstage' \in [Comps -> KStages]
    BY <1>0, <1>6 DEF ActStart, KStages
  <2> QED BY <1>0, <1>6, <2>1, TypeActing DEF ActStart, ActStates, Resting
<1> QED BY <1>1, <1>2, <1>3, <1>4, <1>5, <1>6 DEF ActStep

LEMMA TypeClient == ASSUME TypeInv, NEW x \in Comps, ClientShutdown(x) PROVE TypeInv'
<1>1. kstage' \in [Comps -> KStages]
  BY DEF TypeInv, TypeOK, ClientShutdown, AfterShutdown, KStages
<1>2. TypeOK'
  BY <1>1 DEF TypeInv, TypeOK, ClientShutdown, list, actVars, stopVars, rmVars, KStages
<1>3. ReadInv'
  BY DEF TypeInv, ReadInv, ClientShutdown, list, actVars, rmVars
<1> QED BY <1>2, <1>3 DEF TypeInv

\* The index that RemoveRead keeps.
LEMMA Found ==
    ASSUME TypeInv, NEW x, NEW F, F = {i \in 1..len : array[i] = x}, F # {}
    PROVE  Max(F) \in 1..len /\ array[Max(F)] = x
<1>1. F \subseteq 1..len /\ len \in Nat
  BY Lengths
<1>2. Max(F) \in F
  BY <1>1, MaxExists
<1> QED BY <1>2

LEMMA TypeChild == ASSUME TypeInv, NEW x \in Comps, ChildStep(x) PROVE TypeInv'
<1>0. /\ kstage \in [Comps -> KStages] /\ rpc \in [Comps -> {"none", "delete", "read", "assign"}]
      /\ snap \in [Comps -> [idx : Nat, n : Nat]]
  BY DEF TypeInv, TypeOK, KStages
<1>1. CASE ChildStops(x)
  <2>1. kstage' \in [Comps -> KStages] /\ rpc' \in [Comps -> {"none", "delete", "read", "assign"}]
        /\ \A y \in Comps : rpc'[y] = "assign" => rpc[y] = "assign"
    BY <1>0, <1>1 DEF ChildStops, KStages
  <2>2. TypeOK'
    BY <1>1, <2>1 DEF TypeInv, TypeOK, ChildStops, list, actVars, stopVars, KStages
  <2>3. ReadInv'
    BY <1>1, <2>1 DEF TypeInv, ReadInv, ChildStops, list, actVars
  <2> QED BY <2>2, <2>3 DEF TypeInv
<1>2. CASE RemoveDelete(x)
  <2>1. rpc' \in [Comps -> {"none", "delete", "read", "assign"}]
        /\ \A y \in Comps : rpc'[y] = "assign" => rpc[y] = "assign"
    BY <1>0, <1>2 DEF RemoveDelete
  <2>2. TypeOK'
    BY <1>2, <2>1 DEF TypeInv, TypeOK, RemoveDelete, list, actVars, stopVars
  <2>3. ReadInv'
    BY <1>2, <2>1 DEF TypeInv, ReadInv, RemoveDelete, list, actVars
  <2> QED BY <2>2, <2>3 DEF TypeInv
<1>3. CASE RemoveRead(x)
  <2> DEFINE F == {i \in 1..len : array[i] = x}
  <2>1. CASE F # {} /\ snap' = [snap EXCEPT ![x] = [idx |-> Max(F), n |-> len]]
             /\ rpc' = [rpc EXCEPT ![x] = "assign"]
    <3>1. Max(F) \in 1..len
      BY <2>1, Found
    <3> HIDE DEF F
    <3>2. Max(F) \in Nat /\ Max(F) >= 1 /\ len \in Nat /\ len <= Len(array)
      BY <3>1, Lengths
    <3>3. [idx |-> Max(F), n |-> len] \in [idx : Nat, n : Nat]
      BY <3>2
    <3>4. rpc' \in [Comps -> {"none", "delete", "read", "assign"}]
          /\ snap' \in [Comps -> [idx : Nat, n : Nat]]
          /\ snap'[x].idx = Max(F) /\ snap'[x].n = len
          /\ \A y \in Comps : y # x => snap'[y] = snap[y] /\ rpc'[y] = rpc[y]
      BY <1>0, <2>1, <3>3
    <3>5. TypeOK'
      BY <1>3, <3>4 DEF TypeInv, TypeOK, RemoveRead, list, actVars, stopVars
    <3>6. ReadInv'
      BY <1>3, <3>2, <3>4 DEF TypeInv, ReadInv, RemoveRead, list, actVars
    <3> QED BY <3>5, <3>6 DEF TypeInv
  <2>2. CASE rpc' = [rpc EXCEPT ![x] = "none"] /\ UNCHANGED snap
    <3>1. rpc' \in [Comps -> {"none", "delete", "read", "assign"}]
          /\ \A y \in Comps : rpc'[y] = "assign" => rpc[y] = "assign"
      BY <1>0, <2>2
    <3>2. TypeOK'
      BY <1>3, <2>2, <3>1 DEF TypeInv, TypeOK, RemoveRead, list, actVars, stopVars
    <3>3. ReadInv'
      BY <1>3, <2>2, <3>1 DEF TypeInv, ReadInv, RemoveRead, list, actVars
    <3> QED BY <3>2, <3>3 DEF TypeInv
  <2> QED BY <1>3, <2>1, <2>2 DEF RemoveRead
<1>4. CASE RemoveAssign(x)
  <2>1. PICK n \in {snap[x].n, len} :
          \/ /\ snap[x].idx <= n
             /\ array' = [i \in DOMAIN array |->
                            IF i \in snap[x].idx..(n - 1) THEN array[i + 1] ELSE array[i]]
             /\ len' = n - 1
          \/ /\ snap[x].idx > n
             /\ UNCHANGED list
    BY <1>4 DEF RemoveAssign
  <2>2. n \in Nat /\ n <= Len(array) /\ snap[x].idx \in Nat /\ snap[x].idx >= 1
    BY <1>4, Lengths DEF TypeInv, ReadInv, RemoveAssign
  <2>3. array' \in Seq(Comps) /\ Len(array') = Len(array) /\ len' \in 0..Len(array)
    <3>1. CASE snap[x].idx <= n /\ len' = n - 1
               /\ array' = [i \in DOMAIN array |->
                            IF i \in snap[x].idx..(n - 1) THEN array[i + 1] ELSE array[i]]
      <4>1. array' \in Seq(Comps) /\ Len(array') = Len(array)
        BY <2>2, <3>1, Lengths, Moved
      <4>2. n - 1 \in 0..Len(array)
        BY <2>2, <3>1, Lengths
      <4> QED BY <3>1, <4>1, <4>2
    <3>2. CASE UNCHANGED list
      BY <3>2 DEF TypeInv, TypeOK, list
    <3> QED BY <2>1, <3>1, <3>2
  <2>4. NoSnap \in [idx : Nat, n : Nat] /\ NoSnap.n = 0
    BY DEF NoSnap
  <2>5. rpc' \in [Comps -> {"none", "delete", "read", "assign"}]
        /\ snap' \in [Comps -> [idx : Nat, n : Nat]]
        /\ rpc'[x] = "none" /\ snap'[x].n = 0
        /\ \A y \in Comps : y # x => snap'[y] = snap[y] /\ rpc'[y] = rpc[y]
    BY <1>0, <1>4, <2>4 DEF RemoveAssign
  <2>6. TypeOK'
    BY <1>4, <2>3, <2>5 DEF TypeInv, TypeOK, RemoveAssign, actVars, stopVars
  <2>7. 0 <= Len(array)
    BY Lengths
  <2>8. ReadInv'
    BY <1>4, <2>3, <2>5, <2>7 DEF TypeInv, ReadInv, RemoveAssign, actVars
  <2> QED BY <2>6, <2>8 DEF TypeInv
<1> QED BY <1>1, <1>2, <1>3, <1>4 DEF ChildStep

\* The slice, the map and the activation are left alone; Stop and the stages change.
LEMMA TypeStopping ==
    ASSUME TypeInv, UNCHANGED <<list, cComponents, actVars, snap>>,
           cstage' \in {"started", "stopping", "halting", "down"},
           kstage' \in [Comps -> KStages],
           spc' \in {"none", "test", "send", "wait", "next", "return", "crashed"},
           last' \in Nat, target' \in Comps, panicked' \in BOOLEAN, late' \in BOOLEAN,
           rpc' \in [Comps -> {"none", "delete", "read", "assign"}],
           \A x \in Comps : rpc'[x] = "assign" => rpc[x] = "assign"
    PROVE  TypeInv'
<1>1. TypeOK'
  BY DEF TypeInv, TypeOK, list, actVars, KStages
<1>2. ReadInv'
  BY DEF TypeInv, ReadInv, list, actVars
<1> QED BY <1>1, <1>2 DEF TypeInv

LEMMA TypeStop ==
    ASSUME TypeInv, StopStep \/ Shutdown \/ MapFatal
    PROVE  TypeInv'
<1>0. /\ cstage \in {"started", "stopping", "halting", "down"}
      /\ kstage \in [Comps -> KStages]
      /\ spc \in {"none", "test", "send", "wait", "next", "return", "crashed"}
      /\ last \in Nat /\ target \in Comps /\ panicked \in BOOLEAN /\ late \in BOOLEAN
      /\ rpc \in [Comps -> {"none", "delete", "read", "assign"}]
      /\ len \in Nat
  BY Lengths DEF TypeInv, TypeOK, KStages
<1>1. CASE Shutdown
  BY <1>0, <1>1, TypeStopping DEF Shutdown, stopVars, rmVars
<1>2. CASE StopBegin
  BY <1>0, <1>2, TypeStopping DEF StopBegin, rmVars
<1>3. CASE StopIndex
  <2>1. target' \in Comps
    <3>1. last \in 1..len
      BY <1>0, <1>3 DEF StopIndex
    <3> QED BY <1>3, <3>1, Lengths DEF StopIndex
  <2>2. spc' \in {"send", "return", "next"}
    BY <1>3 DEF StopIndex
  <2> QED BY <1>0, <1>3, <2>1, <2>2, TypeStopping DEF StopIndex, rmVars
<1>4. CASE StopPanics
  BY <1>0, <1>4, TypeStopping DEF StopPanics, rmVars
<1>5. CASE StopSend
  <2>1. kstage' \in [Comps -> KStages] /\ spc' \in {"wait", "next"}
    BY <1>0, <1>5 DEF StopSend, AfterShutdown, KStages
  <2> QED BY <1>0, <1>5, <2>1, TypeStopping DEF StopSend, rmVars
<1>6. CASE StopAnswered
  <2>1. late' \in BOOLEAN
    BY <1>6, Zenon DEF StopAnswered
  <2> QED BY <1>0, <1>6, <2>1, TypeStopping DEF StopAnswered, rmVars
<1>7. CASE StopNext
  BY <1>0, <1>7, TypeStopping DEF StopNext, rmVars
<1>8. CASE StopReturn
  <2>1. rpc' \in [Comps -> {"none", "delete", "read", "assign"}]
        /\ \A x \in Comps : rpc'[x] = "assign" => rpc[x] = "assign"
    BY <1>0, <1>8 DEF StopReturn, Comps
  <2> QED BY <1>0, <1>8, <2>1, TypeStopping DEF StopReturn
<1>9. CASE MapFatal
  BY <1>0, <1>9, TypeStopping DEF MapFatal, rmVars
<1> QED BY <1>1, <1>2, <1>3, <1>4, <1>5, <1>6, <1>7, <1>8, <1>9 DEF StopStep

LEMMA TypeStep == TypeInv /\ [Next]_vars => TypeInv'
<1> SUFFICES ASSUME TypeInv, [Next]_vars PROVE TypeInv'
  OBVIOUS
<1>1. CASE UNCHANGED vars
  BY <1>1 DEF vars, TypeInv, TypeOK, ReadInv
<1> QED BY <1>1, TypeAdd, TypeAct, TypeClient, TypeChild, TypeStop DEF Next

\* Whoever shuts components down, whenever Add is called and whatever stale length
\* append and removeComponent use: the variables keep their types, and the slice
\* never reaches beyond the memory it was given.
THEOREM TypeCorrect == Spec => []TypeOK
<1>1. TypeInv => TypeOK
  BY DEF TypeInv
<1> QED BY <1>1, TypeInit, TypeStep, PTL DEF Spec

----------------------------------------------------------------------------
(* What runs is in the map *)

LEMMA FoundInit == Init => FoundInv
BY ContainerAssumption DEF Init, FoundInv, Comps

LEMMA FoundStep == TypeInv /\ FoundInv /\ [Next]_vars => FoundInv'
<1> SUFFICES ASSUME TypeInv, FoundInv, [Next]_vars PROVE FoundInv'
  OBVIOUS
<1>0. /\ kstage \in [Comps -> KStages] /\ rpc \in [Comps -> {"none", "delete", "read", "assign"}]
      /\ Children \subseteq Comps /\ Self \notin Children /\ Self \in Comps
      /\ act.comp \in Comps /\ target \in Comps
  BY Lengths, ContainerAssumption DEF TypeInv, TypeOK, KStages, Comps
<1>1. ASSUME NEW x \in Comps, Add(x) PROVE FoundInv'
  BY <1>1 DEF Add, FoundInv, rmVars
<1>2. ASSUME NEW x \in Comps, ActTake(x) PROVE FoundInv'
  BY <1>2 DEF ActTake, FoundInv, rmVars
<1>3. CASE ActInit
  <2>1. CASE kstage' = [kstage EXCEPT ![act.comp] = IF @ = "new" THEN "initialized" ELSE @]
             /\ act' = [act EXCEPT !.at = "map"]
    <3>1. act'.at = "map" /\ act'.comp = act.comp
      BY <2>1, ActFields
    <3>2. \A x \in Children : /\ x # act.comp => kstage'[x] = kstage[x]
                              /\ kstage[x] = "down" => kstage'[x] = "down"
      BY <1>0, <2>1
    <3> QED BY <1>3, <3>1, <3>2 DEF ActInit, FoundInv, rmVars
  <2>2. CASE kstage[act.comp] = "new" /\ kstage' = [kstage EXCEPT ![act.comp] = "aborted"]
    <3>1. \A x \in Children : IF x = act.comp THEN kstage'[x] = "aborted" /\ kstage[x] = "new"
                              ELSE kstage'[x] = kstage[x]
      BY <1>0, <2>2
    <3> QED BY <1>3, <2>2, <3>1 DEF ActInit, FoundInv, rmVars
  <2> QED BY <1>3, <2>1, <2>2 DEF ActInit
<1>4. CASE ActMap
  BY <1>4, ActFields DEF ActMap, FoundInv, rmVars
<1>5. CASE ActLock \/ ActAppend
  <2>1. act.at # "map"
    BY <1>5 DEF ActLock, ActAppend
  <2> QED BY <1>5, <2>1 DEF ActLock, ActAppend, FoundInv, rmVars
<1>6. CASE ActStart
  <2>1. \A x \in Children : kstage'[x] = kstage[x]
                            \/ (kstage[x] = "initialized" /\ kstage'[x] = "started")
    BY <1>0, <1>6 DEF ActStart
  <2> QED BY <1>6, <2>1 DEF ActStart, FoundInv, rmVars
<1>7. ASSUME NEW x \in Comps, ClientShutdown(x) PROVE FoundInv'
  <2>1. kstage[x] \in {"initialized", "started"}
        /\ \A y \in Children : y # x => kstage'[y] = kstage[y]
    BY <1>0, <1>7 DEF ClientShutdown
  <2> QED BY <1>7, <2>1 DEF ClientShutdown, FoundInv, actVars, rmVars
<1>8. ASSUME NEW x \in Comps, ChildStops(x) PROVE FoundInv'
  <2>1. kstage[x] = "stopping" /\ \A y \in Children : y # x => kstage'[y] = kstage[y] /\ rpc'[y] = rpc[y]
    BY <1>0, <1>8 DEF ChildStops
  <2>2. \/ kstage'[x] = "down"
        \/ kstage'[x] = "stuck" /\ rpc'[x] = rpc[x]
    BY <1>0, <1>8 DEF ChildStops
  <2> QED BY <1>8, <2>1, <2>2 DEF ChildStops, FoundInv, actVars
<1>9. ASSUME NEW x \in Comps, RemoveDelete(x) PROVE FoundInv'
  <2>1. \A y \in Children : rpc'[y] # "none" => rpc[y] # "none"
    BY <1>0, <1>9 DEF RemoveDelete
  <2>2. x \in Children => kstage[x] = "down"
    BY <1>9 DEF RemoveDelete, FoundInv
  <2> QED BY <1>0, <1>9, <2>1, <2>2 DEF RemoveDelete, FoundInv, actVars
<1>10. ASSUME NEW x \in Comps, RemoveRead(x) \/ RemoveAssign(x) PROVE FoundInv'
  <2>1. \A y \in Children : rpc'[y] # "none" => rpc[y] # "none"
    BY <1>0, <1>10 DEF RemoveRead, RemoveAssign
  <2> QED BY <1>10, <2>1 DEF RemoveRead, RemoveAssign, FoundInv, actVars
<1>11. CASE Shutdown
  BY <1>11 DEF Shutdown, FoundInv, actVars, rmVars
<1>12. CASE StopBegin \/ StopIndex \/ StopPanics \/ StopAnswered \/ StopNext \/ MapFatal
  BY <1>12 DEF StopBegin, StopIndex, StopPanics, StopAnswered, StopNext, MapFatal, FoundInv, actVars,
               rmVars
<1>13. CASE StopSend
  <2>1. \A y \in Children : kstage'[y] = kstage[y]
            \/ kstage[y] \in {"initialized", "started"}
    BY <1>0, <1>13 DEF StopSend
  <2> QED BY <1>13, <2>1 DEF StopSend, FoundInv, actVars, rmVars
<1>14. CASE StopReturn
  <2>1. \A y \in Children : rpc'[y] = rpc[y]
    BY <1>0, <1>14 DEF StopReturn
  <2> QED BY <1>14, <2>1 DEF StopReturn, FoundInv, actVars
<1>15. CASE UNCHANGED vars
  BY <1>15 DEF vars, FoundInv
<1> QED BY <1>1, <1>2, <1>3, <1>4, <1>5, <1>6, <1>7, <1>8, <1>9, <1>10, <1>11, <1>12, <1>13, <1>14,
           <1>15 DEF Next, ActStep, ChildStep, StopStep

\* Whatever Stop, other clients and Add do at the same time, and however
\* removeComponent goes wrong with the slice: GetComponent finds in the map every
\* component that runs and whose Add has returned.
THEOREM RunningAreFound == Spec => []RunningIsFound
<1>1. Init => GenInv
  BY TypeInit, FoundInit DEF GenInv
<1>2. GenInv /\ [Next]_vars => GenInv'
  BY TypeStep, FoundStep DEF GenInv
<1>3. GenInv => RunningIsFound
  BY DEF GenInv, FoundInv, RunningIsFound, Activating
<1> QED BY <1>1, <1>2, <1>3, PTL DEF Spec

----------------------------------------------------------------------------
(* A container that ends alone: adding *)

LEMMA Facts ==
    ASSUME Inv
    PROVE  /\ TypeInv /\ FoundInv /\ OnceInv /\ PhaseInv /\ AddInv /\ MatchInv /\ EndInv /\ StopInv
           /\ QuietInv
           /\ kstage \in [Comps -> KStages] /\ rpc \in [Comps -> {"none", "delete", "read", "assign"}]
           /\ Children \subseteq Comps /\ Self \notin Children /\ Self \in Comps
           /\ act.comp \in Comps /\ target \in Comps /\ len \in Nat /\ last \in Nat
           /\ \A x \in Comps : x \in Children \/ x = Self
BY Lengths, ContainerAssumption DEF Inv, GenInv, AloneInv, TypeInv, TypeOK, KStages, Comps

\* Before the shutdown nobody is removed.
LEMMA Early ==
    ASSUME Inv, cstage = "started"
    PROVE  \A x \in Comps : rpc[x] = "none"
BY Facts DEF PhaseInv, FoundInv, EndInv

\* Nothing is added after the shutdown.
LEMMA Adding ==
    ASSUME Inv, act.at # "wait" \/ pending # {}
    PROVE  cstage = "started" /\ spc = "none"
BY Facts DEF PhaseInv

LEMMA AloneInit == Init => AloneInv
<1> SUFFICES ASSUME Init PROVE AloneInv
  OBVIOUS
<1> USE ContainerAssumption
<1>1. len \in Nat /\ \A i \in 1..len : i = 1 /\ array[i] = Self
  <2>1. CASE Bootstrap = "first"
    <3>1. array = <<Self>> /\ len = Len(array)
      BY <2>1 DEF Init
    <3> QED BY <3>1
  <2>2. CASE Bootstrap # "first"
    <3>1. array = <<>> /\ len = Len(array)
      BY <2>2 DEF Init
    <3> QED BY <3>1
  <2> QED BY <2>1, <2>2
<1>2. Self \in cComponents <=> InSlice(Self)
  <2>1. CASE Bootstrap = "first"
    <3>1. array = <<Self>> /\ len = Len(array) /\ cComponents = {Self}
      BY <2>1 DEF Init
    <3>2. len = 1 /\ array[1] = Self
      BY <3>1
    <3> QED BY <3>1, <3>2 DEF InSlice
  <2>2. CASE Bootstrap # "first"
    <3>1. array = <<>> /\ len = Len(array) /\ cComponents = {}
      BY <2>2 DEF Init
    <3>2. len = 0
      BY <3>1
    <3> QED BY <3>1, <3>2 DEF InSlice
  <2> QED BY <2>1, <2>2
<1>3. \A x \in Children : x \notin cComponents /\ ~InSlice(x)
  BY <1>1 DEF Init, InSlice
<1>4. OnceInv
  BY <1>1 DEF OnceInv
<1>5. PhaseInv
  BY DEF Init, PhaseInv, Comps
<1>6. AddInv
  BY DEF Init, AddInv, Resting
<1>7. MatchInv
  BY <1>2, <1>3 DEF Init, MatchInv, Comps
<1>8. EndInv
  BY DEF Init, EndInv, Comps
<1>9. StopInv
  BY DEF Init, StopInv
<1>10. QuietInv
  BY Zenon DEF Init, QuietInv, Crashed, Comps
<1> QED BY <1>4, <1>5, <1>6, <1>7, <1>8, <1>9, <1>10 DEF AloneInv

LEMMA AloneAdd == ASSUME Alone, Inv, NEW x \in Comps, Add(x) PROVE AloneInv'
<1>1. cstage = "started" /\ x \notin pending /\ ~Activating(x)
  BY DEF Alone, Add
<1>2. rpc[x] = "none"
  BY <1>1, Early
<1>3. x \notin cComponents /\ (x \in Children => kstage[x] = "new")
  BY Facts DEF Add, MatchInv, PhaseInv
<1>4. ~InSlice(x)
  BY <1>1, <1>2, <1>3, Facts DEF MatchInv, Activating
<1>5. UNCHANGED <<cstage, array, len, cComponents, kstage, act, spc, last, target, panicked, late,
                  rpc, snap>> /\ pending' = pending \union {x}
  BY DEF Add, list, stopVars, rmVars
<1>6. AddInv'
  BY <1>1, <1>3, <1>4, <1>5, Facts DEF AddInv, Activating, InSlice
<1>7. PhaseInv'
  BY <1>1, <1>5, Facts DEF PhaseInv
<1> QED BY <1>5, <1>6, <1>7, Facts DEF AloneInv, OnceInv, MatchInv, EndInv, StopInv, QuietInv, InSlice,
           LastIs, Crashed

LEMMA AloneTake == ASSUME Inv, NEW x \in Comps, ActTake(x) PROVE AloneInv'
<1>1. UNCHANGED <<cstage, array, len, cComponents, kstage, spc, last, target, panicked, late,
                  rpc, snap>>
  BY DEF ActTake, list, stopVars, rmVars
<1>2. /\ x \in pending /\ pending' = pending \ {x} /\ act.at = "wait"
      /\ act'.at = "init" /\ act'.comp = x
  BY DEF ActTake
<1>3. cstage = "started"
  BY <1>2, Adding
<1>4. AddInv'
  BY <1>1, <1>2, Facts DEF AddInv, Activating, InSlice
<1>5. PhaseInv'
  BY <1>1, <1>2, <1>3, Facts DEF PhaseInv
<1>6. MatchInv'
  BY <1>1, <1>2, Facts DEF MatchInv, InSlice
<1> QED BY <1>1, <1>4, <1>5, <1>6, Facts DEF AloneInv, OnceInv, EndInv, StopInv, QuietInv, InSlice,
           LastIs, Crashed

\* A step of the activation that only changes the stage of its component, and where
\* it is itself.
LEMMA AloneActing ==
    ASSUME Inv, act.at \in {"init", "lock", "start"},
           UNCHANGED <<cstage, list, cComponents, pending, stopVars, rmVars>>,
           act'.at # "wait" => act'.comp = act.comp,
           \A y \in Comps : y # act.comp => kstage'[y] = kstage[y],
           kstage'[act.comp] \notin {"stopping", "stuck", "down"},
           act.comp = Self => kstage'[Self] = "started",
           kstage'[act.comp] \in {"new", "aborted"} => act.at = "init",
           act.at = "lock" <=> act'.at = "append",
           act'.at # "lock",
           AddInv'
    PROVE  AloneInv'
<1>0. UNCHANGED <<cstage, array, len, cComponents, pending, spc, last, target, panicked, late, rpc, snap>>
  BY DEF list, stopVars, rmVars
<1>1. cstage = "started" /\ spc = "none" /\ ~late
  BY Adding, Facts DEF PhaseInv
<1>2. \A y \in Comps : rpc[y] = "none" /\ rpc'[y] = "none"
  BY <1>0, <1>1, Early
<1>3. PhaseInv'
  <2>1. \A y \in Children : kstage'[y] \notin {"stopping", "stuck", "down"}
    BY <1>1, Facts DEF PhaseInv
  <2>2. kstage'[Self] = "started"
    BY Facts DEF PhaseInv
  <2> QED BY <1>0, <1>1, <2>1, <2>2 DEF PhaseInv
<1>4. MatchInv'
  <2>1. \A y \in Comps : ~(act.at \in {"lock", "append"} /\ act.comp = y)
                       <=> ~(act'.at \in {"lock", "append"} /\ act'.comp = y)
    OBVIOUS
  <2>2. act.at = "init" => act.comp \notin cComponents
    BY Facts DEF AddInv
  <2>3. \A y \in Children : kstage'[y] \in {"new", "aborted"} => y \notin cComponents
    BY <2>2, Facts DEF MatchInv
  <2> QED BY <1>0, <1>2, <2>1, <2>3, Facts DEF MatchInv, InSlice
<1>5. EndInv'
  BY <1>0, <1>1, <1>2, <1>3, Facts DEF EndInv, PhaseInv
<1>6. QuietInv'
  <2>1. \A y \in Children : ~(kstage'[y] = "stopping" \/ rpc'[y] # "none")
    BY <1>0, <1>1, <1>2, <1>3, Facts DEF PhaseInv
  <2>2. ~panicked /\ ~Crashed /\ spc # "test"
    BY <1>1, Facts DEF QuietInv
  <2> QED BY <1>0, <2>1, <2>2 DEF QuietInv, Crashed
<1>7. OnceInv' /\ StopInv'
  BY <1>0, <1>1, Facts DEF OnceInv, StopInv
<1> QED BY <1>3, <1>4, <1>5, <1>6, <1>7 DEF AloneInv

LEMMA AloneActInit == ASSUME Inv, ActInit PROVE AloneInv'
<1>0. act.at = "init" /\ UNCHANGED <<cstage, array, len, cComponents, pending, rpc>>
      /\ UNCHANGED <<cstage, list, cComponents, pending, stopVars, rmVars>>
  BY DEF ActInit, list, stopVars, rmVars
<1>1. cstage = "started" /\ (act.comp \in Children => kstage[act.comp] = "new")
      /\ kstage[Self] = "started" /\ kstage[act.comp] \in KStages
  BY <1>0, Adding, Facts DEF AddInv, PhaseInv
<1>2. CASE kstage' = [kstage EXCEPT ![act.comp] = IF @ = "new" THEN "initialized" ELSE @]
           /\ act' = [act EXCEPT !.at = "map"]
  <2>1. act'.at = "map" /\ act'.comp = act.comp
    BY <1>2, ActFields, Facts
  <2>2. \A y \in Comps : y # act.comp => kstage'[y] = kstage[y]
    BY <1>2, Facts
  <2>3. kstage'[act.comp] = IF kstage[act.comp] = "new" THEN "initialized" ELSE kstage[act.comp]
    BY <1>2, Facts
  <2>4. /\ act.comp \in Children => kstage'[act.comp] = "initialized"
        /\ act.comp = Self => kstage'[Self] = "started"
    BY <1>1, <2>3
  <2>5. AddInv'
    BY <1>0, <2>1, <2>2, <2>4, Facts DEF AddInv, Activating, InSlice
  <2>6. kstage'[act.comp] \in {"initialized", "started"}
    BY <2>4, Facts
  <2> QED BY <1>0, <2>1, <2>2, <2>4, <2>5, <2>6, AloneActing
<1>3. CASE kstage[act.comp] = "new" /\ kstage' = [kstage EXCEPT ![act.comp] = "aborted"]
           /\ act' = Resting
  <2>1. act'.at = "wait"
    BY <1>3 DEF Resting
  <2>2. \A y \in Comps : y # act.comp => kstage'[y] = kstage[y]
    BY <1>3, Facts
  <2>3. kstage'[act.comp] = "aborted" /\ act.comp # Self
    BY <1>1, <1>3, Facts
  <2>4. AddInv'
    BY <1>0, <2>1, <2>2, Facts DEF AddInv, Activating, InSlice
  <2> QED BY <1>0, <2>1, <2>2, <2>3, <2>4, AloneActing
<1> QED BY <1>2, <1>3 DEF ActInit

LEMMA AloneLock == ASSUME Inv, ActLock PROVE AloneInv'
<1>0. act.at = "lock" /\ UNCHANGED <<cstage, array, len, cComponents, pending, kstage, rpc>>
      /\ UNCHANGED <<cstage, list, cComponents, pending, stopVars, rmVars>>
  BY DEF ActLock, list, stopVars, rmVars
<1>1. act'.at = "append" /\ act'.comp = act.comp /\ act'.n = len
  BY ActFields, Facts DEF ActLock
<1>2. AddInv'
  BY <1>0, <1>1, Facts DEF AddInv, Activating, InSlice
<1>3. kstage[act.comp] \in {"initialized", "started"}
  BY <1>0, Facts DEF AddInv, PhaseInv
<1>4. act.comp = Self => kstage'[Self] = "started"
  BY <1>0, Facts DEF PhaseInv
<1> QED BY <1>0, <1>1, <1>2, <1>3, <1>4, AloneActing

LEMMA AloneActStart == ASSUME Inv, ActStart PROVE AloneInv'
<1>0. act.at = "start" /\ act'.at = "wait" /\ UNCHANGED <<cstage, array, len, cComponents, pending, rpc>>
      /\ UNCHANGED <<cstage, list, cComponents, pending, stopVars, rmVars>>
  BY DEF ActStart, list, stopVars, rmVars, Resting
<1>1. kstage[act.comp] \in {"initialized", "started"} /\ kstage[Self] = "started"
  BY <1>0, Facts DEF AddInv, PhaseInv
<1>2. kstage'[act.comp] = "started" /\ \A y \in Comps : y # act.comp => kstage'[y] = kstage[y]
  BY <1>1, Facts DEF ActStart
<1>3. AddInv'
  BY <1>0, <1>2, Facts DEF AddInv, Activating, InSlice
<1> QED BY <1>0, <1>2, <1>3, AloneActing

LEMMA AloneMap == ASSUME Inv, ActMap PROVE AloneInv'
<1>0. act.at = "map" /\ cComponents' = cComponents \union {act.comp}
      /\ UNCHANGED <<cstage, array, len, kstage, pending, spc, last, target, panicked, late, rpc, snap>>
  BY DEF ActMap, list, stopVars, rmVars
<1>1. act'.at = "lock" /\ act'.comp = act.comp
  BY ActFields, Facts DEF ActMap
<1>2. cstage = "started" /\ \A y \in Comps : rpc[y] = "none"
  BY <1>0, Adding, Early
<1>3. AddInv'
  BY <1>0, <1>1, Facts DEF AddInv, Activating, InSlice
<1>4. MatchInv'
  <2>1. act.comp \in Children => kstage[act.comp] \in {"initialized", "started"}
    BY <1>0, Facts DEF AddInv
  <2> QED BY <1>0, <1>1, <1>2, <2>1, Facts DEF MatchInv, InSlice
<1>5. PhaseInv'
  BY <1>0, <1>1, <1>2, Facts DEF PhaseInv
<1> QED BY <1>0, <1>3, <1>4, <1>5, Facts DEF AloneInv, OnceInv, EndInv, StopInv, QuietInv, InSlice,
           LastIs, Crashed

LEMMA AloneAppend == ASSUME Inv, ActAppend PROVE AloneInv'
<1> DEFINE x == act.comp
<1>0. act.at = "append"
      /\ UNCHANGED <<cstage, cComponents, kstage, pending, spc, last, target, panicked, late, rpc, snap>>
  BY DEF ActAppend, stopVars, rmVars
<1>1. act'.at = "start" /\ act'.comp = x
  BY ActFields, Facts DEF ActAppend
<1>2. cstage = "started" /\ spc = "none" /\ \A y \in Comps : rpc[y] = "none"
  BY <1>0, Adding, Early
<1>3. act.n = len /\ x \in cComponents /\ ~InSlice(x) /\ x \in Comps /\ len \in Nat
  BY <1>0, Facts DEF AddInv
<1>4. len' = len + 1 /\ array'[len + 1] = x /\ \A i \in 1..len : array'[i] = array[i]
  <2>1. /\ array \in Seq(Comps) /\ len <= Len(array)
        /\ array' = IF len < Len(array) THEN [array EXCEPT ![len + 1] = x] ELSE Append(array, x)
    BY <1>3, Facts, Lengths DEF ActAppend
  <2>2. len' = len + 1
    BY <1>3 DEF ActAppend
  <2> HIDE DEF x
  <2> QED BY <1>3, <2>1, <2>2, Appended
<1>5. \A i \in 1..len' : i \in 1..len \/ i = len + 1
  BY <1>3, <1>4
<1>6. \A y : InSlice(y)' <=> InSlice(y) \/ y = x
  <2>1. \A y : InSlice(y)' <=> \E i \in 1..len' : array'[i] = y
    BY DEF InSlice
  <2>2. \A i \in 1..len : i \in 1..len'
    BY <1>3, <1>4
  <2>3. len + 1 \in 1..len'
    BY <1>3, <1>4
  <2> HIDE DEF x
  <2> QED BY <1>4, <1>5, <2>1, <2>2, <2>3 DEF InSlice
<1>7. OnceInv'
  <2> SUFFICES ASSUME NEW i \in 1..len', NEW j \in 1..len', array'[i] = array'[j] PROVE i = j
    BY DEF OnceInv
  <2>1. \A k \in 1..len : array[k] # x
    BY <1>3 DEF InSlice
  <2> HIDE DEF x
  <2> QED BY <1>4, <1>5, <2>1, Facts DEF OnceInv
<1>8. AddInv'
  BY <1>0, <1>1, <1>3, <1>6, Facts DEF AddInv, Activating
<1>9. MatchInv'
  BY <1>0, <1>1, <1>3, <1>6, Facts DEF MatchInv
<1>10. PhaseInv'
  BY <1>0, <1>1, <1>2, Facts DEF PhaseInv
<1>11. EndInv'
  BY <1>0, <1>2, Facts DEF EndInv, PhaseInv
<1>12. StopInv' /\ QuietInv'
  BY <1>0, <1>2, Facts DEF StopInv, QuietInv, Crashed
<1> QED BY <1>7, <1>8, <1>9, <1>10, <1>11, <1>12 DEF AloneInv

----------------------------------------------------------------------------
(* A container that ends alone: removing *)

\* After the shutdown began, nothing is being added.
LEMMA Later ==
    ASSUME Inv, cstage # "started"
    PROVE  pending = {} /\ act.at = "wait"
BY Facts DEF PhaseInv

\* Whoever is being removed is alone in that.
LEMMA Removing ==
    ASSUME Inv, NEW x \in Comps, rpc[x] # "none"
    PROVE  cstage # "started" /\ (x \in Children => LastIs(x) /\ kstage[x] = "down")
<1>1. cstage # "started"
  BY Early
<1> QED BY <1>1, Facts DEF EndInv, FoundInv

LEMMA AloneChildStops == ASSUME Inv, NEW x \in Comps, ChildStops(x) PROVE AloneInv'
<1>0. x \in Children /\ kstage[x] = "stopping"
      /\ UNCHANGED <<cstage, array, len, cComponents, pending, act, spc, last, target, panicked, late,
                     snap>>
  BY Facts DEF ChildStops, list, actVars, stopVars
<1>1. \A y \in Comps : y # x => kstage'[y] = kstage[y] /\ rpc'[y] = rpc[y]
  BY Facts DEF ChildStops
<1>2. rpc[x] = "none" /\ cstage # "started" /\ LastIs(x)
  BY <1>0, Facts DEF FoundInv, PhaseInv, EndInv
<1>3. \/ kstage'[x] = "down" /\ rpc'[x] = "delete"
      \/ kstage'[x] = "stuck" /\ rpc'[x] = "none"
  BY <1>2, Facts DEF ChildStops
<1>4. AddInv'
  BY <1>0, <1>2, Later DEF AddInv
<1>5. PhaseInv'
  BY <1>0, <1>1, <1>2, Facts DEF PhaseInv
<1>6. MatchInv'
  BY <1>0, <1>1, <1>2, <1>3, Facts DEF MatchInv, InSlice
<1>7. EndInv'
  BY <1>0, <1>1, <1>2, <1>3, Facts DEF EndInv, LastIs
<1>8. QuietInv'
  BY <1>0, <1>1, <1>3, Facts DEF QuietInv, Crashed
<1> QED BY <1>0, <1>4, <1>5, <1>6, <1>7, <1>8, Facts DEF AloneInv, OnceInv, StopInv, InSlice, LastIs

LEMMA AloneDelete == ASSUME Inv, NEW x \in Comps, RemoveDelete(x) PROVE AloneInv'
<1>0. rpc[x] = "delete" /\ cComponents' = cComponents \ {x}
      /\ UNCHANGED <<cstage, array, len, kstage, pending, act, spc, last, target, panicked, late, snap>>
  BY DEF RemoveDelete, list, actVars, stopVars
<1>1. rpc'[x] = "read" /\ \A y \in Comps : y # x => rpc'[y] = rpc[y]
  BY Facts DEF RemoveDelete
<1>2. cstage # "started"
  BY <1>0, Removing
<1>3. AddInv'
  BY <1>0, <1>2, Later DEF AddInv
<1>4. MatchInv'
  BY <1>0, <1>1, Facts DEF MatchInv, InSlice
<1>5. EndInv'
  BY <1>0, <1>1, Facts DEF EndInv, LastIs
<1>6. QuietInv'
  BY <1>0, <1>1, Facts DEF QuietInv, Crashed
<1> QED BY <1>0, <1>3, <1>4, <1>5, <1>6, Facts DEF AloneInv, OnceInv, PhaseInv, StopInv, InSlice, LastIs

LEMMA AloneRead == ASSUME Inv, NEW x \in Comps, RemoveRead(x) PROVE AloneInv'
<1> DEFINE F == {i \in 1..len : array[i] = x}
<1>0. rpc[x] = "read"
      /\ UNCHANGED <<cstage, array, len, cComponents, kstage, pending, act, spc, last, target, panicked,
                     late>>
  BY DEF RemoveRead, list, actVars, stopVars
<1>1. cstage # "started"
  BY <1>0, Removing
<1>2. AddInv'
  BY <1>0, <1>1, Later DEF AddInv
<1>3. OnceInv' /\ PhaseInv' /\ StopInv'
  BY <1>0, Facts DEF OnceInv, PhaseInv, StopInv, InSlice, LastIs
<1>4. CASE F # {} /\ snap' = [snap EXCEPT ![x] = [idx |-> Max(F), n |-> len]]
           /\ rpc' = [rpc EXCEPT ![x] = "assign"]
  <2>1. Max(F) \in 1..len /\ array[Max(F)] = x
    BY <1>4, Found, Facts
  <2> HIDE DEF F
  <2>2. Max(F) = len /\ LastIs(x)
    <3>1. CASE x \in Children
      <4>1. LastIs(x)
        BY <1>0, <3>1, Removing
      <4>2. len \in 1..len
        BY <4>1, Facts DEF LastIs
      <4> QED BY <2>1, <4>1, <4>2, Facts DEF OnceInv, LastIs
    <3>2. CASE x = Self
      <4>1. cstage = "down"
        BY <1>0, <3>2, Facts DEF EndInv
      <4>2. len = 1 /\ array[1] = Self
        BY <2>1, <4>1, Facts DEF EndInv
      <4> QED BY <2>1, <3>2, <4>2 DEF LastIs
    <3> QED BY <3>1, <3>2, Facts
  <2>3. rpc'[x] = "assign" /\ snap'[x] = [idx |-> len, n |-> len]
        /\ \A y \in Comps : y # x => rpc'[y] = rpc[y] /\ snap'[y] = snap[y]
    BY <1>4, <2>2, Facts DEF TypeInv, TypeOK
  <2>4. MatchInv'
    BY <1>0, <2>3, Facts DEF MatchInv, InSlice
  <2>5. EndInv'
    BY <1>0, <2>2, <2>3, Facts DEF EndInv, LastIs
  <2>6. QuietInv'
    BY <1>0, <2>3, Facts DEF QuietInv, Crashed
  <2> QED BY <1>2, <1>3, <2>4, <2>5, <2>6 DEF AloneInv
<1>5. CASE F = {} /\ rpc' = [rpc EXCEPT ![x] = "none"] /\ UNCHANGED snap
  <2>1. ~InSlice(x) /\ x \notin cComponents
    BY <1>0, <1>5, Facts DEF InSlice, MatchInv
  <2>2. rpc'[x] = "none" /\ \A y \in Comps : y # x => rpc'[y] = rpc[y]
    BY <1>5, Facts
  <2>3. x = Self
    <3>1. ~LastIs(x)
      BY <2>1, Facts DEF LastIs, InSlice
    <3> QED BY <1>0, <3>1, Removing, Facts
  <2>4. MatchInv'
    BY <1>0, <2>1, <2>2, Facts DEF MatchInv, InSlice
  <2>5. EndInv'
    BY <1>0, <1>5, <2>2, <2>3, Facts DEF EndInv, LastIs
  <2>6. QuietInv'
    BY <1>0, <2>2, <2>3, Facts DEF QuietInv, Crashed
  <2> QED BY <1>2, <1>3, <2>4, <2>5, <2>6 DEF AloneInv
<1> QED BY <1>4, <1>5 DEF RemoveRead

LEMMA AloneAssign == ASSUME Inv, NEW x \in Comps, RemoveAssign(x) PROVE AloneInv'
<1>0. rpc[x] = "assign"
      /\ UNCHANGED <<cstage, cComponents, kstage, pending, act, spc, last, target, panicked, late>>
  BY DEF RemoveAssign, actVars, stopVars
<1>1. cstage # "started"
  BY <1>0, Removing
<1>2. LastIs(x) /\ snap[x].idx = len /\ snap[x].n = len /\ len \in Nat /\ len # 0
  BY <1>0, Facts DEF EndInv, LastIs
<1>3. rpc'[x] = "none" /\ \A y \in Comps : y # x => rpc'[y] = rpc[y]
  BY Facts DEF RemoveAssign
<1>4. len' = len - 1 /\ \A i \in 1..(len - 1) : array'[i] = array[i]
  <2>1. ~(len > len)
    BY <1>2
  <2>2. /\ len <= len /\ len' = len - 1
        /\ array' = [i \in DOMAIN array |-> IF i \in len..(len - 1) THEN array[i + 1] ELSE array[i]]
    BY <1>2, <2>1 DEF RemoveAssign
  <2>3. len >= 1 /\ len <= Len(array) /\ array \in Seq(Comps)
    BY <1>2, Facts, Lengths
  <2> QED BY <1>2, <2>2, <2>3, Moved
<1>5. \A i \in 1..len' : i \in 1..len /\ i \in 1..(len - 1) /\ i # len
  BY <1>2, <1>4
<1>6. \A i \in 1..len : i \in 1..len' \/ i = len
  BY <1>2, <1>4
<1>7. array[len] = x /\ len \in 1..len
  BY <1>2 DEF LastIs
<1>8. \A y : InSlice(y)' <=> InSlice(y) /\ y # x
  <2>1. \A y : InSlice(y)' <=> \E i \in 1..len' : array'[i] = y
    BY DEF InSlice
  <2>2. \A i \in 1..len' : array'[i] = array[i] /\ array[i] # x
    BY <1>4, <1>5, <1>7, Facts DEF OnceInv
  <2> QED BY <1>5, <1>6, <1>7, <2>1, <2>2 DEF InSlice
<1>9. \A y \in Comps : LastIs(y) => y = x
  BY <1>7 DEF LastIs
<1>10. OnceInv'
  <2>1. \A i, j \in 1..len' : array'[i] = array'[j] => i = j
    BY <1>4, <1>5, Facts DEF OnceInv
  <2> QED BY <2>1 DEF OnceInv
<1>11. AddInv'
  BY <1>0, <1>1, Later DEF AddInv
<1>12. PhaseInv'
  BY <1>0, Facts DEF PhaseInv
<1>13. MatchInv'
  BY <1>0, <1>3, <1>8, Facts DEF MatchInv
<1>14. EndInv'
  <2>1. ASSUME NEW y \in Children PROVE ~(kstage'[y] \in {"stopping", "stuck"} \/ rpc'[y] # "none")
    BY <1>0, <1>3, <1>9, Removing, Facts DEF EndInv
  <2>2. \A y \in Comps : rpc'[y] # "assign"
    BY <1>3, <1>9, Facts DEF EndInv
  <2>3. cstage = "down" => len' = 0
    BY <1>2, <1>4, Facts DEF EndInv
  <2>4. rpc'[Self] # "none" => cstage = "down"
    BY <1>3, Facts DEF EndInv
  <2> QED BY <1>0, <2>1, <2>2, <2>3, <2>4, Facts DEF EndInv
<1>15. StopInv'
  <2>1. spc # "return"
    BY <1>0, <1>7, Facts, Removing DEF StopInv, EndInv
  <2>2. spc = "test" => last >= len'
    BY <1>2, <1>4, Facts DEF StopInv
  <2>3. spc \in {"send", "wait"} => ~InSlice(target)'
    <3>1. spc \in {"send", "wait"} => ~(InSlice(target) /\ target # x)
      BY <1>9, Facts DEF StopInv
    <3>2. InSlice(target)' <=> \E i \in 1..len' : array'[i] = target
      BY <1>0 DEF InSlice
    <3>3. (\E i \in 1..len' : array'[i] = target) => InSlice(target) /\ target # x
      BY <1>4, <1>5, <1>7, Facts DEF InSlice, OnceInv
    <3> QED BY <3>1, <3>2, <3>3
  <2> QED BY <1>0, <2>1, <2>2, <2>3, Facts DEF StopInv
<1>16. QuietInv'
  <2>1. ~late => spc # "test"
    <3>1. CASE x \in Children
      BY <1>0, <3>1, Facts DEF QuietInv
    <3>2. CASE x = Self
      BY <1>0, <3>2, Facts DEF EndInv
    <3> QED BY <3>1, <3>2, Facts
  <2> QED BY <1>0, <1>3, <2>1, Facts DEF QuietInv, Crashed
<1> QED BY <1>10, <1>11, <1>12, <1>13, <1>14, <1>15, <1>16 DEF AloneInv

----------------------------------------------------------------------------
(* A container that ends alone: Stop *)

\* Steps that change nothing but where Stop and the container are.
LEMMA AloneStopping ==
    ASSUME Inv, UNCHANGED <<list, cComponents, kstage, actVars, rmVars>>,
           PhaseInv', QuietInv', StopInv',
           rpc[Self] = "none" \/ (cstage' = "down" /\ cstage = "down"),
           cstage' = "down" => cstage = "down" /\ spc' \in {"none", "crashed"}
    PROVE  AloneInv'
<1>0. UNCHANGED <<array, len, cComponents, kstage, pending, act, rpc, snap>>
  BY DEF list, actVars, rmVars
<1>1. OnceInv' /\ AddInv' /\ MatchInv'
  BY <1>0, Facts DEF OnceInv, AddInv, MatchInv, InSlice, Activating
<1>2. EndInv'
  BY <1>0, Facts DEF EndInv, LastIs
<1> QED BY <1>1, <1>2 DEF AloneInv

LEMMA AloneShutdown == ASSUME Alone, Inv, Shutdown PROVE AloneInv'
<1>0. cstage = "started" /\ cstage' = "stopping" /\ pending = {} /\ act = Resting
      /\ UNCHANGED <<list, cComponents, kstage, actVars, rmVars>>
      /\ UNCHANGED <<kstage, pending, act, spc, last, target, panicked, late, rpc, array, len>>
  BY DEF Alone, Shutdown, list, actVars, stopVars, rmVars
<1>1. spc = "none" /\ rpc[Self] = "none"
  BY <1>0, Early, Facts DEF PhaseInv
<1>2. PhaseInv'
  BY <1>0, <1>1, Facts DEF PhaseInv, Resting
<1>3. QuietInv' /\ StopInv'
  BY <1>0, Facts DEF QuietInv, StopInv, Crashed, InSlice, LastIs
<1> QED BY <1>0, <1>1, <1>2, <1>3, AloneStopping

LEMMA AloneBegin == ASSUME Inv, StopBegin PROVE AloneInv'
<1>0. cstage = "stopping" /\ cstage' = "halting" /\ spc' = "test" /\ last' = len
      /\ UNCHANGED <<list, cComponents, kstage, actVars, rmVars>>
      /\ UNCHANGED <<kstage, pending, act, panicked, late, rpc, array, len>>
  BY DEF StopBegin, list, actVars, rmVars
<1>1. rpc[Self] = "none" /\ spc \in {"none", "crashed"}
  BY <1>0, Facts DEF EndInv, PhaseInv
<1>2. PhaseInv'
  BY <1>0, Facts DEF PhaseInv
<1>3. last' >= len' /\ last' <= len'
  BY <1>0, Facts
<1>4. StopInv'
  BY <1>0, <1>3 DEF StopInv
<1>5. QuietInv'
  BY <1>0, <1>1, <1>3, Facts DEF QuietInv, Crashed
<1> QED BY <1>0, <1>1, <1>2, <1>4, <1>5, AloneStopping

\* While Stop is at work the container itself is not removed.
LEMMA Halting ==
    ASSUME Inv, spc \notin {"none", "crashed"}
    PROVE  cstage = "halting" /\ rpc[Self] = "none"
BY Facts DEF PhaseInv, EndInv

LEMMA AloneIndex == ASSUME Inv, StopIndex PROVE AloneInv'
<1>0. spc = "test" /\ last > 0 /\ last <= len /\ target' = array[last]
      /\ UNCHANGED <<list, cComponents, kstage, actVars, rmVars>>
      /\ UNCHANGED <<cstage, kstage, pending, act, last, panicked, late, rpc, array, len>>
  BY DEF StopIndex, list, actVars, rmVars
<1>1. last = len /\ len # 0
  BY <1>0, Facts DEF StopInv
<1>2. \/ spc' = "send" /\ target' # Self
      \/ spc' = "return" /\ target' = Self /\ last = 1
      \/ spc' = "next"
  BY DEF StopIndex
<1>3. StopInv'
  BY <1>0, <1>1, <1>2 DEF StopInv, LastIs
<1>4. PhaseInv'
  BY <1>0, <1>2, Halting, Facts DEF PhaseInv
<1>5. QuietInv'
  BY <1>0, <1>2, Facts DEF QuietInv, Crashed
<1> QED BY <1>0, <1>3, <1>4, <1>5, Halting, AloneStopping

LEMMA AlonePanics == ASSUME Inv, StopPanics PROVE AloneInv'
<1>0. spc = "test" /\ last > len /\ spc' \in {"none", "crashed"} /\ cstage' = "stopping"
      /\ UNCHANGED <<list, cComponents, kstage, actVars, rmVars>>
      /\ UNCHANGED <<kstage, pending, act, late, rpc, array, len>>
  BY DEF StopPanics, list, actVars, rmVars
<1>1. late
  <2>1. ~(last <= len)
    BY <1>0, Facts
  <2> QED BY <1>0, <2>1, Facts DEF QuietInv
<1>2. cstage = "halting"
  BY <1>0, Halting
<1>3. PhaseInv'
  BY <1>0, <1>2, Facts DEF PhaseInv
<1>4. StopInv' /\ QuietInv'
  BY <1>0, <1>1 DEF StopInv, QuietInv
<1> QED BY <1>0, <1>3, <1>4, Halting, AloneStopping

LEMMA AloneSend == ASSUME Inv, StopSend PROVE AloneInv'
<1>0. spc = "send" /\ target # Self /\ target \in Children
      /\ UNCHANGED <<array, len, cComponents, pending, act, rpc, snap, cstage, last, target, panicked, late>>
  BY Facts DEF StopSend, StopInv, list, actVars, rmVars
<1>1. cstage = "halting" /\ act.at = "wait" /\ pending = {}
  BY <1>0, Halting, Later
<1>2. CASE kstage[target] \in {"initialized", "started"} /\ spc' = "wait"
           /\ kstage' = [kstage EXCEPT ![target] = AfterShutdown(@)]
  <2>1. kstage'[target] \in {"started", "stopping"} /\ \A y \in Comps : y # target => kstage'[y] = kstage[y]
    BY <1>2, Facts DEF AfterShutdown
  <2>2. rpc[target] = "none"
    BY <1>0, <1>2, Facts DEF FoundInv
  <2>3. target \in cComponents
    BY <1>0, <1>1, <1>2, Facts DEF FoundInv
  <2>4. LastIs(target)
    BY <1>0, <1>1, <2>2, <2>3, Facts DEF MatchInv, StopInv
  <2>5. PhaseInv'
    BY <1>0, <1>1, <2>1, Facts DEF PhaseInv
  <2>6. AddInv'
    BY <1>0, <1>1 DEF AddInv
  <2>7. MatchInv'
    BY <1>0, <2>1, Facts DEF MatchInv, InSlice
  <2>8. EndInv'
    BY <1>0, <1>1, <2>1, <2>4, Facts DEF EndInv, LastIs
  <2>9. StopInv' /\ OnceInv'
    BY <1>0, <1>2, <2>4, Facts DEF StopInv, OnceInv, LastIs
  <2>10. QuietInv'
    <3>1. ~late => \A y \in Children : ~(kstage[y] = "stopping" \/ rpc[y] # "none")
      BY <1>0, Facts DEF QuietInv
    <3>2. ~late => \A y \in Children : kstage'[y] = "stopping" \/ rpc'[y] # "none" => y = target
      BY <1>0, <2>1, <3>1, Facts
    <3> QED BY <1>0, <1>2, <3>2, Facts DEF QuietInv, Crashed
  <2> QED BY <2>5, <2>6, <2>7, <2>8, <2>9, <2>10 DEF AloneInv
<1>3. CASE spc' = "next" /\ UNCHANGED kstage
  <2>1. PhaseInv' /\ StopInv'
    BY <1>0, <1>1, <1>3, Facts DEF PhaseInv, StopInv
  <2>2. QuietInv'
    BY <1>0, <1>3, Facts DEF QuietInv, Crashed
  <2> QED BY <1>0, <1>1, <1>3, <2>1, <2>2, Halting, AloneStopping DEF list, actVars, rmVars
<1> QED BY <1>2, <1>3 DEF StopSend

LEMMA AloneAnswered == ASSUME Inv, StopAnswered PROVE AloneInv'
<1> DEFINE answered == kstage[target] # "stopping" /\ rpc[target] = "none"
<1>0. spc = "wait" /\ spc' = "next"
      /\ UNCHANGED <<list, cComponents, kstage, actVars, rmVars>>
      /\ UNCHANGED <<cstage, kstage, pending, act, last, target, panicked, rpc, array, len>>
  BY DEF StopAnswered, list, actVars, rmVars
<1>1. ~late' => ~late /\ answered
  BY Zenon DEF StopAnswered
<1>2. cstage = "halting"
  BY <1>0, Halting
<1>3. PhaseInv' /\ StopInv'
  BY <1>0, <1>2, Facts DEF PhaseInv, StopInv
<1>4. QuietInv'
  <2>1. ~late' => \A y \in Children : ~(kstage[y] = "stopping" \/ rpc[y] # "none")
    BY <1>1, Facts DEF QuietInv
  <2>2. ~late' => ~panicked
    BY <1>1, Facts DEF QuietInv
  <2> QED BY <1>0, <2>1, <2>2 DEF QuietInv, Crashed
<1> QED BY <1>0, <1>2, <1>3, <1>4, Halting, AloneStopping

LEMMA AloneNext == ASSUME Inv, StopNext PROVE AloneInv'
<1>0. spc = "next" /\ spc' = "test" /\ last' = len
      /\ UNCHANGED <<list, cComponents, kstage, actVars, rmVars>>
      /\ UNCHANGED <<cstage, kstage, pending, act, panicked, late, rpc, array, len>>
  BY DEF StopNext, list, actVars, rmVars
<1>1. cstage = "halting" /\ last' >= len' /\ last' <= len'
  BY <1>0, Halting, Facts
<1>2. PhaseInv' /\ StopInv'
  BY <1>0, <1>1, Facts DEF PhaseInv, StopInv
<1>3. QuietInv'
  BY <1>0, <1>1, Facts DEF QuietInv, Crashed
<1> QED BY <1>0, <1>1, <1>2, <1>3, Halting, AloneStopping

LEMMA AloneReturn == ASSUME Inv, StopReturn PROVE AloneInv'
<1>0. spc \in {"return", "test"} /\ spc' = "none" /\ cstage' = "down"
      /\ UNCHANGED <<array, len, cComponents, kstage, pending, act, snap, panicked, late>>
  BY DEF StopReturn, list, actVars
<1>1. len = 0 \/ (len = 1 /\ array[1] = Self)
  BY Facts DEF StopReturn, StopInv
<1>2. cstage = "halting" /\ rpc[Self] = "none" /\ act.at = "wait" /\ pending = {}
  BY <1>0, Halting, Later
<1>3. rpc'[Self] \in {"none", "delete"} /\ \A y \in Comps : y # Self => rpc'[y] = rpc[y]
  BY <1>2, Facts DEF StopReturn
<1>4. \A y \in Children : ~LastIs(y)
  BY <1>1, Facts DEF LastIs
<1>5. \A y \in Children : kstage[y] \notin {"stopping", "stuck"} /\ rpc[y] = "none" /\ rpc'[y] = "none"
  BY <1>3, <1>4, Facts DEF EndInv
<1>6. OnceInv' /\ AddInv'
  BY <1>0, <1>2, Facts DEF OnceInv, AddInv
<1>7. PhaseInv' /\ StopInv'
  BY <1>0, <1>2, Facts DEF PhaseInv, StopInv
<1>8. MatchInv'
  BY <1>0, <1>2, <1>3, Facts DEF MatchInv, InSlice
<1>9. EndInv'
  BY <1>0, <1>1, <1>3, <1>5, Facts DEF EndInv
<1>10. QuietInv'
  BY <1>0, <1>5, Facts DEF QuietInv, Crashed
<1> QED BY <1>6, <1>7, <1>8, <1>9, <1>10 DEF AloneInv

\* Two goroutines meet at the map only after a Shutdown has timed out.
LEMMA Meeting == ASSUME Inv, MapFatal PROVE late
<1> SUFFICES ASSUME ~late PROVE FALSE
  OBVIOUS
<1> DEFINE D == {x \in Comps : rpc[x] = "delete"}
<1>1. \A n \in Nat : n = 1 => ~(n + 0 > 1)
  OBVIOUS
<1>2. \A z : Cardinality({z}) = 1
  BY FS_Singleton
<1>3. Cardinality({}) = 0
  BY FS_EmptySet
<1>4. MapWriters # {} /\ Cardinality(MapWriters) + Cardinality(MapReaders) > 1
  BY DEF MapFatal
<1>5. CASE act.at = "map"
  <2>1. spc = "none" /\ \A x \in Comps : rpc[x] = "none"
    BY <1>5, Adding, Early
  <2>2. MapWriters = {"act"} /\ MapReaders = {}
    BY <1>5, <2>1 DEF MapWriters, MapReaders
  <2> QED BY <1>1, <1>2, <1>3, <1>4, <2>2
<1>6. CASE act.at # "map"
  <2>1. PICK x \in Comps : rpc[x] = "delete"
    BY <1>4, <1>6 DEF MapWriters
  <2>2. CASE x \in Children
    <3>1. spc = "wait" /\ \A y \in Children : rpc[y] # "none" => y = x
      BY <2>1, <2>2, Facts DEF QuietInv
    <3>2. rpc[Self] = "none"
      BY <3>1, Halting
    <3>3. MapWriters = {x} /\ MapReaders = {}
      BY <1>6, <2>1, <3>1, <3>2, Facts DEF MapWriters, MapReaders
    <3> QED BY <1>1, <1>2, <1>3, <1>4, <3>3
  <2>3. CASE x = Self
    <3>1. spc \in {"none", "crashed"}
      BY <2>1, <2>3, Facts DEF EndInv
    <3>2. \A y \in Children : rpc[y] = "none"
      BY <3>1, Facts DEF QuietInv
    <3>3. MapWriters = {x} /\ MapReaders = {}
      BY <1>6, <2>1, <2>3, <3>1, <3>2, Facts DEF MapWriters, MapReaders
    <3> QED BY <1>1, <1>2, <1>3, <1>4, <3>3
  <2> QED BY <2>2, <2>3, Facts
<1> QED BY <1>5, <1>6

LEMMA AloneFatal == ASSUME Inv, MapFatal PROVE AloneInv'
<1>0. spc' = "crashed"
      /\ UNCHANGED <<array, len, cComponents, kstage, pending, act, rpc, snap, cstage, late>>
  BY DEF MapFatal, list, actVars, rmVars
<1>1. late
  BY Meeting
<1>2. PhaseInv' /\ StopInv' /\ QuietInv'
  BY <1>0, <1>1, Facts DEF PhaseInv, StopInv, QuietInv
<1>3. OnceInv' /\ AddInv' /\ MatchInv'
  BY <1>0, Facts DEF OnceInv, AddInv, MatchInv, InSlice, Activating
<1>4. EndInv'
  BY <1>0, Facts DEF EndInv, LastIs
<1> QED BY <1>2, <1>3, <1>4 DEF AloneInv

LEMMA AloneStep == Alone => (Inv /\ [Next]_vars => Inv')
<1> SUFFICES ASSUME Alone, Inv, [Next]_vars PROVE AloneInv'
  BY TypeStep, FoundStep DEF Inv, GenInv
<1>1. ASSUME NEW x \in Comps, ClientShutdown(x) PROVE AloneInv'
  BY <1>1 DEF Alone, ClientShutdown
<1>2. CASE ActStep
  BY <1>2, AloneTake, AloneActInit, AloneMap, AloneLock, AloneAppend, AloneActStart DEF ActStep
<1>3. ASSUME NEW x \in Comps, ChildStep(x) PROVE AloneInv'
  BY <1>3, AloneChildStops, AloneDelete, AloneRead, AloneAssign DEF ChildStep
<1>4. CASE StopStep
  BY <1>4, AloneBegin, AloneIndex, AlonePanics, AloneSend, AloneAnswered, AloneNext, AloneReturn
     DEF StopStep
<1>5. CASE UNCHANGED vars
  <2>1. OnceInv' /\ PhaseInv' /\ AddInv' /\ MatchInv'
    BY <1>5, Facts DEF vars, OnceInv, PhaseInv, AddInv, MatchInv, InSlice, Activating
  <2>2. EndInv' /\ StopInv' /\ QuietInv'
    BY <1>5, Facts DEF vars, EndInv, StopInv, QuietInv, InSlice, LastIs, Crashed
  <2> QED BY <2>1, <2>2 DEF AloneInv
<1> QED BY <1>1, <1>2, <1>3, <1>4, <1>5, AloneAdd, AloneShutdown, AloneFatal DEF Next

LEMMA AloneSafe == Alone => (Spec => []Inv)
<1> SUFFICES ASSUME Alone PROVE Spec => []Inv
  OBVIOUS
<1>1. Init => Inv
  BY TypeInit, FoundInit, AloneInit DEF Inv, GenInv
<1>2. Inv /\ [Next]_vars => Inv'
  BY AloneStep
<1> QED BY <1>1, <1>2, PTL DEF Spec

----------------------------------------------------------------------------
(* The theorems about a container that ends alone *)

\* While Stop waits for a component, none that was added later is left in the
\* slice, also when a Shutdown timed out and is repeated, or a Stop() fails.
THEOREM StopIsLifo == Alone => (Spec => []LifoStop)
<1> SUFFICES ASSUME Alone PROVE Spec => []LifoStop
  OBVIOUS
<1>1. Inv => LifoStop
  <2> SUFFICES ASSUME Inv, spc = "wait", NEW i \in 1..len, NEW j \in 1..len, array[i] = target, i < j
               PROVE  FALSE
    BY DEF LifoStop
  <2>1. LastIs(target) /\ len \in Nat
    BY Facts DEF StopInv, InSlice
  <2>2. len \in 1..len
    BY <2>1 DEF LastIs
  <2>3. i = len
    BY <2>1, <2>2, Facts DEF OnceInv, LastIs
  <2> QED BY <2>1, <2>3
<1> QED BY <1>1, AloneSafe, PTL

\* A container that is torn down leaves no component running, however many
\* Shutdowns timed out on the way.
THEOREM NoneIsOrphaned == Alone => (Spec => []NoOrphan)
<1> SUFFICES ASSUME Alone PROVE Spec => []NoOrphan
  OBVIOUS
<1>1. Inv => NoOrphan
  <2> SUFFICES ASSUME Inv, cstage = "down", NEW x \in Children, kstage[x] \in {"initialized", "started"}
               PROVE  FALSE
    BY DEF NoOrphan
  <2>1. act.at = "wait" /\ x \in cComponents /\ rpc[x] = "none"
    BY Later, Facts DEF FoundInv
  <2>2. InSlice(x)
    BY <2>1, Facts DEF MatchInv
  <2>3. \A i \in 1..len : array[i] = Self
    BY Facts DEF EndInv
  <2> QED BY <2>2, <2>3, Facts DEF InSlice
<1> QED BY <1>1, AloneSafe, PTL

\* The slice and the map hold the same components, but for the ones that are being
\* added or removed: neither append nor removeComponent loses one.
THEOREM ListAndMapMatch == Alone => (Spec => []ListMatchesMap)
<1> SUFFICES ASSUME Alone PROVE Spec => []ListMatchesMap
  OBVIOUS
<1>1. Inv => ListMatchesMap
  BY Facts DEF MatchInv, ListMatchesMap, InSlice, Activating
<1> QED BY <1>1, AloneSafe, PTL

\* As long as no Shutdown times out, Stop never indexes the slice out of range and
\* nobody else uses the map while removeComponent deletes from it.
THEOREM StopIsQuiet == Alone => (Spec => []QuietStop)
<1> SUFFICES ASSUME Alone PROVE Spec => []QuietStop
  OBVIOUS
<1>1. Inv => QuietStop
  BY Facts DEF QuietInv, QuietStop
<1> QED BY <1>1, AloneSafe, PTL
=============================================================================
