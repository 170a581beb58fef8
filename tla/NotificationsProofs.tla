------------------------ MODULE NotificationsProofs ------------------------
(***************************************************************************)
(* Proofs about Notifications, for any number of callbacks, subscribers,   *)
(* messages and restarts.                                                  *)
(***************************************************************************)
EXTENDS Notifications, SequenceTheorems, FiniteSetTheorems, TLAPS

----------------------------------------------------------------------------
(* Invariants *)

States == {"Active", "Inactive"}
Pcs == {"idle", "next", "copy", "call", "send", "state"}
Changes ==
    {NoChange} \union [kind : {"stage"}, prev : Stages, curr : Stages]
               \union [kind : {"state"}, prev : States, curr : States]

FsmType ==
    /\ stage \in Stages /\ state \in States
    /\ lock \in Notifiers \union {None}
    /\ script \in [Notifiers -> Seq(Stages \union {"tearDown"})]
    /\ pc \in [Notifiers -> Pcs]
    /\ change \in [Notifiers -> Changes]

RoundType ==
    /\ funcs \in [Notifiers -> Seq(Callbacks)]
    /\ idx \in [Notifiers -> Nat] /\ \A g \in Notifiers : 1 <= idx[g] /\ idx[g] <= Len(funcs[g]) + 1
    /\ told \in [Notifiers -> SUBSET Callbacks] /\ due \in [Notifiers -> SUBSET Callbacks]

CallbackType ==
    /\ callbacks \in Seq(Callbacks)
    /\ late \subseteq [cb : Slow, i : Nat \ {0}]
    /\ reg \subseteq [cb : Users, head : BOOLEAN]
    /\ removed \in [cb : Callbacks, gone : Callbacks]
    /\ shifted \in BOOLEAN

SubscriberType ==
    /\ subscribers \subseteq Subs /\ left \subseteq Subs
    /\ unsent \in [Notifiers -> SUBSET Subs]
    /\ ch \in [Subs -> Seq(Changes)] /\ \A s \in Subs : Len(ch[s]) <= ChanCap
    /\ seen \in [Subs -> Stages \union {"none"}]

CountType == fatal \in BOOLEAN /\ messages \in 0..MaxMessages /\ restarts \in 0..MaxRestarts

\* No callback is registered twice, or registered and about to be.
OnceInv ==
    /\ \A i, j \in 1..Len(callbacks) : callbacks[i] = callbacks[j] => i = j
    /\ \A r, q \in reg : r.cb = q.cb => r = q
    /\ \A r \in reg : \A i \in 1..Len(callbacks) : callbacks[i] # r.cb

TypeInv == FsmType /\ RoundType /\ CallbackType /\ SubscriberType /\ CountType /\ OnceInv

\* The callbacks that are due are those of the copy, and told up to the index.
CallInv ==
    \A g \in Notifiers :
        /\ pc[g] \in {"call", "send"} =>
              /\ due[g] \subseteq Range(funcs[g])
              /\ \A k \in 1..Len(funcs[g]) : k < idx[g] => funcs[g][k] \in told[g]
        /\ pc[g] = "send" => idx[g] > Len(funcs[g])

\* The notifiers that are in an FSM call, and those that tell of its stage.
Telling(g) == pc[g] \in {"copy", "call", "send"}
InCall(g) == pc[g] \in {"next", "state"} \/ (Telling(g) /\ change[g].kind # "comp")
TellsStage(g) == Telling(g) /\ change[g].kind = "stage"

\* What is left of an FSM call at stage s.
Scripts(s) ==
    CASE s = "Started" -> {<<>>, <<"Stopping">>, <<"Restarting">>}
      [] s = "Restarting" -> {<<>>, <<"Starting", "Started">>}
      [] s = "Starting" -> {<<>>, <<"Started">>}
      [] s = "Stopping" -> {<<>>, <<"Stopped", "tearDown", "Teareddown">>}
      [] s = "Stopped" -> {<<>>, <<"tearDown", "Teareddown">>, <<"Teareddown">>}
      [] OTHER -> {<<>>}

\* An FSM call has the lock; what it tells of is the stage as it is.
LockOf(g) ==
    /\ InCall(g) => lock = g
    /\ script[g] # <<>> => InCall(g)
    /\ script[g] \in Scripts(stage)
    /\ TellsStage(g) => change[g].curr = stage

LockInv == \A g \in Notifiers : LockOf(g)

\* Goroutine g tells the callbacks of a stage and has not come to Fw; the callbacks
\* it walks over are still at their indices.
BeforeFw(g) ==
    /\ TellsStage(g) /\ pc[g] # "send"
    /\ pc[g] = "call" =>
          /\ Len(funcs[g]) <= Len(callbacks)
          /\ \A k \in 1..Len(funcs[g]) : callbacks[k] = funcs[g][k]
          /\ \E k \in 1..Len(funcs[g]) : funcs[g][k] = Fw /\ idx[g] <= k

\* Until an index changes: the shutdown has not come to Fw, and every index it has
\* handed out is that of the callback.
ShiftInv ==
    ~shifted =>
        /\ stage \in Live \union {"Stopping"}
        /\ \E k \in 1..Len(callbacks) : callbacks[k] = Fw
        /\ stage \in Live => late = {}
        /\ \A l \in late : l.i <= Len(callbacks) /\ callbacks[l.i] = l.cb
        /\ stage = "Stopping" => \E g \in Notifiers : BeforeFw(g)

\* The last stage a subscriber has been sent.
Sent(s) == IF ch[s] # <<>> /\ ch[s][1].kind = "stage" THEN ch[s][1].curr ELSE seen[s]

\* Goroutine g is to tell subscriber s of a stage.
ToTell(g, s) ==
    TellsStage(g) /\ IF pc[g] = "send" THEN s \in unsent[g] ELSE s \in subscribers

\* A subscriber is at the stage before, or at the stage.
ReceivedOf(s) == ch[s] # <<>> /\ ch[s][1].kind = "stage" => seen[s] \in {"none", ch[s][1].prev}
ChainOf(s) ==
    /\ ReceivedOf(s)
    /\ \A g \in Notifiers : ToTell(g, s) => Sent(s) \in {"none", change[g].prev}
    /\ s \in subscribers /\ (\A g \in Notifiers : ~ToTell(g, s)) => Sent(s) \in {"none", stage}

ChainInv == \A s \in Subs : ChainOf(s)

\* From tearDown on, whoever subscribes has come too late.
TornDown == stage = "Teareddown" \/ \E g \in Notifiers : script[g] = <<"Teareddown">>
LeftOf(s) ==
    /\ TornDown /\ s \in subscribers => s \in left
    /\ ch[s] # <<>> /\ ch[s][1].kind = "stage" /\ ch[s][1].curr = "Teareddown" => s \in left
    /\ \A g \in Notifiers :
          TellsStage(g) /\ pc[g] = "send" /\ s \in unsent[g] /\ change[g].curr = "Teareddown" => s \in left

LeftInv == \A s \in Subs : LeftOf(s)

----------------------------------------------------------------------------
(* Constants and sequences *)

LEMMA Constants ==
    /\ Mux \in Notifiers /\ Runner \in Notifiers /\ None \notin Notifiers
    /\ Fw \in Callbacks /\ Fw \notin Slow /\ Users \subseteq Callbacks /\ Slow \subseteq Callbacks
    /\ IsFiniteSet(Callbacks)
<1>1. IsFiniteSet(Users \union {Fw})
  BY NotificationsAssumption, FS_AddElement
<1> QED BY <1>1, NotificationsAssumption DEF Notifiers, Callbacks

LEMMA Lengths ==
    ASSUME NEW S, NEW s \in Seq(S)
    PROVE  /\ Len(s) \in Nat /\ DOMAIN s = 1..Len(s) /\ (Len(s) = 0 <=> s = <<>>)
           /\ \A k \in 1..Len(s) : s[k] \in S
<1>1. Len(s) = 0 => s = <<>>
  BY EmptySeq
<1> QED BY <1>1, LenProperties, ElementOfSeq

\* RemoveCallback: what stays where it is, and what moves.
LEMMA RemoveAtProperties ==
    ASSUME NEW S, NEW s \in Seq(S), NEW m \in 1..Len(s)
    PROVE  /\ RemoveAt(s, m) \in Seq(S) /\ Len(RemoveAt(s, m)) = Len(s) - 1
           /\ \A k \in 1..(Len(s) - 1) : RemoveAt(s, m)[k] = IF k < m THEN s[k] ELSE s[k+1]
<1> DEFINE a == SubSeq(s, 1, m-1)
           b == SubSeq(s, m+1, Len(s))
           n == Len(s)
<1>1. n \in Nat /\ m \in Nat /\ 1 <= m /\ m <= n
  BY LenProperties
<1>2. \A k \in 1..n : s[k] \in S
  BY ElementOfSeq
<1>3. a \in Seq(S) /\ Len(a) = m - 1 /\ \A k \in 1..(m-1) : a[k] = s[k]
  BY <1>1, <1>2
<1>4. b \in Seq(S) /\ Len(b) = n - m /\ \A k \in 1..(n-m) : b[k] = s[m+k]
  BY <1>1, <1>2
<1>5. RemoveAt(s, m) = a \o b
  BY DEF RemoveAt
<1> HIDE DEF a, b, n
<1>6. /\ a \o b \in Seq(S) /\ Len(a \o b) = Len(a) + Len(b)
      /\ \A k \in 1..(Len(a) + Len(b)) : (a \o b)[k] = IF k <= Len(a) THEN a[k] ELSE b[k - Len(a)]
  BY <1>3, <1>4, ConcatProperties
<1>7. Len(a) + Len(b) = n - 1
  BY <1>1, <1>3, <1>4
<1>8. ASSUME NEW k \in 1..(n-1) PROVE (a \o b)[k] = IF k < m THEN s[k] ELSE s[k+1]
  <2>1. CASE k < m
    BY <1>1, <1>3, <1>6, <1>7, <2>1
  <2>2. CASE ~(k < m)
    <3>1. k - (m-1) \in 1..(n-m) /\ m + (k - (m-1)) = k+1 /\ ~(k <= m-1)
      BY <1>1, <2>2
    <3> QED BY <1>3, <1>4, <1>6, <1>7, <2>2, <3>1
  <2> QED BY <2>1, <2>2
<1> QED BY <1>5, <1>6, <1>7, <1>8 DEF n

\* Without duplicates there are no more entries than callbacks.
LEMMA OnceBounded ==
    ASSUME NEW s \in Seq(Callbacks), \A i, j \in 1..Len(s) : s[i] = s[j] => i = j
    PROVE  Len(s) <= Cardinality(Callbacks)
<1>1. Len(s) \in Nat /\ s \in [1..Len(s) -> Callbacks]
  BY LenProperties
<1>2. s \in Injection(1..Len(s), Callbacks)
  BY <1>1 DEF Injection, IsInjective
<1>3. Cardinality(1..Len(s)) <= Cardinality(Callbacks)
  BY <1>2, Constants, FS_Injection
<1>4. Cardinality(1..Len(s)) = IF 1 > Len(s) THEN 0 ELSE Len(s)-1+1
  BY <1>1, FS_Interval
<1>5. Cardinality(1..Len(s)) = Len(s)
  BY <1>1, <1>4
<1> QED BY <1>3, <1>5

LEMMA TypeImplied == TypeInv => TypeOK
<1> SUFFICES ASSUME TypeInv PROVE TypeOK
  OBVIOUS
<1>1. callbacks \in Seq(Callbacks) /\ Len(callbacks) <= Cardinality(Callbacks)
  BY OnceBounded DEF TypeInv, CallbackType, OnceInv
<1>2. \A g \in Notifiers : /\ change[g].kind \in {"stage", "state", "comp"}
                           /\ funcs[g] \in Seq(Callbacks) /\ idx[g] \in 1..(Len(funcs[g]) + 1)
                           /\ unsent[g] \subseteq Subs
                           /\ told[g] \subseteq Callbacks /\ due[g] \subseteq Callbacks
  <2> SUFFICES ASSUME NEW g \in Notifiers
               PROVE  /\ change[g].kind \in {"stage", "state", "comp"}
                      /\ funcs[g] \in Seq(Callbacks) /\ idx[g] \in 1..(Len(funcs[g]) + 1)
                      /\ unsent[g] \subseteq Subs
                      /\ told[g] \subseteq Callbacks /\ due[g] \subseteq Callbacks
    OBVIOUS
  <2>1. change[g] \in Changes
    BY DEF TypeInv, FsmType
  <2>2. funcs[g] \in Seq(Callbacks) /\ Len(funcs[g]) \in Nat
    BY Lengths DEF TypeInv, RoundType
  <2>3. idx[g] \in Nat /\ 1 <= idx[g] /\ idx[g] <= Len(funcs[g]) + 1
    BY DEF TypeInv, RoundType
  <2>4. idx[g] \in 1..(Len(funcs[g]) + 1)
    BY <2>2, <2>3
  <2> QED BY <2>1, <2>2, <2>4 DEF TypeInv, RoundType, SubscriberType, Changes, NoChange
<1>3. (\A l \in late : l.cb \in Slow) /\ (\A r \in reg : r.cb \in Users /\ r.head \in BOOLEAN)
      /\ {removed.cb, removed.gone} \subseteq Callbacks
  BY DEF TypeInv, CallbackType
<1>4. \A s \in Subs : Len(ch[s]) <= ChanCap /\ seen[s] \in Stages \union {"none"}
  BY DEF TypeInv, SubscriberType
<1> QED BY <1>1, <1>2, <1>3, <1>4
        DEF TypeOK, TypeInv, FsmType, CallbackType, SubscriberType, CountType, States, Pcs

LEMMA TypeInit == Init => TypeInv
<1> SUFFICES ASSUME Init PROVE TypeInv
  OBVIOUS
<1> USE Constants
<1>1. FsmType
  BY DEF Init, FsmType, Stages, States, Pcs, Changes
<1>2. RoundType
  BY DEF Init, RoundType
<1>3. CallbackType
  <2>1. shifted \in BOOLEAN
    BY Zenon DEF Init
  <2>2. callbacks \in Seq(Callbacks) /\ removed \in [cb : Callbacks, gone : Callbacks]
    BY DEF Init
  <2> QED BY <2>1, <2>2 DEF Init, CallbackType
<1>4. SubscriberType
  BY DEF Init, SubscriberType, ChanCap
<1>5. CountType
  <2>1. fatal \in BOOLEAN
    BY Zenon DEF Init
  <2> QED BY <2>1, NotificationsAssumption DEF Init, CountType
<1>6. OnceInv
  BY DEF Init, OnceInv
<1> QED BY <1>1, <1>2, <1>3, <1>4, <1>5, <1>6 DEF TypeInv

----------------------------------------------------------------------------
(* Types, one part at a time *)

ScriptType == Seq(Stages \union {"tearDown"})

LEMMA ScriptsType ==
    ASSUME NEW g
    PROVE  \A s \in Stages : Script(g, s) \in ScriptType
<1>1. /\ <<>> \in ScriptType /\ <<"Stopping">> \in ScriptType /\ <<"Restarting">> \in ScriptType
      /\ <<"Starting", "Started">> \in ScriptType
  BY DEF ScriptType, Stages
<1>2. <<"Stopped", "tearDown", "Teareddown">> \in ScriptType
  BY DEF ScriptType, Stages
<1> QED BY <1>1, <1>2 DEF Script

LEMMA FsmTypeStep == TypeInv /\ [Next]_vars => FsmType'
<1> SUFFICES ASSUME TypeInv, [Next]_vars PROVE FsmType'
  OBVIOUS
<1>0. FsmType
  BY DEF TypeInv
<1>1. ASSUME NEW g \in Notifiers, FsmEnter(g) PROVE FsmType'
  <2>1. Script(g, stage) \in ScriptType
    BY <1>0, ScriptsType DEF FsmType
  <2> QED BY <1>0, <1>1, <2>1 DEF FsmEnter, FsmType, ScriptType, Pcs, round
<1>2. CASE Handled
  BY <1>0, <1>2, Constants DEF Handled, FsmType, Changes, Pcs, fsm
<1>3. ASSUME NEW g \in Notifiers, SetStage(g) PROVE FsmType'
  <2>1. script[g] \in ScriptType /\ script[g] # <<>>
    BY <1>0, <1>3 DEF FsmType, ScriptType, SetStage
  <2>2. Tail(script[g]) \in ScriptType /\ Head(script[g]) \in Stages \union {"tearDown"}
    BY <2>1, HeadTailProperties DEF ScriptType
  <2>3. stage' \in Stages
    BY <1>3, <2>2 DEF SetStage
  <2>4. [kind |-> "stage", prev |-> stage, curr |-> stage'] \in Changes
    BY <1>0, <2>3 DEF FsmType, Changes
  <2> QED BY <1>0, <1>3, <2>2, <2>3, <2>4 DEF SetStage, FsmType, ScriptType, Pcs
<1>4. ASSUME NEW g \in Notifiers, SetState(g) PROVE FsmType'
  <2> DEFINE s == IF stage \in Live THEN "Active" ELSE "Inactive"
  <2>1. s \in States /\ [kind |-> "state", prev |-> state, curr |-> s] \in Changes
    BY <1>0 DEF FsmType, Changes, States
  <2>2. change' \in [Notifiers -> Changes]
    BY <1>0, <1>4, <2>1 DEF SetState, FsmType
  <2>3. pc' \in [Notifiers -> Pcs] /\ state' = s
    BY <1>0, <1>4 DEF SetState, FsmType, Pcs
  <2> QED BY <1>0, <1>4, <2>1, <2>2, <2>3 DEF SetState, FsmType
<1>5. ASSUME NEW g \in Notifiers, TearDown(g) PROVE FsmType'
  <2>1. script[g] \in ScriptType /\ script[g] # <<>>
    BY <1>0, <1>5 DEF FsmType, ScriptType, TearDown
  <2>2. Tail(script[g]) \in ScriptType
    BY <2>1, HeadTailProperties DEF ScriptType
  <2> QED BY <1>0, <1>5, <2>2 DEF TearDown, FsmType, ScriptType, round
<1>6. ASSUME NEW g \in Notifiers, FsmReturn(g) \/ CopyCallbacks(g) \/ Called(g) PROVE FsmType'
  BY <1>0, <1>6 DEF FsmReturn, CopyCallbacks, Called, FsmType, Pcs, fsm, round
<1>7. ASSUME NEW g \in Notifiers, Told(g) PROVE FsmType'
  <2>1. pc' \in [Notifiers -> Pcs] /\ change' \in [Notifiers -> Changes]
    BY <1>0, <1>7 DEF Told, FsmType, Pcs, Changes
  <2> QED BY <1>0, <1>7, <2>1 DEF Told, FsmType, fsm
<1>8. CASE UNCHANGED <<fsm, pc, change>>
  BY <1>0, <1>8 DEF FsmType, fsm
<1> QED BY <1>1, <1>2, <1>3, <1>4, <1>5, <1>6, <1>7, <1>8
        DEF Next, vars, fsm, round, calls, NotifierStep, Send, Call, Deadline, LateReturn, RegisterCheck, Register,
            WriteSubscribers, Receive

LEMMA RoundTypeStep == TypeInv /\ [Next]_vars => RoundType'
<1> SUFFICES ASSUME TypeInv, [Next]_vars PROVE RoundType'
  OBVIOUS
<1>0. RoundType /\ callbacks \in Seq(Callbacks)
  BY DEF TypeInv, CallbackType
<1>1. ASSUME NEW g \in Notifiers, CopyCallbacks(g) PROVE RoundType'
  <2>1. Len(callbacks) \in Nat /\ Range(callbacks) \subseteq Callbacks
    BY <1>0, Lengths DEF Range
  <2>2. /\ funcs' \in [Notifiers -> Seq(Callbacks)] /\ idx' \in [Notifiers -> Nat]
        /\ told' \in [Notifiers -> SUBSET Callbacks] /\ due' \in [Notifiers -> SUBSET Callbacks]
    BY <1>0, <1>1, <2>1 DEF CopyCallbacks, RoundType
  <2>3. /\ funcs'[g] = callbacks /\ idx'[g] = 1
        /\ \A h \in Notifiers : h # g => funcs'[h] = funcs[h] /\ idx'[h] = idx[h]
    BY <1>0, <1>1 DEF CopyCallbacks, RoundType
  <2>4. ASSUME NEW h \in Notifiers PROVE 1 <= idx'[h] /\ idx'[h] <= Len(funcs'[h]) + 1
    <3>1. CASE h = g
      BY <2>1, <2>3, <3>1
    <3>2. CASE h # g
      <4>1. 1 <= idx[h] /\ idx[h] <= Len(funcs[h]) + 1
        BY <1>0 DEF RoundType
      <4> QED BY <2>3, <3>2, <4>1
    <3> QED BY <3>1, <3>2
  <2> QED BY <2>2, <2>4 DEF RoundType
<1>2. ASSUME NEW g \in Notifiers, Call(g) \/ Deadline(g) PROVE RoundType'
  <2>1. /\ idx[g] \in Nat /\ Len(funcs[g]) \in Nat /\ idx[g] <= Len(funcs[g]) /\ 1 <= idx[g]
        /\ \A k \in 1..Len(funcs[g]) : funcs[g][k] \in Callbacks
    BY <1>0, <1>2, Lengths DEF RoundType, Call, Deadline
  <2>2. funcs[g][idx[g]] \in Callbacks
    BY <2>1
  <2>3. funcs' = funcs /\ due' = due /\ told' \in [Notifiers -> SUBSET Callbacks]
    BY <1>0, <1>2, <2>2 DEF RoundType, Call, Deadline
  <2>4. idx' \in [Notifiers -> Nat] /\ idx'[g] = idx[g] + 1 /\ \A h \in Notifiers : h # g => idx'[h] = idx[h]
    <3>1. idx \in [Notifiers -> Nat] /\ idx' = [idx EXCEPT ![g] = @ + 1]
      BY <1>0, <1>2 DEF RoundType, Call, Deadline
    <3> QED BY <3>1
  <2>5. 1 <= idx'[g] /\ idx'[g] <= Len(funcs[g]) + 1
    BY <2>1, <2>4
  <2> QED BY <1>0, <2>3, <2>4, <2>5 DEF RoundType
<1>3. ASSUME NEW g \in Notifiers, Told(g) PROVE RoundType'
  <2>1. /\ funcs' \in [Notifiers -> Seq(Callbacks)] /\ idx' \in [Notifiers -> Nat]
        /\ told' \in [Notifiers -> SUBSET Callbacks] /\ due' \in [Notifiers -> SUBSET Callbacks]
    BY <1>0, <1>3 DEF Told, RoundType
  <2>2. /\ funcs'[g] = <<>> /\ idx'[g] = 1
        /\ \A h \in Notifiers : h # g => funcs'[h] = funcs[h] /\ idx'[h] = idx[h]
    BY <1>0, <1>3 DEF Told, RoundType
  <2>3. Len(funcs'[g]) = 0
    BY <2>2
  <2>4. ASSUME NEW h \in Notifiers PROVE 1 <= idx'[h] /\ idx'[h] <= Len(funcs'[h]) + 1
    <3>1. CASE h = g
      BY <2>2, <2>3, <3>1
    <3>2. CASE h # g
      <4>1. 1 <= idx[h] /\ idx[h] <= Len(funcs[h]) + 1
        BY <1>0 DEF RoundType
      <4> QED BY <2>2, <3>2, <4>1
    <3> QED BY <3>1, <3>2
  <2> QED BY <2>1, <2>4 DEF RoundType
<1>4. CASE UNCHANGED calls
  BY <1>0, <1>4 DEF RoundType, calls
<1> QED BY <1>1, <1>2, <1>3, <1>4
        DEF Next, vars, fsm, round, calls, NotifierStep, FsmEnter, Handled, SetStage, SetState, TearDown, FsmReturn,
            Called, Send, LateReturn, RegisterCheck, Register, WriteSubscribers, Receive

\* What RemoveCallback leaves: callbacks that were there, each once.
LEMMA Removal ==
    ASSUME TypeInv, NEW cb \in Callbacks, NEW i \in Nat \ {0}, RemoveCallback(cb, i)
    PROVE  /\ callbacks' \in Seq(Callbacks) /\ removed' \in [cb : Callbacks, gone : Callbacks]
           /\ shifted' \in BOOLEAN
           /\ \A j, k \in 1..Len(callbacks') : callbacks'[j] = callbacks'[k] => j = k
           /\ \A k \in 1..Len(callbacks') : \E j \in 1..Len(callbacks) : callbacks'[k] = callbacks[j]
<1>0. /\ callbacks \in Seq(Callbacks) /\ removed \in [cb : Callbacks, gone : Callbacks]
      /\ \A j, k \in 1..Len(callbacks) : callbacks[j] = callbacks[k] => j = k
      /\ shifted \in BOOLEAN
  BY DEF TypeInv, CallbackType, OnceInv
<1>1. Len(callbacks) \in Nat /\ \A k \in 1..Len(callbacks) : callbacks[k] \in Callbacks
  BY <1>0, Lengths
<1>2. CASE i <= Len(callbacks)
  <2>1. i \in 1..Len(callbacks)
    BY <1>1, <1>2
  <2>2. callbacks' = RemoveAt(callbacks, i) /\ removed' = [cb |-> cb, gone |-> callbacks[i]]
    BY <1>2 DEF RemoveCallback
  <2>3. shifted' \in BOOLEAN
    BY <1>2 DEF RemoveCallback
  <2>4. /\ callbacks' \in Seq(Callbacks) /\ Len(callbacks') = Len(callbacks) - 1
        /\ \A k \in 1..(Len(callbacks) - 1) :
              callbacks'[k] = IF k < i THEN callbacks[k] ELSE callbacks[k+1]
    BY <1>0, <2>1, <2>2, RemoveAtProperties
  <2>5. \A k \in 1..Len(callbacks') : k \in 1..Len(callbacks) /\ k+1 \in 1..Len(callbacks)
    BY <1>1, <2>4
  <2>6. \A j, k \in 1..Len(callbacks') : callbacks'[j] = callbacks'[k] => j = k
    <3> SUFFICES ASSUME NEW j \in 1..Len(callbacks'), NEW k \in 1..Len(callbacks'),
                        callbacks'[j] = callbacks'[k]
                 PROVE  j = k
      OBVIOUS
    <3> DEFINE p == IF j < i THEN j ELSE j+1
               q == IF k < i THEN k ELSE k+1
    <3>1. p \in 1..Len(callbacks) /\ q \in 1..Len(callbacks)
      BY <2>5
    <3>2. callbacks[p] = callbacks[q]
      BY <2>4
    <3>3. p = q
      BY <1>0, <3>1, <3>2
    <3>4. j \in Nat /\ k \in Nat /\ i \in Nat
      BY <2>4, <1>1
    <3> QED BY <3>3, <3>4
  <2>7. \A k \in 1..Len(callbacks') : \E j \in 1..Len(callbacks) : callbacks'[k] = callbacks[j]
    BY <2>4, <2>5
  <2> QED BY <1>1, <2>1, <2>2, <2>3, <2>4, <2>6, <2>7
<1>3. CASE ~(i <= Len(callbacks))
  BY <1>0, <1>3 DEF RemoveCallback
<1> QED BY <1>2, <1>3

LEMMA CallbackKeeps ==
    ASSUME TypeInv, UNCHANGED reg, late' \subseteq late,
           /\ callbacks' \in Seq(Callbacks) /\ removed' \in [cb : Callbacks, gone : Callbacks]
           /\ shifted' \in BOOLEAN,
           \A j, k \in 1..Len(callbacks') : callbacks'[j] = callbacks'[k] => j = k,
           \A k \in 1..Len(callbacks') : \E j \in 1..Len(callbacks) : callbacks'[k] = callbacks[j]
    PROVE  CallbackType' /\ OnceInv'
<1>1. CallbackType'
  BY DEF TypeInv, CallbackType
<1>2. OnceInv'
  BY DEF TypeInv, OnceInv
<1> QED BY <1>1, <1>2

LEMMA CallbackTypeStep == TypeInv /\ [Next]_vars => CallbackType' /\ OnceInv'
<1> SUFFICES ASSUME TypeInv, [Next]_vars PROVE CallbackType' /\ OnceInv'
  OBVIOUS
<1>0. /\ CallbackType /\ OnceInv /\ Len(callbacks) \in Nat
      /\ \A k \in 1..Len(callbacks) : callbacks[k] \in Callbacks
  BY Lengths DEF TypeInv, CallbackType
<1>1. ASSUME NEW g \in Notifiers, TearDown(g) PROVE CallbackType' /\ OnceInv'
  <2> DEFINE n == Len(callbacks) \div 2
  <2>1. n \in Nat /\ \A k \in 1..n : 2 * k \in 1..Len(callbacks)
    BY <1>0
  <2>2. callbacks' = [k \in 1..n |-> callbacks[2 * k]]
    BY <1>1 DEF TearDown
  <2> HIDE DEF n
  <2>3. callbacks' \in [1..n -> Callbacks]
    BY <1>0, <2>1, <2>2
  <2>4. callbacks' \in Seq(Callbacks) /\ Len(callbacks') = n
    BY <2>1, <2>2, <2>3
  <2>5. \A k \in 1..Len(callbacks') : \E j \in 1..Len(callbacks) : callbacks'[k] = callbacks[j]
    BY <2>1, <2>2, <2>4
  <2>6. \A j, k \in 1..Len(callbacks') : callbacks'[j] = callbacks'[k] => j = k
    <3> SUFFICES ASSUME NEW j \in 1..n, NEW k \in 1..n, callbacks[2 * j] = callbacks[2 * k] PROVE j = k
      BY <2>2, <2>4
    <3>1. 2 * j = 2 * k
      BY <1>0, <2>1 DEF OnceInv
    <3> QED BY <2>1, <3>1
  <2>7. UNCHANGED <<late, reg, removed, shifted>>
    BY <1>1 DEF TearDown, hist
  <2> QED BY <1>0, <2>4, <2>5, <2>6, <2>7, CallbackKeeps DEF CallbackType
<1>2. ASSUME NEW cb \in Callbacks, NEW i \in Nat \ {0}, RemoveCallback(cb, i), UNCHANGED reg, late' \subseteq late
      PROVE  CallbackType' /\ OnceInv'
  BY <1>2, Removal, CallbackKeeps
<1>3. ASSUME NEW g \in Notifiers, Call(g) PROVE CallbackType' /\ OnceInv'
  <2> DEFINE cb == funcs[g][idx[g]]
  <2>1. cb \in Callbacks /\ idx[g] \in Nat \ {0}
    <3>1. /\ idx[g] \in Nat /\ Len(funcs[g]) \in Nat /\ idx[g] <= Len(funcs[g]) /\ 1 <= idx[g]
          /\ \A k \in 1..Len(funcs[g]) : funcs[g][k] \in Callbacks
      BY <1>3, Lengths DEF TypeInv, RoundType, Call
    <3> QED BY <3>1
  <2>2. UNCHANGED <<late, reg>>
    BY <1>3 DEF Call
  <2>3. RemoveCallback(cb, idx[g]) \/ UNCHANGED <<callbacks, removed, shifted>>
    BY <1>3 DEF Call, Callee
  <2>4. CASE UNCHANGED <<callbacks, removed, shifted>>
    BY <1>0, <2>2, <2>4 DEF CallbackType, OnceInv
  <2> HIDE DEF cb
  <2> QED BY <1>2, <2>1, <2>2, <2>3, <2>4
<1>4. ASSUME NEW l \in late, LateReturn(l) PROVE CallbackType' /\ OnceInv'
  <2>1. l.cb \in Callbacks /\ l.i \in Nat \ {0}
    BY <1>0, Constants DEF CallbackType
  <2>2. UNCHANGED reg /\ late' \subseteq late /\ RemoveCallback(l.cb, l.i)
    BY <1>4 DEF LateReturn
  <2> QED BY <1>2, <2>1, <2>2
<1>5. ASSUME NEW g \in Notifiers, Deadline(g) PROVE CallbackType' /\ OnceInv'
  <2>1. UNCHANGED <<callbacks, reg, removed, shifted>>
    BY <1>5 DEF Deadline, hist
  <2>2. idx[g] \in Nat \ {0}
    BY <1>5 DEF TypeInv, RoundType
  <2>3. late' \subseteq [cb : Slow, i : Nat \ {0}]
    BY <1>0, <1>5, <2>2 DEF Deadline, CallbackType
  <2> QED BY <1>0, <2>1, <2>3 DEF CallbackType, OnceInv
<1>6. ASSUME NEW cb \in Users, NEW head \in BOOLEAN, RegisterCheck(cb, head) PROVE CallbackType' /\ OnceInv'
  <2>1. UNCHANGED <<callbacks, late, removed, shifted>> /\ reg' = reg \union {[cb |-> cb, head |-> head]}
    BY <1>6 DEF RegisterCheck, hist
  <2>2. reg' \subseteq [cb : Users, head : BOOLEAN]
    BY <1>0, <2>1 DEF CallbackType
  <2>3. /\ \A r \in reg : r.cb # cb
        /\ \A i \in 1..Len(callbacks) : callbacks[i] # cb
    BY <1>6 DEF RegisterCheck
  <2>4. CallbackType'
    BY <1>0, <2>1, <2>2 DEF CallbackType
  <2>5. OnceInv'
    BY <1>0, <2>1, <2>3 DEF OnceInv
  <2> QED BY <2>4, <2>5
<1>7. ASSUME NEW r \in reg, Register(r) PROVE CallbackType' /\ OnceInv'
  <2>1. UNCHANGED <<late, removed>> /\ reg' = reg \ {r} /\ r.cb \in Callbacks
    BY <1>0, <1>7, Constants DEF Register, CallbackType
  <2>2. shifted' \in BOOLEAN
    BY <1>7 DEF Register
  <2>3. /\ callbacks' \in Seq(Callbacks) /\ Len(callbacks') = Len(callbacks) + 1
        /\ \/ /\ \A k \in 1..Len(callbacks) : callbacks'[k] = callbacks[k]
              /\ callbacks'[Len(callbacks) + 1] = r.cb
           \/ /\ \A k \in 2..(Len(callbacks) + 1) : callbacks'[k] = callbacks[k-1]
              /\ callbacks'[1] = r.cb
    <3>1. CASE r.head
      <4>1. callbacks' = <<r.cb>> \o callbacks /\ <<r.cb>> \in Seq(Callbacks) /\ callbacks \in Seq(Callbacks)
        BY <1>0, <1>7, <2>1, <3>1 DEF Register, CallbackType
      <4>2. Len(<<r.cb>>) = 1 /\ <<r.cb>>[1] = r.cb
        OBVIOUS
      <4>3. /\ callbacks' \in Seq(Callbacks) /\ Len(callbacks') = 1 + Len(callbacks)
            /\ \A k \in 1..(1 + Len(callbacks)) :
                  callbacks'[k] = IF k <= 1 THEN <<r.cb>>[k] ELSE callbacks[k - 1]
        BY <4>1, <4>2, ConcatProperties
      <4> QED BY <1>0, <4>2, <4>3
    <3>2. CASE ~r.head
      BY <1>0, <1>7, <2>1, <3>2, AppendProperties DEF Register, CallbackType
    <3> QED BY <3>1, <3>2
  <2>4. \A k \in 1..Len(callbacks) : callbacks[k] # r.cb
    BY <1>0 DEF OnceInv
  <2>5. \A k \in 1..Len(callbacks') : callbacks'[k] = r.cb \/ \E j \in 1..Len(callbacks) : callbacks'[k] = callbacks[j]
    <3> SUFFICES ASSUME NEW k \in 1..Len(callbacks')
                 PROVE  callbacks'[k] = r.cb \/ \E j \in 1..Len(callbacks) : callbacks'[k] = callbacks[j]
      OBVIOUS
    <3>1. k \in 1..Len(callbacks) \/ k = Len(callbacks) + 1
      BY <1>0, <2>3
    <3>2. k = 1 \/ (k \in 2..(Len(callbacks) + 1) /\ k - 1 \in 1..Len(callbacks))
      BY <1>0, <2>3
    <3> QED BY <2>3, <3>1, <3>2
  <2>6. \A j, k \in 1..Len(callbacks') : callbacks'[j] = callbacks'[k] => j = k
    <3> SUFFICES ASSUME NEW j \in 1..Len(callbacks'), NEW k \in 1..Len(callbacks'),
                        callbacks'[j] = callbacks'[k]
                 PROVE  j = k
      OBVIOUS
    <3>0. /\ \A m \in 1..Len(callbacks') : m \in 1..Len(callbacks) \/ m = Len(callbacks) + 1
          /\ \A m \in 1..Len(callbacks') :
                m = 1 \/ (m \in 2..(Len(callbacks) + 1) /\ m - 1 \in 1..Len(callbacks))
      BY <1>0, <2>3
    <3>1. CASE /\ \A m \in 1..Len(callbacks) : callbacks'[m] = callbacks[m]
               /\ callbacks'[Len(callbacks) + 1] = r.cb
      BY <1>0, <2>4, <3>0, <3>1 DEF OnceInv
    <3>2. CASE /\ \A m \in 2..(Len(callbacks) + 1) : callbacks'[m] = callbacks[m-1]
               /\ callbacks'[1] = r.cb
      <4>1. j # 1 /\ k # 1 => j - 1 = k - 1
        BY <1>0, <3>0, <3>2 DEF OnceInv
      <4>2. j = 1 <=> k = 1
        BY <2>4, <3>0, <3>2
      <4>3. j \in Nat /\ k \in Nat
        BY <1>0, <2>3
      <4> QED BY <4>1, <4>2, <4>3
    <3> QED BY <2>3, <3>1, <3>2
  <2>7. CallbackType'
    BY <1>0, <2>1, <2>2, <2>3 DEF CallbackType
  <2>8. OnceInv'
    BY <1>0, <2>1, <2>5, <2>6 DEF OnceInv
  <2> QED BY <2>7, <2>8
<1>8. CASE UNCHANGED <<callbacks, late, reg, removed, shifted>>
  BY <1>0, <1>8 DEF CallbackType, OnceInv
<1> QED BY <1>1, <1>3, <1>4, <1>5, <1>6, <1>7, <1>8
        DEF Next, vars, hist, NotifierStep, FsmEnter, Handled, SetStage, SetState, FsmReturn, CopyCallbacks,
            Called, Send, Told, WriteSubscribers, Receive

\* A channel that holds something holds one change.
LEMMA Channel ==
    ASSUME TypeInv, NEW s \in Subs
    PROVE  /\ ch[s] \in Seq(Changes)
           /\ ch[s] # <<>> => /\ Len(ch[s]) = 1 /\ Tail(ch[s]) = <<>> /\ Head(ch[s]) = ch[s][1]
                              /\ ch[s][1] \in Changes
           /\ Len(ch[s]) < ChanCap <=> ch[s] = <<>>
<1>1. ch[s] \in Seq(Changes) /\ Len(ch[s]) <= 1
  BY DEF TypeInv, SubscriberType, ChanCap
<1>2. Len(ch[s]) \in Nat /\ (Len(ch[s]) = 0 <=> ch[s] = <<>>) /\ \A k \in 1..Len(ch[s]) : ch[s][k] \in Changes
  BY <1>1, Lengths
<1>3. Len(ch[s]) < ChanCap <=> ch[s] = <<>>
  BY <1>1, <1>2 DEF ChanCap
<1>4. ASSUME ch[s] # <<>>
      PROVE  /\ Len(ch[s]) = 1 /\ Tail(ch[s]) = <<>> /\ Head(ch[s]) = ch[s][1] /\ ch[s][1] \in Changes
  <2>0. \A n \in Nat : n <= 1 /\ n # 0 => n = 1
    OBVIOUS
  <2>1. Len(ch[s]) = 1
    <3> HIDE DEF ChanCap
    <3>1. Len(ch[s]) # 0
      BY <1>2, <1>4
    <3> QED BY <1>1, <1>2, <2>0, <3>1
  <2>2. Tail(ch[s]) \in Seq(Changes) /\ Len(Tail(ch[s])) = Len(ch[s]) - 1
    BY <1>1, <1>4, HeadTailProperties
  <2>3. Tail(ch[s]) = <<>>
    BY <2>1, <2>2, Lengths
  <2>4. Head(ch[s]) = ch[s][1]
    BY <1>1, <1>4
  <2> QED BY <1>2, <2>1, <2>3, <2>4
<1> QED BY <1>1, <1>3, <1>4

\* A change of the kind "stage" tells of two stages.
LEMMA StageChange ==
    ASSUME NEW c \in Changes
    PROVE  /\ c.kind = "stage" => c.prev \in Stages /\ c.curr \in Stages
           /\ c.curr \in Stages => c.kind = "stage"
BY DEF Changes, NoChange, Stages, States

LEMMA SubscriberTypeStep == TypeInv /\ [Next]_vars => SubscriberType'
<1> SUFFICES ASSUME TypeInv, [Next]_vars PROVE SubscriberType'
  OBVIOUS
<1>0. SubscriberType
  BY DEF TypeInv
<1>1. ASSUME NEW g \in Notifiers, TearDown(g) PROVE SubscriberType'
  BY <1>0, <1>1 DEF TearDown, SubscriberType, round, hist
<1>2. ASSUME NEW g \in Notifiers, Called(g) PROVE SubscriberType'
  BY <1>0, <1>2 DEF Called, SubscriberType, hist
<1>3. ASSUME NEW g \in Notifiers, NEW s \in Subs, Send(g, s) PROVE SubscriberType'
  <2>1. ch[s] = <<>> /\ change[g] \in Changes
    BY <1>3, Channel DEF Send, TypeInv, FsmType
  <2>2. Append(ch[s], change[g]) = <<change[g]>> /\ <<change[g]>> \in Seq(Changes) /\ Len(<<change[g]>>) = 1
    BY <2>1
  <2>3. ch' \in [Subs -> Seq(Changes)] /\ ch'[s] = <<change[g]>> /\ \A u \in Subs : u # s => ch'[u] = ch[u]
    BY <1>0, <1>3, <2>2 DEF Send, SubscriberType
  <2>4. ASSUME NEW u \in Subs PROVE Len(ch'[u]) <= ChanCap
    <3>1. CASE u = s
      <4>1. Len(ch'[u]) = 1
        BY <2>3, <3>1
      <4> QED BY <4>1 DEF ChanCap
    <3>2. CASE u # s
      BY <1>0, <2>3, <3>2 DEF SubscriberType
    <3> QED BY <3>1, <3>2
  <2>5. unsent' \in [Notifiers -> SUBSET Subs]
    BY <1>0, <1>3 DEF Send, SubscriberType
  <2> QED BY <1>0, <1>3, <2>3, <2>4, <2>5 DEF Send, SubscriberType, hist
<1>4. ASSUME NEW s \in Subs, WriteSubscribers(s) PROVE SubscriberType'
  <2>1. CASE Subscribe(s)
    <3>1. unsent' \in [Notifiers -> SUBSET Subs] /\ subscribers' \subseteq Subs /\ left' \subseteq Subs
      BY <1>0, <2>1 DEF Subscribe, SubscriberType
    <3>2. /\ ch' \in [Subs -> Seq(Changes)] /\ ch'[s] = <<>> /\ \A u \in Subs : u # s => ch'[u] = ch[u]
          /\ seen' \in [Subs -> Stages \union {"none"}]
      BY <1>0, <2>1 DEF Subscribe, SubscriberType
    <3>3. Len(ch'[s]) <= ChanCap
      BY <3>2 DEF ChanCap
    <3> QED BY <1>0, <3>1, <3>2, <3>3 DEF SubscriberType
  <2>2. CASE Unsubscribe(s)
    <3>1. unsent' \in [Notifiers -> SUBSET Subs] /\ subscribers' \subseteq Subs /\ left' \subseteq Subs
      BY <1>0, <2>2 DEF Unsubscribe, SubscriberType
    <3> QED BY <1>0, <2>2, <3>1 DEF Unsubscribe, SubscriberType
  <2> QED BY <1>4, <2>1, <2>2 DEF WriteSubscribers
<1>5. ASSUME NEW s \in Subs, Receive(s) PROVE SubscriberType'
  <2>1. Tail(ch[s]) = <<>> /\ Head(ch[s]) \in Changes
    BY <1>5, Channel DEF Receive
  <2>2. ch' \in [Subs -> Seq(Changes)] /\ ch'[s] = <<>> /\ \A u \in Subs : u # s => ch'[u] = ch[u]
    BY <1>0, <1>5, <2>1 DEF Receive, SubscriberType
  <2>3. seen' \in [Subs -> Stages \union {"none"}]
    BY <1>0, <1>5, <2>1, StageChange DEF Receive, SubscriberType
  <2>4. Len(ch'[s]) <= ChanCap
    BY <2>2 DEF ChanCap
  <2> QED BY <1>0, <1>5, <2>2, <2>3, <2>4 DEF Receive, SubscriberType, round, hist
<1>6. CASE UNCHANGED <<subscribers, left, unsent, ch, seen>>
  BY <1>0, <1>6 DEF SubscriberType
<1> QED BY <1>1, <1>2, <1>3, <1>4, <1>5, <1>6
        DEF Next, vars, hist, round, NotifierStep, FsmEnter, Handled, SetStage, SetState, FsmReturn, CopyCallbacks,
            Call, Deadline, LateReturn, Told, RegisterCheck, Register

LEMMA CountTypeStep == TypeInv /\ [Next]_vars => CountType'
<1> SUFFICES ASSUME TypeInv, [Next]_vars PROVE CountType'
  OBVIOUS
<1>0. fatal \in BOOLEAN /\ messages \in 0..MaxMessages /\ restarts \in 0..MaxRestarts
      /\ MaxMessages \in Nat /\ MaxRestarts \in Nat
  BY NotificationsAssumption DEF TypeInv, CountType
<1>1. ASSUME NEW g \in Notifiers, FsmEnter(g) PROVE CountType'
  <2>1. restarts' = restarts \/ (restarts' = restarts + 1 /\ restarts < MaxRestarts)
    BY <1>1 DEF FsmEnter
  <2>2. restarts' \in 0..MaxRestarts
    BY <1>0, <2>1
  <2> QED BY <1>0, <1>1, <2>2 DEF FsmEnter, CountType
<1>2. CASE Handled
  <2>1. messages' \in 0..MaxMessages
    BY <1>0, <1>2 DEF Handled
  <2> QED BY <1>0, <1>2, <2>1 DEF Handled, CountType
<1>3. ASSUME NEW s \in Subs, WriteSubscribers(s) PROVE CountType'
  <2>1. fatal' \in BOOLEAN
    BY <1>0, <1>3 DEF WriteSubscribers
  <2> QED BY <1>0, <1>3, <2>1 DEF WriteSubscribers, CountType, bounds
<1>4. CASE UNCHANGED <<fatal, bounds>>
  BY <1>0, <1>4 DEF CountType, bounds
<1> QED BY <1>1, <1>2, <1>3, <1>4
        DEF Next, vars, bounds, NotifierStep, SetStage, SetState, TearDown, FsmReturn, CopyCallbacks, Called, Send,
            Call, Deadline, LateReturn, Told, RegisterCheck, Register, Receive

LEMMA TypeStep == TypeInv /\ [Next]_vars => TypeInv'
BY FsmTypeStep, RoundTypeStep, CallbackTypeStep, SubscriberTypeStep, CountTypeStep DEF TypeInv

\* The callbacks, the channels and the state of every notification keep their types:
\* no more callbacks are registered than there are, however registrations and
\* removals interleave, and no channel holds more than its buffer.
THEOREM TypeCorrect == Spec => []TypeOK
BY TypeInit, TypeStep, TypeImplied, PTL DEF Spec

----------------------------------------------------------------------------
(* Nobody is skipped *)

LEMMA CallStep == TypeInv /\ CallInv /\ [Next]_vars => CallInv'
<1> SUFFICES ASSUME TypeInv, CallInv, [Next]_vars, NEW g \in Notifiers,
                    TypeInv',
                    pc'[g] \in {"call", "send"}
             PROVE  /\ due'[g] \subseteq Range(funcs'[g])
                    /\ \A k \in 1..Len(funcs'[g]) : k < idx'[g] => funcs'[g][k] \in told'[g]
                    /\ pc'[g] = "send" => idx'[g] > Len(funcs'[g])
  BY TypeStep DEF CallInv
<1>0. /\ pc \in [Notifiers -> Pcs] /\ funcs \in [Notifiers -> Seq(Callbacks)] /\ idx \in [Notifiers -> Nat]
      /\ told \in [Notifiers -> SUBSET Callbacks] /\ due \in [Notifiers -> SUBSET Callbacks]
      /\ Len(funcs[g]) \in Nat
  BY Lengths DEF TypeInv, FsmType, RoundType
<1>1. CASE CopyCallbacks(g)
  <2>1. pc'[g] = "call" /\ due'[g] = Range(callbacks) /\ funcs'[g] = callbacks /\ idx'[g] = 1
    BY <1>0, <1>1 DEF CopyCallbacks
  <2>2. Len(callbacks) \in Nat
    BY Lengths DEF TypeInv, CallbackType
  <2>3. \A k \in 1..Len(callbacks) : ~(k < 1)
    BY <2>2
  <2> QED BY <2>1, <2>3
<1>2. CASE Call(g) \/ Deadline(g)
  <2>1. /\ pc'[g] = "call" /\ due'[g] = due[g] /\ funcs'[g] = funcs[g] /\ idx'[g] = idx[g] + 1
        /\ told'[g] = told[g] \union {funcs[g][idx[g]]} /\ pc[g] = "call"
    BY <1>0, <1>2 DEF Call, Deadline
  <2>2. /\ due[g] \subseteq Range(funcs[g])
        /\ \A k \in 1..Len(funcs[g]) : k < idx[g] => funcs[g][k] \in told[g]
    BY <2>1 DEF CallInv
  <2>3. \A k \in 1..Len(funcs[g]) : k < idx[g] + 1 => k < idx[g] \/ k = idx[g]
    BY <1>0
  <2> QED BY <2>1, <2>2, <2>3
<1>3. CASE Called(g)
  <2>1. UNCHANGED calls /\ pc[g] = "call" /\ idx[g] > Len(funcs[g])
    BY <1>3 DEF Called
  <2> QED BY <2>1 DEF CallInv, calls
<1>4. CASE /\ due'[g] = due[g] /\ funcs'[g] = funcs[g] /\ idx'[g] = idx[g] /\ told'[g] = told[g]
           /\ pc'[g] = pc[g]
  BY <1>4 DEF CallInv
<1>5. \/ CopyCallbacks(g) \/ Call(g) \/ Deadline(g) \/ Called(g)
      \/ /\ due'[g] = due[g] /\ funcs'[g] = funcs[g] /\ idx'[g] = idx[g] /\ told'[g] = told[g]
         /\ pc'[g] = pc[g]
  <2>1. CASE UNCHANGED <<calls, pc>>
    BY <2>1 DEF calls
  <2>2. ASSUME NEW h \in Notifiers,
               CopyCallbacks(h) \/ Call(h) \/ Deadline(h) \/ Called(h) \/ Told(h) \/ FsmEnter(h) \/ SetStage(h)
                  \/ SetState(h) \/ FsmReturn(h)
        PROVE  h = g \/ (/\ due'[g] = due[g] /\ funcs'[g] = funcs[g] /\ idx'[g] = idx[g] /\ told'[g] = told[g]
                         /\ pc'[g] = pc[g])
    BY <1>0, <2>2 DEF CopyCallbacks, Call, Deadline, Called, Told, FsmEnter, SetStage, SetState, FsmReturn,
                      calls, round
  <2>3. ~Told(g) /\ ~FsmEnter(g) /\ ~SetStage(g) /\ ~SetState(g) /\ ~FsmReturn(g)
    BY <1>0 DEF Told, FsmEnter, SetStage, SetState, FsmReturn
  <2>4. CASE Handled
    <3>1. UNCHANGED calls /\ pc' = [pc EXCEPT ![Mux] = "copy"]
      BY <2>4 DEF Handled
    <3>2. pc'[g] = pc[g]
      BY <1>0, <3>1
    <3> QED BY <3>1, <3>2 DEF calls
  <2>5. \/ UNCHANGED <<calls, pc>> \/ Handled
        \/ \E h \in Notifiers : CopyCallbacks(h) \/ Call(h) \/ Deadline(h) \/ Called(h) \/ Told(h) \/ FsmEnter(h)
                                   \/ SetStage(h) \/ SetState(h) \/ FsmReturn(h)
    BY DEF Next, vars, round, calls, NotifierStep, TearDown, Send, LateReturn, RegisterCheck, Register,
           WriteSubscribers, Receive
  <2> QED BY <2>1, <2>2, <2>3, <2>4, <2>5
<1> QED BY <1>1, <1>2, <1>3, <1>4, <1>5

\* Every callback that is registered when a notification begins has been called
\* when the subscribers' turn comes, whatever is registered or removed meanwhile.
THEOREM NobodyIsSkipped == Spec => []NobodySkipped
<1>1. Init => TypeInv /\ CallInv
  <2>1. Init => CallInv
    BY DEF Init, CallInv
  <2> QED BY <2>1, TypeInit
<1>2. TypeInv /\ CallInv /\ [Next]_vars => (TypeInv /\ CallInv)'
  BY TypeStep, CallStep
<1>3. TypeInv /\ CallInv => NobodySkipped
  <2> SUFFICES ASSUME TypeInv, CallInv, NEW g \in Notifiers, pc[g] = "send" PROVE due[g] \subseteq told[g]
    BY DEF NobodySkipped
  <2>1. funcs[g] \in Seq(Callbacks) /\ idx[g] \in Nat
    BY DEF TypeInv, RoundType
  <2>2. DOMAIN funcs[g] = 1..Len(funcs[g]) /\ Len(funcs[g]) \in Nat
    BY <2>1, Lengths
  <2>3. /\ due[g] \subseteq Range(funcs[g]) /\ idx[g] > Len(funcs[g])
        /\ \A k \in 1..Len(funcs[g]) : k < idx[g] => funcs[g][k] \in told[g]
    BY DEF CallInv
  <2>4. \A k \in 1..Len(funcs[g]) : k < idx[g]
    BY <2>1, <2>2, <2>3
  <2>5. Range(funcs[g]) \subseteq told[g]
    BY <2>2, <2>3, <2>4 DEF Range
  <2> QED BY <2>3, <2>5
<1> QED BY <1>1, <1>2, <1>3, PTL DEF Spec

----------------------------------------------------------------------------
(* FSM calls *)

\* What comes after a step of an FSM call.
LEMMA ScriptSteps ==
    ASSUME NEW s \in Stages, NEW c \in Scripts(s), c # <<>>
    PROVE  /\ Head(c) # "tearDown" => Head(c) \in Stages /\ Tail(c) \in Scripts(Head(c))
           /\ Head(c) = "tearDown" => s = "Stopped" /\ Tail(c) \in Scripts(s)
           /\ s \in Live => Head(c) \in Live \union {"Stopping"}
           /\ Tail(c) = <<"Teareddown">> => Head(c) = "tearDown"
           /\ Head(c) = "Teareddown" => c = <<"Teareddown">>
<1>1. \/ s = "Started" /\ c \in {<<"Stopping">>, <<"Restarting">>}
      \/ s = "Restarting" /\ c = <<"Starting", "Started">>
      \/ s = "Starting" /\ c = <<"Started">>
      \/ s = "Stopping" /\ c = <<"Stopped", "tearDown", "Teareddown">>
      \/ s = "Stopped" /\ c \in {<<"tearDown", "Teareddown">>, <<"Teareddown">>}
  BY DEF Scripts, Stages
<1>2. CASE s = "Started" /\ c \in {<<"Stopping">>, <<"Restarting">>}
  <2>1. Head(c) \in {"Stopping", "Restarting"} /\ Tail(c) = <<>>
    <3>1. CASE c = <<"Stopping">>
      BY <3>1
    <3>2. CASE c = <<"Restarting">>
      BY <3>2
    <3> QED BY <1>2, <3>1, <3>2
  <2> QED BY <1>2, <2>1 DEF Scripts, Stages, Live
<1>3. CASE s = "Restarting" /\ c = <<"Starting", "Started">>
  <2>1. Head(c) = "Starting" /\ Tail(c) = <<"Started">>
    BY <1>3
  <2>2. <<"Started">> # <<"Teareddown">>
    OBVIOUS
  <2> QED BY <1>3, <2>1, <2>2 DEF Scripts, Stages, Live
<1>4. CASE s = "Starting" /\ c = <<"Started">>
  <2>1. Head(c) = "Started" /\ Tail(c) = <<>>
    BY <1>4
  <2> QED BY <1>4, <2>1 DEF Scripts, Stages, Live
<1>5. CASE s = "Stopping" /\ c = <<"Stopped", "tearDown", "Teareddown">>
  <2>1. Head(c) = "Stopped" /\ Tail(c) = <<"tearDown", "Teareddown">>
    BY <1>5
  <2>2. <<"tearDown", "Teareddown">> # <<"Teareddown">>
    OBVIOUS
  <2> QED BY <1>5, <2>1, <2>2 DEF Scripts, Stages, Live
<1>6. CASE s = "Stopped" /\ c = <<"tearDown", "Teareddown">>
  <2>1. Head(c) = "tearDown" /\ Tail(c) = <<"Teareddown">>
    BY <1>6
  <2> QED BY <1>6, <2>1 DEF Scripts, Stages, Live
<1>7. CASE s = "Stopped" /\ c = <<"Teareddown">>
  <2>1. Head(c) = "Teareddown" /\ Tail(c) = <<>>
    BY <1>7
  <2> QED BY <1>7, <2>1 DEF Scripts, Stages, Live
<1> QED BY <1>1, <1>2, <1>3, <1>4, <1>5, <1>6, <1>7

LEMMA NoScript == \A s : <<>> \in Scripts(s)
BY DEF Scripts

LEMMA ScriptEntered == ASSUME NEW g, NEW s \in Stages PROVE Script(g, s) \in Scripts(s)
BY DEF Script, Scripts, Stages

\* The goroutines that take no part in a step.
LEMMA LockOther ==
    ASSUME NEW h \in Notifiers, LockInv,
           pc'[h] = pc[h] /\ change'[h] = change[h] /\ script'[h] = script[h],
           (lock' = lock /\ stage' = stage) \/ ~InCall(h)
    PROVE  LockOf(h)'
<1>1. LockOf(h)
  BY DEF LockInv
<1>2. (InCall(h)' <=> InCall(h)) /\ (TellsStage(h)' <=> TellsStage(h))
  BY DEF InCall, Telling, TellsStage
<1>3. CASE lock' = lock /\ stage' = stage
  BY <1>1, <1>2, <1>3 DEF LockOf, Scripts
<1>4. CASE ~InCall(h)
  <2>1. ~TellsStage(h) /\ script'[h] = <<>>
    BY <1>1, <1>4 DEF LockOf, TellsStage, InCall
  <2> QED BY <1>2, <1>4, <2>1, NoScript DEF LockOf, Scripts
<1> QED BY <1>3, <1>4

\* Only one goroutine is in an FSM call.
LEMMA InCallAlone ==
    ASSUME TypeInv, LockInv, NEW g \in Notifiers, NEW h \in Notifiers, InCall(g), InCall(h)
    PROVE  g = h
BY DEF LockInv, LockOf

LEMMA LockStep == TypeInv /\ LockInv /\ [Next]_vars => LockInv'
<1> SUFFICES ASSUME TypeInv, LockInv, [Next]_vars PROVE LockInv'
  OBVIOUS
<1>0. /\ pc \in [Notifiers -> Pcs] /\ change \in [Notifiers -> Changes] /\ stage \in Stages
      /\ script \in [Notifiers -> ScriptType] /\ \A g \in Notifiers : LockOf(g)
  BY DEF TypeInv, FsmType, ScriptType, LockInv
<1>1. ASSUME NEW g \in Notifiers, FsmEnter(g) PROVE LockInv'
  <2>1. /\ pc'[g] = "next" /\ script'[g] = Script(g, stage) /\ lock' = g /\ lock = None /\ stage' = stage
        /\ \A h \in Notifiers : h # g => pc'[h] = pc[h] /\ change'[h] = change[h] /\ script'[h] = script[h]
    BY <1>0, <1>1 DEF FsmEnter, round
  <2>2. LockOf(g)'
    BY <1>0, <2>1, ScriptEntered DEF LockOf, InCall, TellsStage, Telling, Scripts
  <2>3. \A h \in Notifiers : ~InCall(h)
    BY <1>0, <2>1, Constants DEF LockOf
  <2> QED BY <2>1, <2>2, <2>3, LockOther DEF LockInv
<1>2. CASE Handled
  <2>1. /\ pc'[Mux] = "copy" /\ change'[Mux] = NoChange /\ UNCHANGED fsm /\ pc[Mux] = "idle"
        /\ \A h \in Notifiers : h # Mux => pc'[h] = pc[h] /\ change'[h] = change[h]
    BY <1>0, <1>2, Constants DEF Handled
  <2>2. ~InCall(Mux) /\ script[Mux] = <<>>
    BY <1>0, <2>1, Constants DEF LockOf, InCall, Telling
  <2>3. LockOf(Mux)'
    BY <2>1, <2>2, NoScript DEF LockOf, InCall, TellsStage, Telling, NoChange, fsm, Scripts
  <2> QED BY <2>1, <2>3, LockOther DEF LockInv, fsm
<1>3. ASSUME NEW g \in Notifiers, SetStage(g) PROVE LockInv'
  <2>1. /\ pc'[g] = "copy" /\ change'[g] = [kind |-> "stage", prev |-> stage, curr |-> stage'] /\ lock' = lock
        /\ script'[g] = Tail(script[g]) /\ stage' = Head(script[g]) /\ script[g] # <<>>
        /\ Head(script[g]) # "tearDown" /\ pc[g] = "next"
        /\ \A h \in Notifiers : h # g => pc'[h] = pc[h] /\ change'[h] = change[h] /\ script'[h] = script[h]
    BY <1>0, <1>3 DEF SetStage
  <2>2. InCall(g) /\ lock = g /\ script[g] \in Scripts(stage)
    BY <1>0, <2>1 DEF InCall, LockOf
  <2>3. Tail(script[g]) \in Scripts(Head(script[g]))
    BY <1>0, <2>1, <2>2, ScriptSteps
  <2>4. change'[g].kind = "stage" /\ change'[g].curr = stage'
    BY <2>1
  <2>5. script'[g] \in Scripts(stage)'
    BY <2>1, <2>3 DEF Scripts
  <2>6. LockOf(g)'
    BY <2>1, <2>2, <2>4, <2>5 DEF LockOf, InCall, TellsStage, Telling
  <2>7. \A h \in Notifiers : h # g => ~InCall(h)
    BY <2>2, InCallAlone
  <2> QED BY <2>1, <2>6, <2>7, LockOther DEF LockInv
<1>4. ASSUME NEW g \in Notifiers, SetState(g) PROVE LockInv'
  <2>1. /\ pc[g] = "state" /\ UNCHANGED <<stage, lock, script>>
        /\ pc'[g] = "next" \/ (pc'[g] = "copy" /\ change'[g].kind = "state")
        /\ \A h \in Notifiers : h # g => pc'[h] = pc[h] /\ change'[h] = change[h]
    BY <1>0, <1>4 DEF SetState
  <2>2. LockOf(g)'
    BY <1>0, <2>1 DEF LockOf, InCall, TellsStage, Telling, Scripts
  <2> QED BY <2>1, <2>2, LockOther DEF LockInv
<1>5. ASSUME NEW g \in Notifiers, TearDown(g) PROVE LockInv'
  <2>1. /\ pc[g] = "next" /\ UNCHANGED <<stage, lock, pc, change>> /\ script'[g] = Tail(script[g])
        /\ script[g] # <<>> /\ Head(script[g]) = "tearDown"
        /\ \A h \in Notifiers : h # g => script'[h] = script[h]
    BY <1>0, <1>5 DEF TearDown, round
  <2>2. Tail(script[g]) \in Scripts(stage)
    BY <1>0, <2>1, ScriptSteps DEF LockOf
  <2>3. LockOf(g)'
    BY <1>0, <2>1, <2>2 DEF LockOf, InCall, TellsStage, Telling, Scripts
  <2> QED BY <2>1, <2>3, LockOther DEF LockInv
<1>6. ASSUME NEW g \in Notifiers, FsmReturn(g) PROVE LockInv'
  <2>1. /\ pc[g] = "next" /\ pc'[g] = "idle" /\ UNCHANGED <<stage, script, change>> /\ script[g] = <<>>
        /\ \A h \in Notifiers : h # g => pc'[h] = pc[h]
    BY <1>0, <1>6 DEF FsmReturn, round
  <2>2. LockOf(g)'
    BY <2>1, NoScript DEF LockOf, InCall, TellsStage, Telling, Scripts
  <2>3. \A h \in Notifiers : h # g => ~InCall(h)
    <3>1. InCall(g)
      BY <2>1 DEF InCall
    <3> QED BY <3>1, InCallAlone
  <2> QED BY <2>1, <2>2, <2>3, LockOther DEF LockInv
<1>7. ASSUME NEW g \in Notifiers, CopyCallbacks(g) \/ Called(g) PROVE LockInv'
  <2>1. /\ Telling(g) /\ Telling(g)' /\ pc'[g] \in {"call", "send"} /\ pc[g] \in {"copy", "call"}
        /\ UNCHANGED <<fsm, change>> /\ \A h \in Notifiers : h # g => pc'[h] = pc[h]
    BY <1>0, <1>7 DEF CopyCallbacks, Called, Telling
  <2>2. LockOf(g)'
    BY <1>0, <2>1 DEF LockOf, InCall, TellsStage, fsm, Scripts
  <2> QED BY <2>1, <2>2, LockOther DEF LockInv, fsm
<1>8. ASSUME NEW g \in Notifiers, Told(g) PROVE LockInv'
  <2>1. /\ pc[g] = "send" /\ UNCHANGED fsm
        /\ change[g].kind # "comp" => pc'[g] \in {"state", "next"}
        /\ change[g].kind = "comp" => pc'[g] = "idle"
        /\ \A h \in Notifiers : h # g => pc'[h] = pc[h] /\ change'[h] = change[h]
    <3>1. change[g].kind \in {"stage", "state", "comp"}
      BY <1>0 DEF Changes, NoChange
    <3> QED BY <1>0, <1>8, <3>1 DEF Told
  <2>2. LockOf(g)'
    BY <1>0, <2>1 DEF LockOf, InCall, TellsStage, Telling, fsm, Scripts
  <2> QED BY <2>1, <2>2, LockOther DEF LockInv, fsm
<1>9. CASE UNCHANGED <<fsm, pc, change>>
  BY <1>9, LockOther DEF LockInv, fsm
<1> QED BY <1>1, <1>2, <1>3, <1>4, <1>5, <1>6, <1>7, <1>8, <1>9
        DEF Next, vars, fsm, round, NotifierStep, Send, Call, Deadline, LateReturn, RegisterCheck, Register,
            WriteSubscribers, Receive

----------------------------------------------------------------------------
(* The first callback to remove itself *)

LEMMA ShiftInit == Init => ShiftInv
<1> SUFFICES ASSUME Init PROVE ShiftInv
  OBVIOUS
<1>1. Len(callbacks) = 1 /\ callbacks[1] = Fw
  BY DEF Init
<1> QED BY <1>1 DEF Init, ShiftInv, Live

\* Whoever tells of Stopping, while no index has changed, is the shutdown's goroutine.
LEMMA TellsStopping ==
    ASSUME TypeInv, LockInv, ShiftInv, ~shifted, NEW g \in Notifiers, pc[g] = "call",
           change[g].curr = "Stopping"
    PROVE  stage = "Stopping" /\ BeforeFw(g)
<1>1. change[g].kind = "stage"
  BY StageChange DEF TypeInv, FsmType, Stages
<1>2. TellsStage(g) /\ InCall(g)
  BY <1>1 DEF TellsStage, InCall, Telling
<1>3. stage = "Stopping"
  BY <1>2 DEF LockInv, LockOf
<1>4. PICK h \in Notifiers : BeforeFw(h)
  BY <1>3 DEF ShiftInv
<1>5. InCall(h)
  BY <1>4 DEF BeforeFw, TellsStage, InCall
<1>6. h = g
  BY <1>2, <1>5, InCallAlone
<1> QED BY <1>3, <1>4, <1>6

\* A goroutine that has the index of a callback has it right.
LEMMA IndexIsRight ==
    ASSUME TypeInv, NEW g \in Notifiers, BeforeFw(g), pc[g] = "call", idx[g] <= Len(funcs[g])
    PROVE  /\ idx[g] \in 1..Len(funcs[g]) /\ idx[g] <= Len(callbacks) /\ idx[g] \in Nat \ {0}
           /\ callbacks[idx[g]] = funcs[g][idx[g]]
<1>1. /\ idx[g] \in Nat /\ 1 <= idx[g] /\ Len(funcs[g]) \in Nat /\ Len(callbacks) \in Nat
  BY Lengths DEF TypeInv, RoundType, CallbackType
<1>2. Len(funcs[g]) <= Len(callbacks) /\ \A k \in 1..Len(funcs[g]) : callbacks[k] = funcs[g][k]
  BY DEF BeforeFw
<1>3. idx[g] \in 1..Len(funcs[g])
  BY <1>1
<1>4. \A p, q, r \in Nat : p <= q /\ q <= r => p <= r
  OBVIOUS
<1> QED BY <1>1, <1>2, <1>3, <1>4

\* Nothing that ShiftInv is about has changed, apart from notifiers.
LEMMA ShiftKeeps ==
    ASSUME ShiftInv, ~shifted, UNCHANGED <<stage, callbacks, late>>,
           \A g \in Notifiers : stage = "Stopping" /\ BeforeFw(g) => BeforeFw(g)'
    PROVE  ShiftInv'
BY DEF ShiftInv, Live

LEMMA BeforeFwKeeps ==
    ASSUME NEW g \in Notifiers, BeforeFw(g), UNCHANGED callbacks,
           pc'[g] = pc[g] /\ change'[g] = change[g] /\ funcs'[g] = funcs[g] /\ idx'[g] = idx[g]
    PROVE  BeforeFw(g)'
BY DEF BeforeFw, TellsStage, Telling

\* The loop goes on to the callback behind one that is not Fw.
LEMMA BeforeFwNext ==
    ASSUME TypeInv, NEW g \in Notifiers, BeforeFw(g), UNCHANGED <<callbacks, pc, change, funcs>>, pc[g] = "call",
           idx[g] <= Len(funcs[g]), funcs[g][idx[g]] # Fw, idx'[g] = idx[g] + 1
    PROVE  BeforeFw(g)'
<1>1. PICK k \in 1..Len(funcs[g]) : funcs[g][k] = Fw /\ idx[g] <= k
  BY DEF BeforeFw
<1>2. k # idx[g] /\ idx[g] \in Nat /\ Len(funcs[g]) \in Nat
  BY <1>1, Lengths DEF TypeInv, RoundType
<1>3. idx[g] + 1 <= k
  BY <1>1, <1>2
<1> QED BY <1>1, <1>3 DEF BeforeFw, TellsStage, Telling

LEMMA ShiftStep == TypeInv /\ LockInv /\ ShiftInv /\ [Next]_vars => ShiftInv'
<1> SUFFICES ASSUME TypeInv, LockInv, ShiftInv, [Next]_vars, ~shifted' PROVE ShiftInv'
  BY DEF ShiftInv
<1>0. /\ pc \in [Notifiers -> Pcs] /\ change \in [Notifiers -> Changes] /\ stage \in Stages
      /\ funcs \in [Notifiers -> Seq(Callbacks)] /\ idx \in [Notifiers -> Nat]
      /\ callbacks \in Seq(Callbacks) /\ Len(callbacks) \in Nat
      /\ \A g \in Notifiers : LockOf(g)
  BY Lengths DEF TypeInv, FsmType, RoundType, CallbackType, LockInv
<1>1. CASE UNCHANGED <<stage, callbacks, late, shifted, pc, change, calls>>
  BY <1>1, ShiftKeeps, BeforeFwKeeps DEF calls
<1>2. ASSUME NEW g \in Notifiers, FsmEnter(g) \/ FsmReturn(g) \/ SetState(g) \/ Told(g) PROVE ShiftInv'
  <2>1. /\ UNCHANGED <<stage, callbacks, late, shifted>> /\ pc[g] \notin {"copy", "call"}
        /\ \A h \in Notifiers : h # g => /\ pc'[h] = pc[h] /\ change'[h] = change[h]
                                         /\ funcs'[h] = funcs[h] /\ idx'[h] = idx[h]
    BY <1>0, <1>2 DEF FsmEnter, FsmReturn, SetState, Told, hist, round, calls, fsm
  <2>2. ~BeforeFw(g)
    BY <2>1 DEF BeforeFw, TellsStage, Telling
  <2> QED BY <2>1, <2>2, ShiftKeeps, BeforeFwKeeps
<1>3. CASE Handled
  <2>1. /\ UNCHANGED <<stage, callbacks, late, shifted, calls>> /\ pc[Mux] = "idle"
        /\ \A h \in Notifiers : h # Mux => pc'[h] = pc[h] /\ change'[h] = change[h]
    BY <1>0, <1>3, Constants DEF Handled, hist, fsm
  <2>2. ~BeforeFw(Mux)
    BY <2>1 DEF BeforeFw, TellsStage, Telling
  <2> QED BY <2>1, <2>2, ShiftKeeps, BeforeFwKeeps DEF calls
<1>4. ASSUME NEW g \in Notifiers, SetStage(g) PROVE ShiftInv'
  <2>1. /\ pc[g] = "next" /\ pc'[g] = "copy" /\ change'[g].kind = "stage" /\ stage' = Head(script[g])
        /\ script[g] # <<>> /\ UNCHANGED <<callbacks, late, shifted>>
    BY <1>0, <1>4 DEF SetStage, hist
  <2>2. stage \in Live
    <3>1. InCall(g) /\ ~BeforeFw(g)
      BY <2>1 DEF InCall, BeforeFw, TellsStage, Telling
    <3>2. \A h \in Notifiers : BeforeFw(h) => InCall(h)
      BY DEF BeforeFw, TellsStage, InCall
    <3>3. \A h \in Notifiers : ~BeforeFw(h)
      BY <3>1, <3>2, InCallAlone
    <3> QED BY <2>1, <3>3 DEF ShiftInv
  <2>3. stage' \in Live \union {"Stopping"}
    BY <1>0, <2>1, <2>2, ScriptSteps DEF LockOf
  <2>4. late = {} /\ \E k \in 1..Len(callbacks) : callbacks[k] = Fw
    BY <2>1, <2>2 DEF ShiftInv
  <2>5. BeforeFw(g)'
    BY <2>1 DEF BeforeFw, TellsStage, Telling
  <2> QED BY <2>1, <2>3, <2>4, <2>5 DEF ShiftInv, Live
<1>5. ASSUME NEW g \in Notifiers, TearDown(g) PROVE ShiftInv'
  <2>1. script[g] # <<>> /\ Head(script[g]) = "tearDown" /\ shifted' = shifted
    BY <1>5 DEF TearDown, hist
  <2>2. stage = "Stopped"
    BY <1>0, <2>1, ScriptSteps DEF LockOf
  <2> QED BY <2>1, <2>2 DEF ShiftInv, Live
<1>6. ASSUME NEW g \in Notifiers, CopyCallbacks(g) PROVE ShiftInv'
  <2>1. /\ UNCHANGED <<stage, callbacks, late, shifted, change>> /\ pc[g] = "copy"
        /\ pc'[g] = "call" /\ funcs'[g] = callbacks /\ idx'[g] = 1
        /\ \A h \in Notifiers : h # g => pc'[h] = pc[h] /\ funcs'[h] = funcs[h] /\ idx'[h] = idx[h]
    BY <1>0, <1>6 DEF CopyCallbacks, hist, fsm
  <2>2. ASSUME BeforeFw(g) PROVE BeforeFw(g)'
    <3>1. PICK k \in 1..Len(callbacks) : callbacks[k] = Fw
      BY <2>1 DEF ShiftInv
    <3>2. 1 <= k
      BY <1>0
    <3>3. TellsStage(g)'
      BY <2>1, <2>2 DEF BeforeFw, TellsStage, Telling
    <3>4. Len(callbacks) <= Len(callbacks)
      BY <1>0
    <3> QED BY <2>1, <3>1, <3>2, <3>3, <3>4 DEF BeforeFw
  <2> QED BY <2>1, <2>2, ShiftKeeps, BeforeFwKeeps
<1>7. ASSUME NEW g \in Notifiers, Called(g) PROVE ShiftInv'
  <2>1. /\ UNCHANGED <<stage, callbacks, late, shifted, change, calls>> /\ pc[g] = "call" /\ idx[g] > Len(funcs[g])
        /\ \A h \in Notifiers : h # g => pc'[h] = pc[h]
    BY <1>0, <1>7 DEF Called, hist, fsm
  <2>2. ~BeforeFw(g)
    <3>1. Len(funcs[g]) \in Nat /\ idx[g] \in Nat
      BY <1>0, Lengths
    <3>2. \A k \in 1..Len(funcs[g]) : ~(idx[g] <= k)
      BY <2>1, <3>1
    <3> QED BY <2>1, <3>2 DEF BeforeFw
  <2> QED BY <2>1, <2>2, ShiftKeeps, BeforeFwKeeps DEF calls
<1>8. ASSUME NEW g \in Notifiers, Call(g) PROVE ShiftInv'
  <2> DEFINE cb == funcs[g][idx[g]]
  <2>1. /\ UNCHANGED <<stage, late, pc, change, funcs>> /\ pc[g] = "call" /\ idx[g] <= Len(funcs[g])
        /\ idx'[g] = idx[g] + 1 /\ \A h \in Notifiers : h # g => idx'[h] = idx[h]
    <3>1. idx \in [Notifiers -> Nat] /\ idx' = [idx EXCEPT ![g] = @ + 1]
      BY <1>0, <1>8 DEF Call
    <3>2. idx'[g] = idx[g] + 1 /\ \A h \in Notifiers : h # g => idx'[h] = idx[h]
      BY <3>1
    <3> QED BY <1>8, <3>2 DEF Call, fsm
  <2>2. /\ UNCHANGED <<callbacks, shifted>>
        /\ Removes(cb, change[g].curr) => ~(idx[g] <= Len(callbacks))
    BY <1>8 DEF Call, Callee, RemoveCallback
  <2>3. ASSUME stage = "Stopping", BeforeFw(g) PROVE BeforeFw(g)'
    <3>1. idx[g] <= Len(callbacks)
      BY <2>1, <2>3, IndexIsRight
    <3>2. change[g].curr = "Stopping"
      BY <1>0, <2>3 DEF BeforeFw, LockOf
    <3>3. cb # Fw
      BY <2>2, <3>1, <3>2 DEF Removes
    <3> QED BY <2>1, <2>2, <2>3, <3>3, BeforeFwNext
  <2> QED BY <2>1, <2>2, <2>3, ShiftKeeps, BeforeFwKeeps
<1>9. ASSUME NEW g \in Notifiers, Deadline(g) PROVE ShiftInv'
  <2> DEFINE cb == funcs[g][idx[g]]
  <2>1. /\ UNCHANGED <<stage, callbacks, shifted, pc, change, funcs>> /\ pc[g] = "call"
        /\ idx[g] <= Len(funcs[g]) /\ cb \in Slow
        /\ idx'[g] = idx[g] + 1 /\ \A h \in Notifiers : h # g => idx'[h] = idx[h]
    <3>1. idx \in [Notifiers -> Nat] /\ idx' = [idx EXCEPT ![g] = @ + 1]
      BY <1>0, <1>9 DEF Deadline
    <3>2. idx'[g] = idx[g] + 1 /\ \A h \in Notifiers : h # g => idx'[h] = idx[h]
      BY <3>1
    <3> QED BY <1>9, <3>2 DEF Deadline, fsm, hist
  <2>2. ASSUME BeforeFw(g) PROVE BeforeFw(g)'
    BY <2>1, <2>2, BeforeFwNext, Constants
  <2>3. \A h \in Notifiers : BeforeFw(h) => BeforeFw(h)'
    BY <2>1, <2>2, BeforeFwKeeps
  <2>4. CASE late' = late
    BY <2>1, <2>3, <2>4, ShiftKeeps
  <2>5. CASE late' = late \union {[cb |-> cb, i |-> idx[g]]} /\ Removes(cb, change[g].curr)
    <3>1. stage = "Stopping" /\ BeforeFw(g)
      BY <2>1, <2>5, TellsStopping DEF Removes
    <3>2. idx[g] <= Len(callbacks) /\ callbacks[idx[g]] = cb
      BY <2>1, <3>1, IndexIsRight
    <3>3. \A l \in late' : l.i <= Len(callbacks) /\ callbacks[l.i] = l.cb
      BY <2>1, <2>5, <3>2 DEF ShiftInv
    <3> QED BY <2>1, <2>3, <3>1, <3>3 DEF ShiftInv, Live
  <2> QED BY <1>9, <2>4, <2>5 DEF Deadline
<1>10. ASSUME NEW l \in late, LateReturn(l) PROVE ShiftInv'
  <2>1. RemoveCallback(l.cb, l.i)
    BY <1>10 DEF LateReturn
  <2>2. ~shifted /\ ~(l.i <= Len(callbacks))
    BY <2>1 DEF RemoveCallback
  <2> QED BY <2>2 DEF ShiftInv
<1>11. ASSUME NEW r \in reg, Register(r) PROVE ShiftInv'
  <2>1. /\ UNCHANGED <<stage, late, pc, change, calls>> /\ ~shifted /\ (r.head => stage \in Live)
        /\ r.cb \in Callbacks
    BY <1>11, Constants DEF Register, fsm, round, TypeInv, CallbackType
  <2>2. PICK k \in 1..Len(callbacks) : callbacks[k] = Fw
    BY <2>1 DEF ShiftInv
  <2>3. CASE r.head
    <3>1. callbacks' = <<r.cb>> \o callbacks /\ <<r.cb>> \in Seq(Callbacks) /\ Len(<<r.cb>>) = 1
      BY <1>11, <2>1, <2>3 DEF Register
    <3>2. /\ Len(callbacks') = 1 + Len(callbacks)
          /\ \A m \in 1..(1 + Len(callbacks)) :
                callbacks'[m] = IF m <= 1 THEN <<r.cb>>[m] ELSE callbacks[m - 1]
      BY <1>0, <3>1, ConcatProperties
    <3>3. k+1 \in 1..(1 + Len(callbacks)) /\ ~(k+1 <= 1) /\ (k+1) - 1 = k
      BY <1>0
    <3>4. callbacks'[k+1] = Fw /\ k+1 \in 1..Len(callbacks')
      BY <2>2, <3>2, <3>3
    <3>5. stage \in Live /\ late = {}
      BY <2>1, <2>3 DEF ShiftInv
    <3>6. stage' # "Stopping"
      BY <2>1, <3>5 DEF Live
    <3> QED BY <2>1, <3>4, <3>5, <3>6 DEF ShiftInv, Live
  <2>4. CASE ~r.head
    <3>1. callbacks' = Append(callbacks, r.cb)
      BY <1>11, <2>4 DEF Register
    <3>2. Len(callbacks') = Len(callbacks) + 1 /\ \A m \in 1..Len(callbacks) : callbacks'[m] = callbacks[m]
      BY <1>0, <2>1, <3>1, AppendProperties
    <3>3. /\ \A m \in Nat : m <= Len(callbacks) => m <= Len(callbacks')
          /\ \A m \in 1..Len(callbacks) : m \in 1..Len(callbacks')
      BY <1>0, <3>2
    <3>4. \A l \in late' : l.i <= Len(callbacks') /\ callbacks'[l.i] = l.cb
      <4> SUFFICES ASSUME NEW l \in late PROVE l.i <= Len(callbacks') /\ callbacks'[l.i] = l.cb
        BY <2>1
      <4>1. l.i \in Nat /\ l.i # 0 /\ l.i <= Len(callbacks) /\ callbacks[l.i] = l.cb
        BY <2>1 DEF ShiftInv, TypeInv, CallbackType
      <4>2. l.i \in 1..Len(callbacks)
        BY <1>0, <4>1
      <4> QED BY <3>2, <3>3, <4>1, <4>2
    <3>5. \A g \in Notifiers : BeforeFw(g) => BeforeFw(g)'
      <4> SUFFICES ASSUME NEW g \in Notifiers, BeforeFw(g) PROVE BeforeFw(g)'
        OBVIOUS
      <4>1. Len(funcs[g]) \in Nat
        BY <1>0, Lengths
      <4>2. Len(funcs[g]) <= Len(callbacks) => \A m \in 1..Len(funcs[g]) : m \in 1..Len(callbacks)
        BY <1>0, <4>1
      <4> QED BY <2>1, <3>2, <3>3, <4>1, <4>2 DEF BeforeFw, TellsStage, Telling, calls
    <3>6. callbacks'[k] = Fw /\ k \in 1..Len(callbacks')
      BY <2>2, <3>2, <3>3
    <3> QED BY <2>1, <3>4, <3>5, <3>6 DEF ShiftInv, Live
  <2> QED BY <2>3, <2>4
<1> QED BY <1>1, <1>2, <1>3, <1>4, <1>5, <1>6, <1>7, <1>8, <1>9, <1>10, <1>11
        DEF Next, vars, fsm, round, hist, calls, NotifierStep, Send, RegisterCheck, WriteSubscribers, Receive

\* Until an index has changed, a callback that removes itself gives its own index.
LEMMA OwnIndex ==
    ASSUME TypeInv, LockInv, ShiftInv, [Next]_vars, removed' # removed, ~shifted
    PROVE  removed'.gone = removed'.cb
<1>1. ASSUME NEW g \in Notifiers, Call(g) PROVE removed'.gone = removed'.cb
  <2> DEFINE cb == funcs[g][idx[g]]
  <2>1. /\ pc[g] = "call" /\ idx[g] <= Len(funcs[g])
        /\ Removes(cb, change[g].curr) /\ removed' = [cb |-> cb, gone |-> callbacks[idx[g]]]
    BY <1>1 DEF Call, Callee, RemoveCallback
  <2>2. BeforeFw(g)
    BY <2>1, TellsStopping DEF Removes
  <2>3. callbacks[idx[g]] = cb
    BY <2>1, <2>2, IndexIsRight
  <2> QED BY <2>1, <2>3
<1>2. ASSUME NEW l \in late, LateReturn(l) PROVE removed'.gone = removed'.cb
  <2>1. removed' = [cb |-> l.cb, gone |-> callbacks[l.i]]
    BY <1>2 DEF LateReturn, RemoveCallback
  <2>2. callbacks[l.i] = l.cb
    BY DEF ShiftInv
  <2> QED BY <2>1, <2>2
<1> QED BY <1>1, <1>2
        DEF Next, vars, hist, NotifierStep, FsmEnter, Handled, SetStage, SetState, TearDown, FsmReturn, CopyCallbacks,
            Called, Send, Told, Deadline, RegisterCheck, Register, WriteSubscribers, Receive

\* The first callback to remove itself by its index, late or in time, removes itself,
\* unless a registration at the head came in between.
THEOREM FirstRemovesItself == Spec => RemovesItself
<1>1. Init => TypeInv /\ LockInv /\ ShiftInv
  <2>1. Init => LockInv
    BY DEF Init, LockInv, LockOf, InCall, TellsStage, Telling, Scripts
  <2> QED BY <2>1, TypeInit, ShiftInit
<1>2. TypeInv /\ LockInv /\ ShiftInv /\ [Next]_vars => (TypeInv /\ LockInv /\ ShiftInv)'
  BY TypeStep, LockStep, ShiftStep
<1>3. TypeInv /\ LockInv /\ ShiftInv /\ [Next]_vars
        => [removed' # removed /\ ~shifted => removed'.gone = removed'.cb]_vars
  BY OwnIndex
<1> QED BY <1>1, <1>2, <1>3, PTL DEF Spec, RemovesItself

----------------------------------------------------------------------------
(* What subscribers are told *)

LEMMA SentKeeps ==
    ASSUME NEW s \in Subs, ReceivedOf(s), ch'[s] = ch[s], seen'[s] = seen[s]
    PROVE  Sent(s)' = Sent(s) /\ ReceivedOf(s)'
BY DEF Sent, ReceivedOf

\* Steps that leave a subscriber to be told what it was to be told.
LEMMA ChainKeeps ==
    ASSUME NEW s \in Subs, ChainInv, Sent(s)' = Sent(s), ReceivedOf(s)', stage' = stage,
           s \in subscribers' => s \in subscribers,
           \A g \in Notifiers : ToTell(g, s)' => ToTell(g, s) /\ change'[g] = change[g],
           \A g \in Notifiers : s \in subscribers' /\ ToTell(g, s) => ToTell(g, s)'
    PROVE  ChainOf(s)'
<1>1. ChainOf(s)
  BY DEF ChainInv
<1>2. \A g \in Notifiers : ToTell(g, s)' => Sent(s)' \in {"none", change'[g].prev}
  BY <1>1 DEF ChainOf
<1>3. s \in subscribers' /\ (\A g \in Notifiers : ~ToTell(g, s)') => Sent(s)' \in {"none", stage'}
  BY <1>1 DEF ChainOf
<1> QED BY <1>2, <1>3 DEF ChainOf

LEMMA ToldAlone ==
    ASSUME TypeInv, LockInv, NEW g \in Notifiers, NEW h \in Notifiers, InCall(g), TellsStage(h)
    PROVE  g = h
BY InCallAlone DEF TellsStage, InCall

LEMMA ChainSetStage ==
    ASSUME TypeInv, LockInv, ChainInv, NEW g \in Notifiers, SetStage(g), NEW s \in Subs
    PROVE  ChainOf(s)'
<1>0. pc \in [Notifiers -> Pcs] /\ change \in [Notifiers -> Changes]
  BY DEF TypeInv, FsmType
<1>1. /\ pc[g] = "next" /\ pc'[g] = "copy" /\ UNCHANGED <<subscribers, unsent, ch, seen>>
      /\ change'[g].kind = "stage" /\ change'[g].prev = stage
      /\ \A h \in Notifiers : h # g => pc'[h] = pc[h] /\ change'[h] = change[h]
  BY <1>0 DEF SetStage
<1>2. \A h \in Notifiers : ~TellsStage(h)
  <2>1. InCall(g) /\ ~TellsStage(g)
    BY <1>1 DEF InCall, TellsStage, Telling
  <2> QED BY <2>1, ToldAlone
<1>3. \A h \in Notifiers : h # g => ~TellsStage(h)'
  BY <1>1, <1>2 DEF TellsStage, Telling
<1>4. ChainOf(s) /\ \A h \in Notifiers : ~ToTell(h, s)
  BY <1>2 DEF ChainInv, ToTell
<1>5. Sent(s)' = Sent(s) /\ ReceivedOf(s)'
  BY <1>1, <1>4, SentKeeps DEF ChainOf
<1>6. TellsStage(g)' /\ (ToTell(g, s)' <=> s \in subscribers)
  BY <1>1 DEF TellsStage, Telling, ToTell
<1>7. \A h \in Notifiers : ToTell(h, s)' => h = g /\ s \in subscribers
  BY <1>3, <1>6 DEF ToTell
<1>8. s \in subscribers => Sent(s) \in {"none", stage}
  BY <1>4 DEF ChainOf
<1>9. \A h \in Notifiers : ToTell(h, s)' => Sent(s)' \in {"none", change'[h].prev}
  BY <1>1, <1>5, <1>7, <1>8
<1>10. s \in subscribers' => ToTell(g, s)'
  BY <1>1, <1>6
<1> QED BY <1>5, <1>9, <1>10 DEF ChainOf

LEMMA ChainSend ==
    ASSUME TypeInv, LockInv, ChainInv, NEW g \in Notifiers, NEW u \in Subs, Send(g, u), NEW s \in Subs
    PROVE  ChainOf(s)'
<1>0. unsent \in [Notifiers -> SUBSET Subs] /\ ch \in [Subs -> Seq(Changes)] /\ change[g] \in Changes
  BY DEF TypeInv, FsmType, SubscriberType
<1>1. /\ pc[g] = "send" /\ u \in unsent[g] /\ ch[u] = <<>> /\ UNCHANGED <<stage, subscribers, pc, change, seen>>
      /\ unsent'[g] = unsent[g] \ {u} /\ ch'[u] = Append(ch[u], change[g])
      /\ \A v \in Subs : v # u => ch'[v] = ch[v]
      /\ \A h \in Notifiers : h # g => unsent'[h] = unsent[h]
  BY <1>0, Channel DEF Send, fsm
<1>2. ch'[u] = <<change[g]>> /\ ch'[u] # <<>> /\ ch'[u][1] = change[g]
  BY <1>0, <1>1
<1>3. \A h \in Notifiers : TellsStage(h)' <=> TellsStage(h)
  BY <1>1 DEF TellsStage, Telling
<1>4. ChainOf(s)
  BY DEF ChainInv
<1>5. CASE s # u
  <2>1. \A h \in Notifiers : ToTell(h, s)' <=> ToTell(h, s)
    BY <1>1, <1>3, <1>5 DEF ToTell
  <2>2. Sent(s)' = Sent(s) /\ ReceivedOf(s)'
    BY <1>1, <1>4, <1>5, SentKeeps DEF ChainOf
  <2> QED BY <1>1, <2>1, <2>2, ChainKeeps
<1>6. CASE s = u /\ change[g].kind # "stage"
  <2>1. Sent(s)' = Sent(s) /\ ReceivedOf(s)'
    BY <1>1, <1>2, <1>6 DEF Sent, ReceivedOf
  <2>2. ~TellsStage(g)
    BY <1>6 DEF TellsStage
  <2>3. \A h \in Notifiers : ToTell(h, s)' <=> ToTell(h, s)
    BY <1>1, <1>3, <2>2 DEF ToTell
  <2> QED BY <1>1, <2>1, <2>3, ChainKeeps
<1>7. CASE s = u /\ change[g].kind = "stage"
  <2>1. TellsStage(g) /\ InCall(g) /\ ToTell(g, s)
    BY <1>1, <1>7 DEF TellsStage, Telling, InCall, ToTell
  <2>2. Sent(s) = seen[s] /\ seen[s] \in {"none", change[g].prev}
    BY <1>1, <1>4, <1>7, <2>1 DEF Sent, ChainOf
  <2>3. ReceivedOf(s)'
    BY <1>1, <1>2, <1>7, <2>2 DEF ReceivedOf
  <2>4. Sent(s)' = stage'
    <3>1. change[g].curr = stage
      BY <2>1 DEF LockInv, LockOf
    <3> QED BY <1>1, <1>2, <1>7, <3>1 DEF Sent
  <2>5. \A h \in Notifiers : ~ToTell(h, s)'
    <3>1. \A h \in Notifiers : TellsStage(h)' => h = g
      BY <1>3, <2>1, ToldAlone
    <3>2. ~ToTell(g, s)'
      BY <1>1, <1>7 DEF ToTell
    <3> QED BY <3>1, <3>2 DEF ToTell
  <2> QED BY <2>3, <2>4, <2>5 DEF ChainOf
<1> QED BY <1>5, <1>6, <1>7

LEMMA ChainWrite ==
    ASSUME TypeInv, ChainInv, NEW u \in Subs, WriteSubscribers(u), NEW s \in Subs
    PROVE  ChainOf(s)'
<1>0. /\ unsent \in [Notifiers -> SUBSET Subs] /\ ch \in [Subs -> Seq(Changes)]
      /\ seen \in [Subs -> Stages \union {"none"}] /\ ChainOf(s) /\ UNCHANGED <<stage, pc, change>>
  BY DEF TypeInv, SubscriberType, WriteSubscribers, ChainInv, fsm
<1>1. \A h \in Notifiers : TellsStage(h)' <=> TellsStage(h)
  BY <1>0 DEF TellsStage, Telling
<1>2. CASE Subscribe(u)
  <2>1. /\ subscribers' = subscribers \union {u} /\ ch'[u] = <<>> /\ seen'[u] = "none"
        /\ \A v \in Subs : v # u => ch'[v] = ch[v] /\ seen'[v] = seen[v]
        /\ \A h \in Notifiers : unsent'[h] = unsent[h] \/ unsent'[h] = unsent[h] \union {u}
    BY <1>0, <1>2 DEF Subscribe
  <2>2. CASE s = u
    <3>1. Sent(s)' = "none" /\ ReceivedOf(s)'
      BY <2>1, <2>2 DEF Sent, ReceivedOf
    <3> QED BY <3>1 DEF ChainOf
  <2>3. CASE s # u
    <3>1. \A h \in Notifiers : ToTell(h, s)' <=> ToTell(h, s)
      BY <1>0, <1>1, <2>1, <2>3 DEF ToTell
    <3>2. Sent(s)' = Sent(s) /\ ReceivedOf(s)'
      BY <1>0, <2>1, <2>3, SentKeeps DEF ChainOf
    <3>3. s \in subscribers' => s \in subscribers
      BY <2>1, <2>3
    <3> QED BY <1>0, <3>1, <3>2, <3>3, ChainKeeps
  <2> QED BY <2>2, <2>3
<1>3. CASE Unsubscribe(u)
  <2>1. /\ subscribers' = subscribers \ {u} /\ UNCHANGED <<ch, seen>>
        /\ \A h \in Notifiers : unsent'[h] = unsent[h] \/ unsent'[h] = unsent[h] \ {u}
    BY <1>0, <1>3 DEF Unsubscribe
  <2>2. Sent(s)' = Sent(s) /\ ReceivedOf(s)'
    BY <1>0, <2>1, SentKeeps DEF ChainOf
  <2>3. \A h \in Notifiers : ToTell(h, s)' => ToTell(h, s)
    BY <1>0, <1>1, <2>1 DEF ToTell
  <2>4. \A h \in Notifiers : s \in subscribers' /\ ToTell(h, s) => ToTell(h, s)'
    BY <1>0, <1>1, <2>1 DEF ToTell
  <2> QED BY <1>0, <2>1, <2>2, <2>3, <2>4, ChainKeeps
<1> QED BY <1>2, <1>3 DEF WriteSubscribers

LEMMA ChainReceive ==
    ASSUME TypeInv, ChainInv, NEW u \in Subs, Receive(u), NEW s \in Subs
    PROVE  ChainOf(s)'
<1>0. /\ ch \in [Subs -> Seq(Changes)] /\ seen \in [Subs -> Stages \union {"none"}] /\ ChainOf(s)
      /\ UNCHANGED <<stage, pc, change, subscribers, unsent>>
  BY DEF TypeInv, SubscriberType, Receive, ChainInv, fsm, round
<1>1. /\ ch[u] # <<>> /\ ch'[u] = <<>>
      /\ seen'[u] = IF ch[u][1].kind = "stage" THEN ch[u][1].curr ELSE seen[u]
      /\ \A v \in Subs : v # u => ch'[v] = ch[v] /\ seen'[v] = seen[v]
  BY <1>0, Channel DEF Receive
<1>2. \A h \in Notifiers : ToTell(h, s)' <=> ToTell(h, s)
  BY <1>0 DEF ToTell, TellsStage, Telling
<1>3. Sent(s)' = Sent(s) /\ ReceivedOf(s)'
  <2>1. CASE s = u
    BY <1>1, <2>1 DEF Sent, ReceivedOf
  <2>2. CASE s # u
    BY <1>0, <1>1, <2>2, SentKeeps DEF ChainOf
  <2> QED BY <2>1, <2>2
<1> QED BY <1>0, <1>2, <1>3, ChainKeeps

LEMMA ChainStep == TypeInv /\ LockInv /\ ChainInv /\ [Next]_vars => ChainInv'
<1> SUFFICES ASSUME TypeInv, LockInv, ChainInv, [Next]_vars, NEW s \in Subs PROVE ChainOf(s)'
  BY DEF ChainInv
<1>0. /\ pc \in [Notifiers -> Pcs] /\ change \in [Notifiers -> Changes] /\ unsent \in [Notifiers -> SUBSET Subs]
      /\ ReceivedOf(s)
  BY DEF TypeInv, FsmType, SubscriberType, ChainInv, ChainOf
<1>1. ASSUME UNCHANGED <<stage, ch, seen>>, s \in subscribers' => s \in subscribers,
             \A g \in Notifiers : ToTell(g, s)' => ToTell(g, s) /\ change'[g] = change[g],
             \A g \in Notifiers : s \in subscribers' /\ ToTell(g, s) => ToTell(g, s)'
      PROVE  ChainOf(s)'
  <2>1. Sent(s)' = Sent(s) /\ ReceivedOf(s)'
    BY <1>0, <1>1, SentKeeps
  <2> QED BY <1>1, <2>1, ChainKeeps
<1>2. ASSUME NEW g \in Notifiers, FsmEnter(g) \/ FsmReturn(g) \/ SetState(g) \/ Told(g) PROVE ChainOf(s)'
  <2>1. /\ UNCHANGED <<stage, ch, seen, subscribers, unsent>>
        /\ \A h \in Notifiers : h # g => pc'[h] = pc[h] /\ change'[h] = change[h]
    BY <1>0, <1>2 DEF FsmEnter, FsmReturn, SetState, Told, fsm, round
  <2>2. ~ToTell(g, s) /\ ~ToTell(g, s)'
    <3>1. CASE FsmEnter(g) \/ FsmReturn(g)
      BY <1>0, <3>1 DEF FsmEnter, FsmReturn, ToTell, TellsStage, Telling
    <3>2. CASE SetState(g)
      <4>1. pc[g] = "state" /\ (pc'[g] = "next" \/ change'[g].kind = "state")
        BY <1>0, <3>2 DEF SetState
      <4> QED BY <4>1 DEF ToTell, TellsStage, Telling
    <3>3. CASE Told(g)
      <4>1. pc[g] = "send" /\ unsent[g] = {} /\ pc'[g] \in {"state", "next", "idle"}
        BY <1>0, <3>3 DEF Told
      <4> QED BY <4>1 DEF ToTell, TellsStage, Telling
    <3> QED BY <1>2, <3>1, <3>2, <3>3
  <2>3. \A h \in Notifiers : h # g => (ToTell(h, s)' <=> ToTell(h, s))
    BY <2>1 DEF ToTell, TellsStage, Telling
  <2> QED BY <1>1, <2>1, <2>2, <2>3
<1>3. CASE Handled
  <2>1. /\ UNCHANGED <<stage, ch, seen, subscribers, unsent>> /\ pc[Mux] = "idle" /\ change'[Mux] = NoChange
        /\ \A h \in Notifiers : h # Mux => pc'[h] = pc[h] /\ change'[h] = change[h]
    BY <1>0, <1>3, Constants DEF Handled, fsm
  <2>2. ~ToTell(Mux, s) /\ ~ToTell(Mux, s)'
    BY <2>1 DEF ToTell, TellsStage, Telling, NoChange
  <2>3. \A h \in Notifiers : h # Mux => (ToTell(h, s)' <=> ToTell(h, s))
    BY <2>1 DEF ToTell, TellsStage, Telling
  <2> QED BY <1>1, <2>1, <2>2, <2>3
<1>4. ASSUME NEW g \in Notifiers, TearDown(g) PROVE ChainOf(s)'
  <2>1. UNCHANGED <<stage, ch, seen, pc, change, unsent>> /\ subscribers' = {}
    BY <1>4 DEF TearDown, round
  <2>2. \A h \in Notifiers : ToTell(h, s)' => ToTell(h, s)
    BY <2>1 DEF ToTell, TellsStage, Telling
  <2> QED BY <1>1, <2>1, <2>2
<1>5. ASSUME NEW g \in Notifiers, CopyCallbacks(g) \/ Called(g) PROVE ChainOf(s)'
  <2>1. /\ UNCHANGED <<stage, ch, seen, change, subscribers>>
        /\ \/ pc[g] = "copy" /\ pc'[g] = "call"
           \/ pc[g] = "call" /\ pc'[g] = "send" /\ unsent'[g] = subscribers
        /\ \A h \in Notifiers : h # g => pc'[h] = pc[h] /\ unsent'[h] = unsent[h]
    BY <1>0, <1>5 DEF CopyCallbacks, Called, fsm
  <2>2. \A h \in Notifiers : ToTell(h, s)' <=> ToTell(h, s)
    BY <2>1 DEF ToTell, TellsStage, Telling
  <2> QED BY <1>1, <2>1, <2>2
<1>6. CASE UNCHANGED <<stage, ch, seen, subscribers, unsent, pc, change>>
  <2>1. \A h \in Notifiers : ToTell(h, s)' <=> ToTell(h, s)
    BY <1>6 DEF ToTell, TellsStage, Telling
  <2> QED BY <1>1, <1>6, <2>1
<1> QED BY <1>2, <1>3, <1>4, <1>5, <1>6, ChainSetStage, ChainSend, ChainWrite, ChainReceive
        DEF Next, vars, fsm, round, NotifierStep, Call, Deadline, LateReturn, RegisterCheck, Register

----------------------------------------------------------------------------
(* Who has come too late *)

LEMMA TornDownStage ==
    ASSUME TypeInv, LockInv, TornDown
    PROVE  stage \notin Live
<1>1. ASSUME NEW c, c = <<"Teareddown">>, c \in Scripts(stage) PROVE stage = "Stopped"
  <2>1. /\ <<"Teareddown">> # <<>> /\ <<"Teareddown">> # <<"Stopping">> /\ <<"Teareddown">> # <<"Restarting">>
        /\ <<"Teareddown">> # <<"Starting", "Started">> /\ <<"Teareddown">> # <<"Started">>
        /\ <<"Teareddown">> # <<"Stopped", "tearDown", "Teareddown">>
    OBVIOUS
  <2> QED BY <1>1, <2>1 DEF Scripts
<1> QED BY <1>1 DEF TornDown, LockInv, LockOf, Live

\* Steps by which nobody comes nearer to being told of Teareddown.
LEMMA LeftKeeps ==
    ASSUME NEW s \in Subs, LeftInv, ch'[s] = ch[s], s \in left => s \in left', TornDown' => TornDown,
           s \in subscribers' => s \in subscribers,
           \A g \in Notifiers : TellsStage(g)' /\ pc'[g] = "send" /\ s \in unsent'[g]
                                  => TellsStage(g) /\ pc[g] = "send" /\ s \in unsent[g] /\ change'[g] = change[g]
    PROVE  LeftOf(s)'
<1>1. LeftOf(s)
  BY DEF LeftInv
<1>2. \A g \in Notifiers :
         TellsStage(g)' /\ pc'[g] = "send" /\ s \in unsent'[g] /\ change'[g].curr = "Teareddown" => s \in left'
  BY <1>1 DEF LeftOf
<1>3. TornDown' /\ s \in subscribers' => s \in left'
  BY <1>1 DEF LeftOf
<1>4. ch'[s] # <<>> /\ ch'[s][1].kind = "stage" /\ ch'[s][1].curr = "Teareddown" => s \in left'
  BY <1>1 DEF LeftOf
<1> QED BY <1>2, <1>3, <1>4 DEF LeftOf

\* The stage and what is left of the FSM calls.
LEMMA TornDownStep ==
    ASSUME TypeInv, LockInv, [Next]_vars, TornDown'
    PROVE  TornDown \/ subscribers' = {}
<1>0. script \in [Notifiers -> ScriptType] /\ stage \in Stages /\ \A g \in Notifiers : LockOf(g)
  BY DEF TypeInv, FsmType, ScriptType, LockInv
<1>1. ASSUME NEW g \in Notifiers, FsmEnter(g) PROVE TornDown
  <2>1. /\ stage' = stage /\ script'[g] = Script(g, stage)
        /\ \A h \in Notifiers : h # g => script'[h] = script[h]
    BY <1>0, <1>1 DEF FsmEnter
  <2>2. Script(g, stage) # <<"Teareddown">>
    <3>1. /\ <<"Teareddown">> # <<>> /\ <<"Teareddown">> # <<"Stopping">> /\ <<"Teareddown">> # <<"Restarting">>
          /\ <<"Teareddown">> # <<"Starting", "Started">>
          /\ <<"Teareddown">> # <<"Stopped", "tearDown", "Teareddown">>
      OBVIOUS
    <3> QED BY <3>1 DEF Script
  <2> QED BY <2>1, <2>2 DEF TornDown
<1>2. ASSUME NEW g \in Notifiers, SetStage(g) PROVE TornDown
  <2>1. /\ script[g] # <<>> /\ stage' = Head(script[g]) /\ Head(script[g]) # "tearDown"
        /\ script'[g] = Tail(script[g]) /\ \A h \in Notifiers : h # g => script'[h] = script[h]
    BY <1>0, <1>2 DEF SetStage
  <2>2. script[g] \in Scripts(stage)
    BY <1>0 DEF LockOf
  <2>3. /\ Head(script[g]) = "Teareddown" => script[g] = <<"Teareddown">>
        /\ Tail(script[g]) # <<"Teareddown">>
    BY <1>0, <2>1, <2>2, ScriptSteps
  <2> QED BY <2>1, <2>3 DEF TornDown
<1>3. ASSUME NEW g \in Notifiers, TearDown(g) PROVE subscribers' = {}
  BY <1>3 DEF TearDown
<1>4. CASE UNCHANGED <<stage, script>>
  BY <1>4 DEF TornDown
<1> QED BY <1>1, <1>2, <1>3, <1>4
        DEF Next, vars, fsm, NotifierStep, Handled, SetState, FsmReturn, CopyCallbacks, Called, Send, Told, Call,
            Deadline, LateReturn, RegisterCheck, Register, WriteSubscribers, Receive

LEMMA LeftStep == TypeInv /\ LockInv /\ LeftInv /\ [Next]_vars => LeftInv'
<1> SUFFICES ASSUME TypeInv, LockInv, LeftInv, [Next]_vars, NEW s \in Subs PROVE LeftOf(s)'
  BY DEF LeftInv
<1>0. /\ pc \in [Notifiers -> Pcs] /\ change \in [Notifiers -> Changes] /\ unsent \in [Notifiers -> SUBSET Subs]
      /\ ch \in [Subs -> Seq(Changes)] /\ LeftOf(s)
      /\ \A g \in Notifiers : TellsStage(g) => change[g].curr = stage
  BY DEF TypeInv, FsmType, SubscriberType, LeftInv, LockInv, LockOf
<1>1. ASSUME ch'[s] = ch[s], left' = left, s \in subscribers' => s \in subscribers,
             \A g \in Notifiers : TellsStage(g)' /\ pc'[g] = "send" /\ s \in unsent'[g]
                                  => TellsStage(g) /\ pc[g] = "send" /\ s \in unsent[g] /\ change'[g] = change[g]
      PROVE  LeftOf(s)'
  <2>1. CASE TornDown' => TornDown
    BY <1>1, <2>1, LeftKeeps
  <2>2. CASE subscribers' = {}
    <3>1. \A g \in Notifiers :
             TellsStage(g)' /\ pc'[g] = "send" /\ s \in unsent'[g] /\ change'[g].curr = "Teareddown" => s \in left'
      BY <1>0, <1>1 DEF LeftOf
    <3> QED BY <1>0, <1>1, <2>2, <3>1 DEF LeftOf
  <2> QED BY <2>1, <2>2, TornDownStep
<1>2. ASSUME NEW g \in Notifiers, FsmEnter(g) \/ FsmReturn(g) \/ SetStage(g) \/ SetState(g) \/ Told(g)
                                     \/ CopyCallbacks(g)
      PROVE  LeftOf(s)'
  <2>1. /\ UNCHANGED <<ch, left, subscribers, unsent>> /\ pc'[g] # "send"
        /\ \A h \in Notifiers : h # g => pc'[h] = pc[h] /\ change'[h] = change[h]
    BY <1>0, <1>2 DEF FsmEnter, FsmReturn, SetStage, SetState, Told, CopyCallbacks, fsm, round, hist
  <2> QED BY <1>1, <2>1 DEF TellsStage, Telling
<1>3. CASE Handled
  <2>1. /\ UNCHANGED <<ch, left, subscribers, unsent>> /\ pc'[Mux] # "send"
        /\ \A h \in Notifiers : h # Mux => pc'[h] = pc[h] /\ change'[h] = change[h]
    BY <1>0, <1>3, Constants DEF Handled, hist
  <2> QED BY <1>1, <2>1 DEF TellsStage, Telling
<1>4. ASSUME NEW g \in Notifiers, TearDown(g) PROVE LeftOf(s)'
  <2>1. UNCHANGED <<ch, left, unsent, pc, change>> /\ subscribers' = {}
    BY <1>4 DEF TearDown, round, hist
  <2> QED BY <1>1, <2>1 DEF TellsStage, Telling
<1>5. ASSUME NEW g \in Notifiers, Called(g) PROVE LeftOf(s)'
  <2>1. /\ UNCHANGED <<stage, script, ch, left, subscribers, change>> /\ pc[g] = "call" /\ unsent'[g] = subscribers
        /\ \A h \in Notifiers : h # g => pc'[h] = pc[h] /\ unsent'[h] = unsent[h]
    BY <1>0, <1>5 DEF Called, fsm, hist
  <2>2. TornDown' <=> TornDown
    BY <2>1 DEF TornDown
  <2>3. \A h \in Notifiers : h # g => (TellsStage(h)' <=> TellsStage(h))
    BY <2>1 DEF TellsStage, Telling
  <2>4. TellsStage(g)' => TellsStage(g)
    BY <2>1 DEF TellsStage, Telling
  <2>5. \A h \in Notifiers :
           TellsStage(h)' /\ pc'[h] = "send" /\ s \in unsent'[h] /\ change'[h].curr = "Teareddown" => s \in left'
    <3> SUFFICES ASSUME NEW h \in Notifiers, TellsStage(h)', pc'[h] = "send", s \in unsent'[h],
                        change'[h].curr = "Teareddown"
                 PROVE  s \in left
      BY <2>1
    <3>1. CASE h = g
      <4>1. stage = "Teareddown" /\ s \in subscribers
        BY <1>0, <2>1, <2>4, <3>1
      <4> QED BY <1>0, <4>1 DEF LeftOf, TornDown
    <3>2. CASE h # g
      BY <1>0, <2>1, <2>3, <3>2 DEF LeftOf
    <3> QED BY <3>1, <3>2
  <2> QED BY <1>0, <2>1, <2>2, <2>5 DEF LeftOf
<1>6. ASSUME NEW g \in Notifiers, NEW u \in Subs, Send(g, u) PROVE LeftOf(s)'
  <2>1. /\ UNCHANGED <<stage, script, left, subscribers, pc, change>> /\ pc[g] = "send" /\ u \in unsent[g]
        /\ ch[u] = <<>> /\ ch'[u] = Append(ch[u], change[g]) /\ \A v \in Subs : v # u => ch'[v] = ch[v]
        /\ \A h \in Notifiers : unsent'[h] \subseteq unsent[h]
    BY <1>0, <1>6, Channel DEF Send, fsm, hist
  <2>2. \A h \in Notifiers : TellsStage(h)' <=> TellsStage(h)
    BY <2>1 DEF TellsStage, Telling
  <2>3. TornDown' <=> TornDown
    BY <2>1 DEF TornDown
  <2>4. ch'[u][1] = change[g]
    BY <1>0, <2>1
  <2>5. ASSUME ch'[s] # <<>>, ch'[s][1].kind = "stage", ch'[s][1].curr = "Teareddown" PROVE s \in left
    <3>1. CASE s = u
      <4>1. TellsStage(g)
        BY <2>1, <2>4, <2>5, <3>1 DEF TellsStage, Telling
      <4> QED BY <1>0, <2>1, <2>4, <2>5, <3>1, <4>1 DEF LeftOf
    <3>2. CASE s # u
      BY <1>0, <2>1, <2>5, <3>2 DEF LeftOf
    <3> QED BY <3>1, <3>2
  <2>6. \A h \in Notifiers :
           TellsStage(h)' /\ pc'[h] = "send" /\ s \in unsent'[h] /\ change'[h].curr = "Teareddown" => s \in left'
    BY <1>0, <2>1, <2>2 DEF LeftOf
  <2> QED BY <1>0, <2>1, <2>3, <2>5, <2>6 DEF LeftOf
<1>7. ASSUME NEW u \in Subs, WriteSubscribers(u) PROVE LeftOf(s)'
  <2>0. UNCHANGED <<stage, script, pc, change>>
    BY <1>7 DEF WriteSubscribers, fsm
  <2>1. \A h \in Notifiers : TellsStage(h)' <=> TellsStage(h)
    BY <2>0 DEF TellsStage, Telling
  <2>2. TornDown' <=> TornDown
    BY <2>0 DEF TornDown
  <2>3. CASE Subscribe(u)
    <3>1. /\ subscribers' = subscribers \union {u} /\ ch'[u] = <<>> /\ \A v \in Subs : v # u => ch'[v] = ch[v]
          /\ left' = IF stage \in Live THEN left \ {u} ELSE left \union {u}
          /\ \A h \in Notifiers : unsent'[h] \subseteq unsent[h] \union {u}
      BY <1>0, <2>3 DEF Subscribe
    <3>2. CASE s # u
      <4>1. s \in left => s \in left'
        BY <3>1, <3>2
      <4>2. /\ s \in subscribers' => s \in subscribers
            /\ \A h \in Notifiers : s \in unsent'[h] => s \in unsent[h]
        BY <3>1, <3>2
      <4> QED BY <2>0, <2>1, <2>2, <3>1, <3>2, <4>1, <4>2, LeftKeeps
    <3>3. CASE s = u
      <4>1. stage \notin Live => s \in left'
        BY <3>1, <3>3
      <4>2. TornDown => s \in left'
        BY <4>1, TornDownStage
      <4>3. \A h \in Notifiers : TellsStage(h) /\ change[h].curr = "Teareddown" => s \in left'
        BY <1>0, <4>2 DEF TornDown
      <4> QED BY <2>0, <2>1, <2>2, <3>1, <3>3, <4>2, <4>3 DEF LeftOf
    <3> QED BY <3>2, <3>3
  <2>4. CASE Unsubscribe(u)
    <3>1. /\ subscribers' \subseteq subscribers /\ left \subseteq left' /\ UNCHANGED ch
          /\ \A h \in Notifiers : unsent'[h] \subseteq unsent[h]
      BY <1>0, <2>4 DEF Unsubscribe
    <3> QED BY <2>0, <2>1, <2>2, <3>1, LeftKeeps
  <2> QED BY <1>7, <2>3, <2>4 DEF WriteSubscribers
<1>8. ASSUME NEW u \in Subs, Receive(u) PROVE LeftOf(s)'
  <2>1. /\ UNCHANGED <<stage, script, pc, change, left, subscribers, unsent>> /\ ch'[u] = <<>>
        /\ \A v \in Subs : v # u => ch'[v] = ch[v]
    BY <1>0, <1>8, Channel DEF Receive, fsm, round, hist
  <2>2. TornDown' <=> TornDown
    BY <2>1 DEF TornDown
  <2>3. \A h \in Notifiers : TellsStage(h)' <=> TellsStage(h)
    BY <2>1 DEF TellsStage, Telling
  <2>4. CASE s # u
    BY <2>1, <2>2, <2>3, <2>4, LeftKeeps
  <2>5. CASE s = u
    BY <1>0, <2>1, <2>2, <2>3, <2>5 DEF LeftOf
  <2> QED BY <2>4, <2>5
<1>9. CASE UNCHANGED <<ch, left, subscribers, unsent, pc, change>>
  BY <1>1, <1>9 DEF TellsStage, Telling
<1> QED BY <1>2, <1>3, <1>4, <1>5, <1>6, <1>7, <1>8, <1>9
        DEF Next, vars, round, hist, NotifierStep, Call, Deadline, LateReturn, RegisterCheck, Register

\* Each stage change that a subscriber receives begins where the one before it ended,
\* and nobody who subscribed in time is told of Teareddown, whoever restarts or shuts
\* down the component and however subscriptions come and go meanwhile.
THEOREM ChangesAreAChain == Spec => SubscriberChain
<1> DEFINE I == TypeInv /\ LockInv /\ ChainInv /\ LeftInv
           A == \A s \in Subs :
                   Len(ch'[s]) < Len(ch[s]) /\ seen'[s] # "none" /\ Head(ch[s]).kind = "stage" =>
                       /\ seen[s] = "none" \/ Head(ch[s]).prev = seen[s]
                       /\ s \in left \/ Head(ch[s]).curr # "Teareddown"
<1>1. Init => I
  <2> SUFFICES ASSUME Init PROVE I
    OBVIOUS
  <2>1. LockInv
    BY DEF Init, LockInv, LockOf, InCall, TellsStage, Telling, Scripts
  <2>2. \A s \in Subs : ch[s] = <<>> /\ s \notin subscribers
    BY DEF Init
  <2>3. \A g \in Notifiers : ~TellsStage(g)
    BY DEF Init, TellsStage, Telling
  <2>4. ChainInv
    BY <2>2, <2>3 DEF ChainInv, ChainOf, ReceivedOf, ToTell
  <2>5. LeftInv
    BY <2>2, <2>3 DEF LeftInv, LeftOf
  <2> QED BY <2>1, <2>4, <2>5, TypeInit
<1>2. I /\ [Next]_vars => I'
  BY TypeStep, LockStep, ChainStep, LeftStep
<1>3. I /\ I' => [A]_vars
  <2> SUFFICES ASSUME I, I', NEW s \in Subs, Len(ch'[s]) < Len(ch[s]), Head(ch[s]).kind = "stage"
               PROVE  /\ seen[s] = "none" \/ Head(ch[s]).prev = seen[s]
                      /\ s \in left \/ Head(ch[s]).curr # "Teareddown"
    OBVIOUS
  <2>1. ch[s] # <<>>
    <3>1. ch'[s] \in Seq(Changes)
      BY DEF TypeInv, SubscriberType
    <3>2. Len(ch'[s]) \in Nat
      BY <3>1, Lengths
    <3>3. ASSUME ch[s] = <<>> PROVE FALSE
      <4>1. Len(ch[s]) = 0
        BY <3>3
      <4> QED BY <3>2, <4>1
    <3> QED BY <3>3
  <2>2. Head(ch[s]) = ch[s][1]
    BY <2>1, Channel
  <2> QED BY <2>1, <2>2 DEF ChainInv, ChainOf, ReceivedOf, LeftInv, LeftOf
<1>4. SubscriberChain <=> [][A]_vars
  BY DEF SubscriberChain
<1> HIDE DEF I, A
<1> QED BY <1>1, <1>2, <1>3, <1>4, PTL DEF Spec
=============================================================================
