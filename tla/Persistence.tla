---------------------------- MODULE Persistence ----------------------------
(***************************************************************************)
(* Storing the persistable fields of ONE component (Container.persist,     *)
(* Container.load, marshalType, unmarshalToType) in the file database      *)
(* (SimpleFileDB), across crashes and restarts of the process.             *)
(*                                                                         *)
(* Two goroutines persist a component: its multiplexer, after a message,   *)
(* and whoever makes an FSM call, in the deferred function of              *)
(* componentLifecycleFSM.  The first holds no lock, so the two overlap.    *)
(*                                                                         *)
(* A struct is the sequence of its tagged leaf fields in the order of the  *)
(* traversal; the path of a field is its typeHierarchy.                    *)
(***************************************************************************)
EXTENDS Naturals, Sequences

CONSTANTS
    Shapes,       \* structs: sequences of [name, path, tag, kind]
    Values,       \* the values a field may have
    Zero,         \* the zero value of every kind ("" for a string)
    Keys,         \* the encryption keys the process may be started with
    Mux,          \* the component's multiplexer
    Fsm,          \* a goroutine making an FSM call
    Overlap,      \* may an FSM call made elsewhere overlap the multiplexer?
    EmptySecrets, \* may an encrypted string be empty?
    UpdateFails,  \* may the database's Update return an error?
    MaxMsgs,      \* bound on messages and FSM calls in one life of the process
    MaxLives      \* bound on starts of the process

Writers == {Mux, Fsm}
Tags == {"native", "encrypt", "other"}
Kinds == {"string", "int", "bool", "other"}

ASSUME ShapeAssumption ==
    /\ Shapes \subseteq Seq([name : STRING, path : STRING, tag : Tags, kind : Kinds])
    /\ <<>> \notin Shapes
    /\ Zero \in Values
    /\ Mux # Fsm
    /\ MaxMsgs \in Nat /\ MaxLives \in Nat

VARIABLES
    shape,   \* the component's struct
    up,      \* is the process running?
    key,     \* Persistence.symmetricEncryptKey
    val,     \* the component's fields
    cache,   \* SimpleComponent.persistanceCache, <<>> when nil
    file,    \* the collection file: see Absent, Garbage, File
    wpc,     \* where each writer is in persist
    wval,    \* the fields each writer has read and marshalled
    ok,      \* the last call of persist to end returned nil
    failed,  \* history: an Update has failed in this life of the process
    hurt,    \* history: an Update was cut short and none has ended since
    stored,  \* history: the key and the fields of the last document written
    loaded,  \* history: the fields as load left them
    msgs, lives

vars == <<shape, up, key, val, cache, file, wpc, wval, ok, failed, hurt, stored,
          loaded, msgs, lives>>

Fields == 1..Len(shape)

----------------------------------------------------------------------------
(* Texts: a value, formatted by %v and encrypted zero or more times *)

Plain(v) == [plain |-> v, layers |-> <<>>]

Encrypt(k, t) == [t EXCEPT !.layers = Append(@, k)]

\* The innermost text; decrypt fails (Decryptable is false) under another key.
Decryptable(k, t) == t.layers # <<>> /\ t.layers[Len(t.layers)] = k
Decrypt(k, t) == [t EXCEPT !.layers = SubSeq(@, 1, Len(@) - 1)]

\* A string that is empty; the zero values of other kinds are written out.
IsEmpty(i, t) == shape[i].kind = "string" /\ t = Plain(Zero)

----------------------------------------------------------------------------
(* marshalType and unmarshalToType *)

MarshalType(k, v) ==
    [i \in Fields |->
        [name |-> shape[i].name,
         path |-> shape[i].path,
         text |-> IF shape[i].tag = "encrypt" THEN Encrypt(k, v[i]) ELSE v[i],
         isEncrypted |-> shape[i].tag = "encrypt"]]

\* The collection file does not exist; holds no JSON (it is empty, or the
\* bytes of two documents); holds document d.
Absent == [is |-> "absent", doc |-> <<>>]
Garbage == [is |-> "garbage", doc |-> <<>>]
File(d) == [is |-> "doc", doc |-> d]

\* The entry that the map built by load has for a name: the last one wins.
Entry(doc, n) ==
    doc[CHOOSE j \in DOMAIN doc : doc[j].name = n
            /\ \A l \in DOMAIN doc : doc[l].name = n => l <= j]

\* What the text of an entry becomes: a decryption that fails or yields the
\* empty string leaves it as it is.
ClearText(k, i, p) ==
    IF p.isEncrypted /\ Decryptable(k, p.text) /\ ~IsEmpty(i, Decrypt(k, p.text))
    THEN Decrypt(k, p.text) ELSE p.text

\* Mutant: the whole entry is stored, not its text.
SetFieldEntry(k, i, p, old) == p

\* Parsing: what is not a number (or a bool) is read as its zero value; kinds
\* the switch does not list are not set.
SetField(k, i, p, old) ==
    CASE shape[i].kind = "string" -> ClearText(k, i, p)
      [] shape[i].kind \in {"int", "bool"} ->
           IF ClearText(k, i, p).layers = <<>> THEN ClearText(k, i, p) ELSE Plain(Zero)
      [] OTHER -> old

\* Mutant: nested structs are taken to have the path of the outer one.
UnmarshalFlat(k, doc, v) ==
    [i \in Fields |->
        IF /\ \E j \in DOMAIN doc : doc[j].name = shape[i].name
           /\ Entry(doc, shape[i].name).path = shape[1].path
        THEN SetField(k, i, Entry(doc, shape[i].name), v[i])
        ELSE v[i]]

UnmarshalToType(k, doc, v) ==
    [i \in Fields |->
        IF /\ shape[i].tag \in {"native", "encrypt"}
           /\ \E j \in DOMAIN doc : doc[j].name = shape[i].name
           /\ Entry(doc, shape[i].name).path = shape[i].path
        THEN SetField(k, i, Entry(doc, shape[i].name), v[i])
        ELSE v[i]]

----------------------------------------------------------------------------
Idle == \A w \in Writers : wpc[w] = "idle"

SecretsSet(v) ==
    EmptySecrets \/ \A i \in Fields : shape[i].tag = "encrypt" => ~IsEmpty(i, v[i])

\* The fields user code (Init, a message handler) may leave behind.
UserVals == {v \in [Fields -> {Plain(x) : x \in Values}] : SecretsSet(v)}

Init ==
    /\ shape \in Shapes
    /\ up = FALSE
    /\ key \in Keys
    /\ val = [i \in Fields |-> Plain(Zero)]
    /\ cache = <<>>
    /\ file = Absent
    /\ wpc = [w \in Writers |-> "idle"]
    /\ wval = [w \in Writers |-> <<>>]
    /\ ok = TRUE
    /\ failed = FALSE
    /\ hurt = FALSE
    /\ stored = [key |-> key, val |-> <<>>]
    /\ loaded = val
    /\ msgs = 0
    /\ lives = 0

\* The process starts.  FindOne answers with nothing when there is no file and
\* with an error when it is not JSON; load then leaves the zero values.  The
\* component's Init() leaves these fields alone or sets them; the FSM call
\* persists.
Load(k) ==
    IF file.is = "doc" THEN UnmarshalToType(k, file.doc, [i \in Fields |-> Plain(Zero)])
    ELSE [i \in Fields |-> Plain(Zero)]

Start ==
    /\ ~up
    /\ lives < MaxLives
    /\ \E k \in Keys, v \in UserVals :
          /\ key' = k
          /\ loaded' = Load(k)
          /\ val' \in {v, loaded'}
          /\ SecretsSet(val')
    /\ up' = TRUE
    /\ lives' = lives + 1
    /\ msgs' = 0
    /\ wpc' = [wpc EXCEPT ![Fsm] = "marshal"]
    /\ UNCHANGED <<cache, file, wval, ok, failed, hurt, stored>>

\* A message handler changes the fields; or it is the control message Persist
\* that changes nothing.
Handle ==
    /\ up
    /\ wpc[Mux] = "idle"
    /\ Overlap \/ Idle
    /\ msgs < MaxMsgs
    /\ val' \in UserVals \union {val}
    /\ wpc' = [wpc EXCEPT ![Mux] = "marshal"]
    /\ msgs' = msgs + 1
    /\ UNCHANGED <<up, key, cache, file, wval, ok, failed, hurt, stored, loaded, lives>>

\* An FSM call that ends: a stage change, a restart of the multiplexer.
FsmCall ==
    /\ up
    /\ wpc[Fsm] = "idle"
    /\ Overlap \/ Idle
    /\ msgs < MaxMsgs
    /\ wpc' = [wpc EXCEPT ![Fsm] = "marshal"]
    /\ msgs' = msgs + 1
    /\ UNCHANGED <<up, key, val, cache, file, wval, ok, failed, hurt, stored, loaded, lives>>

\* The fields are read and marshalled.
Marshal(w) ==
    /\ wpc[w] = "marshal"
    /\ wval' = [wval EXCEPT ![w] = val]
    /\ wpc' = [wpc EXCEPT ![w] = "compare"]
    /\ UNCHANGED <<up, key, val, cache, file, ok, failed, hurt, stored, loaded, msgs, lives>>

\* The document a writer has marshalled.
Doc(w) == MarshalType(key, wval[w])

\* The same bytes as last time?  Every encryption draws a new nonce.
SameBytes(d, c) == d = c /\ \A i \in DOMAIN d : ~d[i].isEncrypted

\* Mutant: the cache is set before it is compared.
CompareTooLate(w) ==
    /\ wpc[w] = "compare"
    /\ cache' = Doc(w)
    /\ wpc' = [wpc EXCEPT ![w] = IF SameBytes(Doc(w), cache') THEN "idle" ELSE "create"]
    /\ ok' = TRUE
    /\ UNCHANGED <<up, key, val, file, wval, failed, hurt, stored, loaded, msgs, lives>>

\* Nothing new: persist returns nil.  Otherwise the cache is set, before the
\* database is updated.
Compare(w) ==
    /\ wpc[w] = "compare"
    /\ \/ /\ SameBytes(Doc(w), cache)
          /\ wpc' = [wpc EXCEPT ![w] = "idle"]
          /\ ok' = TRUE
          /\ UNCHANGED cache
       \/ /\ ~SameBytes(Doc(w), cache)
          /\ cache' = Doc(w)
          /\ wpc' = [wpc EXCEPT ![w] = "create"]
          /\ UNCHANGED ok
    /\ UNCHANGED <<up, key, val, file, wval, failed, hurt, stored, loaded, msgs, lives>>

\* Update: os.Create truncates the file, or fails.
Create(w) ==
    /\ wpc[w] = "create"
    /\ \/ /\ wpc' = [wpc EXCEPT ![w] = "write"]
          /\ file' = Garbage
          /\ UNCHANGED <<ok, failed>>
       \/ /\ UpdateFails
          /\ wpc' = [wpc EXCEPT ![w] = "idle"]
          /\ ok' = FALSE /\ failed' = TRUE
          /\ UNCHANGED file
    /\ UNCHANGED <<up, key, val, cache, wval, hurt, stored, loaded, msgs, lives>>

\* Update: Write stores the document, or fails half way.  Where the other
\* writer has written since this one's Create, the bytes of a longer document
\* remain behind those of this one.
Write(w) ==
    /\ wpc[w] = "write"
    /\ wpc' = [wpc EXCEPT ![w] = "idle"]
    /\ \/ /\ file' \in {File(Doc(w))} \union (IF file = Garbage THEN {} ELSE {Garbage})
          /\ ok' = TRUE
          /\ hurt' = FALSE
          /\ stored' = [key |-> key, val |-> wval[w]]
          /\ UNCHANGED failed
       \/ /\ UpdateFails
          /\ file' = Garbage
          /\ ok' = FALSE /\ failed' = TRUE
          /\ hurt' = TRUE
          /\ UNCHANGED stored
    /\ UNCHANGED <<up, key, val, cache, wval, loaded, msgs, lives>>

\* The process ends, killed or of its own accord.
Crash ==
    /\ up
    /\ up' = FALSE
    /\ hurt' = (hurt \/ \E w \in Writers : wpc[w] = "write")
    /\ wpc' = [w \in Writers |-> "idle"]
    /\ wval' = [w \in Writers |-> <<>>]
    /\ cache' = <<>>
    /\ val' = [i \in Fields |-> Plain(Zero)]
    /\ ok' = TRUE /\ failed' = FALSE
    /\ UNCHANGED <<key, file, stored, loaded, msgs, lives>>

Next ==
    /\ \/ Start \/ Handle \/ FsmCall \/ Crash
       \/ \E w \in Writers : Marshal(w) \/ Compare(w) \/ Create(w) \/ Write(w)
    /\ UNCHANGED shape

Spec == Init /\ [][Next]_vars
----------------------------------------------------------------------------
(* Properties *)

Texts == [plain : Values, layers : Seq(Keys)]
PTypes == [name : STRING, path : STRING, text : Texts, isEncrypted : BOOLEAN]

\* The variables keep their types: load and marshalType exchange texts, whatever
\* the key and the file.
TypeOK ==
    /\ up \in BOOLEAN /\ ok \in BOOLEAN /\ failed \in BOOLEAN /\ hurt \in BOOLEAN
    /\ shape \in Shapes /\ key \in Keys
    /\ val \in [Fields -> Texts] /\ loaded \in [Fields -> Texts]
    /\ cache \in Seq(PTypes)
    /\ file \in [is : {"absent", "garbage", "doc"}, doc : Seq(PTypes)]
    /\ wpc \in [Writers -> {"idle", "marshal", "compare", "create", "write"}]
    /\ wval \in [Writers -> Seq(Texts)]
    /\ stored \in [key : Keys, val : Seq(Texts)]
    /\ msgs \in 0..MaxMsgs /\ lives \in 0..MaxLives

\* When no call of persist is in progress and the last one returned nil, the
\* database holds the component's fields as they are now: the comparison with
\* persistanceCache never skips an update that is needed.  An Update that failed
\* leaves the cache ahead of the database, unless a secret makes every document
\* a new one.
CurrentStored ==
    up /\ Idle /\ ok /\ (failed => \E i \in Fields : shape[i].tag = "encrypt")
        => file = File(MarshalType(key, val))

\* A process started with the same key finds the fields it stored last,
\* however it nests and whichever of them it encrypts, unless an Update was cut
\* short.
RestoredOnStart ==
    [][(~up /\ up' /\ stored.val # <<>> /\ ~hurt /\ key' = stored.key)
         => loaded' = stored.val]_vars
=============================================================================
