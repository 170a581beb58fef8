------------------------- MODULE PersistenceProofs -------------------------
(***************************************************************************)
(* Proofs about Persistence, for every struct, every set of values and     *)
(* keys, and any number of messages, crashes and restarts.                 *)
(***************************************************************************)
EXTENDS Persistence, SequenceTheorems, WellFoundedInduction, TLAPS

----------------------------------------------------------------------------
(* Invariants *)

WriterPcs == {"idle", "marshal", "compare", "create", "write"}
Marshalled(w) == wpc[w] \in {"compare", "create", "write"}

\* What a writer has marshalled has a text for every field.
ReadInv == \A w \in Writers : Marshalled(w) => wval[w] \in [Fields -> Texts]

TypeInv == TypeOK /\ ReadInv

\* One writer at a time.
SerialInv ==
    /\ ~up => Idle /\ cache = <<>>
    /\ \A w, u \in Writers : wpc[w] # "idle" /\ wpc[u] # "idle" => w = u

\* The fields do not change while they are stored; the cache is ahead of the file
\* from Compare to the end of Write.
FreshInv ==
    \A w \in Writers :
        /\ Marshalled(w) => wval[w] = val
        /\ wpc[w] \in {"create", "write"} => cache = Doc(w)
        /\ wpc[w] = "write" => file = Garbage

\* Between updates none of which failed, the cache is what the file holds.
CacheInv ==
    up /\ ~failed /\ cache # <<>> /\ (\A w \in Writers : wpc[w] \notin {"create", "write"})
        => file = File(cache)

StoreInv == SerialInv /\ FreshInv /\ CacheInv /\ CurrentStored

\* The fields a component may have: a number was parsed, and a secret is not empty.
GoodVal(v) ==
    /\ v \in [Fields -> Texts]
    /\ \A i \in Fields : shape[i].kind \in {"int", "bool"} => v[i].layers = <<>>
    /\ SecretsSet(v)

GoodInv == (up => GoodVal(val)) /\ (stored.val # <<>> => GoodVal(stored.val))

\* Unless an Update was cut short, or is under way, the file holds what was stored last.
LastInv ==
    stored.val # <<>> /\ ~hurt
        => \/ \E w \in Writers : wpc[w] = "write"
           \/ file = File(MarshalType(stored.key, stored.val))

Inv == TypeInv /\ StoreInv /\ GoodInv /\ LastInv

----------------------------------------------------------------------------
(* Texts and documents *)

\* Structs have fields, each with a name and a path.
LEMMA ShapeFields ==
    ASSUME shape \in Shapes
    PROVE  /\ Len(shape) \in Nat /\ Len(shape) # 0 /\ Fields = 1..Len(shape) /\ 1 \in Fields
           /\ \A i \in Fields : /\ shape[i].name \in STRING /\ shape[i].path \in STRING
                                /\ shape[i].tag \in Tags /\ shape[i].kind \in Kinds
<1> DEFINE R == [name : STRING, path : STRING, tag : Tags, kind : Kinds]
<1>1. shape \in Seq(R) /\ shape # <<>>
  BY ShapeAssumption
<1>2. Len(shape) \in Nat
  BY <1>1, LenProperties
<1>3. Len(shape) # 0
  BY <1>1, EmptySeq
<1>4. \A i \in 1..Len(shape) : shape[i] \in R
  BY <1>1, ElementOfSeq
<1> QED BY <1>2, <1>3, <1>4 DEF Fields

LEMMA PlainText == \A v \in Values : Plain(v) \in Texts /\ Plain(v).layers = <<>>
BY DEF Plain, Texts

LEMMA ZeroText == Plain(Zero) \in Texts /\ Plain(Zero).layers = <<>>
BY PlainText, ShapeAssumption

LEMMA EncryptText ==
    ASSUME NEW k \in Keys, NEW t \in Texts
    PROVE  /\ Encrypt(k, t) \in Texts /\ Decryptable(k, Encrypt(k, t))
           /\ Decrypt(k, Encrypt(k, t)) = t
<1>1. t.layers \in Seq(Keys) /\ t.plain \in Values /\ t = [plain |-> t.plain, layers |-> t.layers]
  BY DEF Texts
<1> DEFINE l == Append(t.layers, k)
<1>2. /\ l \in Seq(Keys) /\ Len(l) = Len(t.layers) + 1 /\ l[Len(t.layers) + 1] = k /\ l # <<>>
      /\ \A i \in 1..Len(t.layers) : l[i] = t.layers[i]
  BY <1>1, AppendProperties
<1>3. Encrypt(k, t) = [plain |-> t.plain, layers |-> l]
  BY <1>1 DEF Encrypt
<1>4. SubSeq(l, 1, Len(l) - 1) = t.layers
  <2>0. Len(t.layers) \in Nat
    BY <1>1, LenProperties
  <2>1. Len(l) - 1 = Len(t.layers)
    BY <1>2, <2>0
  <2>2. SubSeq(Append(t.layers, k), 1, Len(t.layers)) = t.layers
    BY <1>1, <2>0
  <2> QED BY <2>1, <2>2
<1> HIDE DEF l
<1>5. Encrypt(k, t) \in Texts
  BY <1>1, <1>2, <1>3 DEF Texts
<1>6. Decryptable(k, Encrypt(k, t))
  BY <1>2, <1>3 DEF Decryptable
<1>7. Decrypt(k, Encrypt(k, t)) = t
  BY <1>1, <1>3, <1>4 DEF Decrypt
<1> QED BY <1>5, <1>6, <1>7

LEMMA DecryptText ==
    ASSUME NEW k, NEW t \in Texts, Decryptable(k, t)
    PROVE  Decrypt(k, t) \in Texts
<1>1. t.layers \in Seq(Keys) /\ t.plain \in Values /\ t = [plain |-> t.plain, layers |-> t.layers]
  BY DEF Texts
<1>2. t.layers # <<>>
  BY DEF Decryptable
<1> DEFINE s == t.layers
<1>3. s \in Seq(Keys) /\ Len(s) \in Nat /\ Len(s) # 0 /\ \A i \in 1..Len(s) : s[i] \in Keys
  BY <1>1, <1>2, EmptySeq, LenProperties, ElementOfSeq
<1> HIDE DEF s
<1>4. SubSeq(s, 1, Len(s) - 1) \in Seq(Keys)
  BY <1>3
<1> QED BY <1>1, <1>4 DEF Decrypt, Texts, s

\* What marshalType makes of the fields.
LEMMA Marshalling ==
    ASSUME shape \in Shapes, NEW k \in Keys, NEW v \in [Fields -> Texts]
    PROVE  /\ MarshalType(k, v) \in Seq(PTypes) /\ MarshalType(k, v) # <<>>
           /\ DOMAIN MarshalType(k, v) = Fields
           /\ \A i \in Fields :
                 /\ MarshalType(k, v)[i].name = shape[i].name
                 /\ MarshalType(k, v)[i].path = shape[i].path
                 /\ MarshalType(k, v)[i].text
                       = IF shape[i].tag = "encrypt" THEN Encrypt(k, v[i]) ELSE v[i]
                 /\ MarshalType(k, v)[i].isEncrypted <=> shape[i].tag = "encrypt"
<1> DEFINE d == MarshalType(k, v)
           e(i) == [name |-> shape[i].name, path |-> shape[i].path,
                    text |-> IF shape[i].tag = "encrypt" THEN Encrypt(k, v[i]) ELSE v[i],
                    isEncrypted |-> shape[i].tag = "encrypt"]
<1>1. d = [i \in Fields |-> e(i)]
  BY DEF MarshalType
<1>2. \A i \in Fields : e(i) \in PTypes
  <2> SUFFICES ASSUME NEW i \in Fields PROVE e(i) \in PTypes
    OBVIOUS
  <2>1. v[i] \in Texts /\ Encrypt(k, v[i]) \in Texts
    BY EncryptText
  <2>2. (shape[i].tag = "encrypt") \in BOOLEAN
    OBVIOUS
  <2> QED BY <2>1, <2>2, ShapeFields DEF PTypes
<1>3. \A i \in Fields :
         /\ e(i).name = shape[i].name /\ e(i).path = shape[i].path
         /\ e(i).text = IF shape[i].tag = "encrypt" THEN Encrypt(k, v[i]) ELSE v[i]
         /\ e(i).isEncrypted <=> shape[i].tag = "encrypt"
  OBVIOUS
<1> HIDE DEF e, d
<1>4. DOMAIN d = Fields /\ \A i \in Fields : d[i] = e(i)
  BY <1>1
<1>5. d \in [1..Len(shape) -> PTypes] /\ Len(shape) \in Nat
  BY <1>1, <1>2, ShapeFields
<1>6. d \in Seq(PTypes)
  BY <1>5
<1>7. d # <<>>
  BY <1>4, ShapeFields
<1> QED BY <1>3, <1>4, <1>6, <1>7 DEF d

\* The map that load builds has an entry of the document for a name that occurs.
LEMMA EntryFound ==
    ASSUME NEW d \in Seq(PTypes), NEW n, \E j \in DOMAIN d : d[j].name = n
    PROVE  \E j \in DOMAIN d : Entry(d, n) = d[j] /\ d[j].name = n /\ d[j] \in PTypes
<1> DEFINE I == {j \in DOMAIN d : d[j].name = n}
           T == {Len(d) - j : j \in I}
<1>1. Len(d) \in Nat /\ DOMAIN d = 1..Len(d)
  BY LenProperties
<1>2. \A j \in I : j \in Nat /\ Len(d) - j \in Nat
  BY <1>1
<1>3. T \subseteq Nat /\ T # {}
  BY <1>2
<1>4. PICK t \in T : \A u \in T : ~(<<u, t>> \in OpToRel(<, Nat))
  BY <1>3, WFMin, NatLessThanWellFounded
<1>5. \A u \in T : ~(u < t)
  BY <1>3, <1>4 DEF OpToRel
<1>6. PICK m \in I : t = Len(d) - m
  BY <1>4
<1>7. \A j \in DOMAIN d : d[j].name = n => j <= m
  <2> SUFFICES ASSUME NEW j \in I PROVE j <= m
    OBVIOUS
  <2>1. Len(d) - j \in T
    OBVIOUS
  <2>2. ~(Len(d) - j < Len(d) - m)
    BY <1>5, <1>6, <2>1
  <2> QED BY <1>1, <1>2, <2>2
<1> DEFINE c == CHOOSE j \in DOMAIN d : d[j].name = n /\ \A l \in DOMAIN d : d[l].name = n => l <= j
<1>8. c \in DOMAIN d /\ d[c].name = n
  BY <1>6, <1>7
<1>9. Entry(d, n) = d[c]
  BY DEF Entry
<1> HIDE DEF c
<1>10. d[c] \in PTypes
  BY <1>1, <1>8, ElementOfSeq
<1> QED BY <1>8, <1>9, <1>10

\* What unmarshalToType sets a field to is a text; a number has been parsed.
LEMMA FieldSet ==
    ASSUME NEW k, NEW i, NEW p \in PTypes, NEW old \in Texts
    PROVE  /\ SetField(k, i, p, old) \in Texts
           /\ shape[i].kind \in {"int", "bool"} => SetField(k, i, p, old).layers = <<>>
<1>1. p.text \in Texts
  BY DEF PTypes
<1>2. ClearText(k, i, p) \in Texts
  BY <1>1, DecryptText DEF ClearText
<1>3. SetField(k, i, p, old) \in Texts
  BY <1>2, ZeroText DEF SetField
<1>4. ASSUME shape[i].kind \in {"int", "bool"} PROVE SetField(k, i, p, old).layers = <<>>
  <2>1. SetField(k, i, p, old) = IF ClearText(k, i, p).layers = <<>> THEN ClearText(k, i, p) ELSE Plain(Zero)
    BY <1>4 DEF SetField
  <2> QED BY <2>1, ZeroText
<1> QED BY <1>3, <1>4

Parsed(v) == \A i \in Fields : shape[i].kind \in {"int", "bool"} => v[i].layers = <<>>

LEMMA Unmarshalling ==
    ASSUME NEW k, NEW d \in Seq(PTypes), NEW v \in [Fields -> Texts], Parsed(v)
    PROVE  UnmarshalToType(k, d, v) \in [Fields -> Texts] /\ Parsed(UnmarshalToType(k, d, v))
<1> DEFINE c(i) == /\ shape[i].tag \in {"native", "encrypt"}
                   /\ \E j \in DOMAIN d : d[j].name = shape[i].name
                   /\ Entry(d, shape[i].name).path = shape[i].path
           e(i) == IF c(i) THEN SetField(k, i, Entry(d, shape[i].name), v[i]) ELSE v[i]
<1>1. UnmarshalToType(k, d, v) = [i \in Fields |-> e(i)]
  BY DEF UnmarshalToType
<1>2. ASSUME NEW i \in Fields
      PROVE  e(i) \in Texts /\ (shape[i].kind \in {"int", "bool"} => e(i).layers = <<>>)
  <2>1. CASE c(i)
    <3>1. Entry(d, shape[i].name) \in PTypes
      BY <2>1, EntryFound
    <3> HIDE DEF c
    <3> QED BY <2>1, <3>1, FieldSet
  <2>2. CASE ~c(i)
    <3> HIDE DEF c
    <3> QED BY <2>2 DEF Parsed
  <2> QED BY <2>1, <2>2
<1> HIDE DEF e
<1> QED BY <1>1, <1>2 DEF Parsed

LEMMA Loading ==
    ASSUME TypeOK, NEW k
    PROVE  Load(k) \in [Fields -> Texts] /\ Parsed(Load(k))
<1> DEFINE z == [i \in Fields |-> Plain(Zero)]
<1>1. z \in [Fields -> Texts] /\ Parsed(z)
  BY ZeroText DEF Parsed
<1>2. file.doc \in Seq(PTypes)
  BY DEF TypeOK
<1> HIDE DEF z
<1>3. CASE file.is = "doc"
  <2>1. Load(k) = UnmarshalToType(k, file.doc, z)
    BY <1>3 DEF Load, z
  <2> QED BY <1>1, <1>2, <2>1, Unmarshalling
<1>4. CASE file.is # "doc"
  BY <1>1, <1>4 DEF Load, z
<1> QED BY <1>3, <1>4

----------------------------------------------------------------------------
(* Types *)

LEMMA Vals ==
    ASSUME TypeOK
    PROVE  /\ shape \in Shapes /\ key \in Keys /\ val \in [Fields -> Texts]
           /\ [Fields -> Texts] \subseteq Seq(Texts)
           /\ \A v \in [Fields -> Texts] : v # <<>>
           /\ UserVals \subseteq [Fields -> Texts]
           /\ \A v \in UserVals : Parsed(v) /\ SecretsSet(v)
           /\ wpc \in [Writers -> WriterPcs]
<1>1. shape \in Shapes /\ key \in Keys /\ val \in [Fields -> Texts] /\ wpc \in [Writers -> WriterPcs]
  BY DEF TypeOK, WriterPcs
<1>2. [Fields -> Texts] \subseteq Seq(Texts)
  <2>1. Fields = 1..Len(shape) /\ Len(shape) \in Nat
    BY <1>1, ShapeFields
  <2> QED BY <2>1
<1>3. \A v \in [Fields -> Texts] : v # <<>>
  <2>1. 1 \in Fields
    BY <1>1, ShapeFields
  <2> QED BY <2>1
<1>4. \A v \in UserVals : v \in [Fields -> Texts] /\ Parsed(v) /\ SecretsSet(v)
  <2> SUFFICES ASSUME NEW v \in UserVals PROVE v \in [Fields -> Texts] /\ Parsed(v) /\ SecretsSet(v)
    OBVIOUS
  <2>1. v \in [Fields -> {Plain(x) : x \in Values}] /\ SecretsSet(v)
    BY DEF UserVals
  <2>2. \A i \in Fields : v[i] \in Texts /\ v[i].layers = <<>>
    BY <2>1, PlainText
  <2> QED BY <2>1, <2>2 DEF Parsed
<1> QED BY <1>1, <1>2, <1>3, <1>4

LEMMA TypeInit == Init => TypeInv
<1> SUFFICES ASSUME Init PROVE TypeInv
  OBVIOUS
<1> USE ShapeAssumption
<1>1. val \in [Fields -> Texts] /\ loaded \in [Fields -> Texts]
  BY ZeroText DEF Init
<1>2. up \in BOOLEAN /\ ok \in BOOLEAN /\ failed \in BOOLEAN /\ hurt \in BOOLEAN
  BY Zenon DEF Init
<1>3. <<>> \in Seq(PTypes) /\ <<>> \in Seq(Texts)
  OBVIOUS
<1>4. file \in [is : {"absent", "garbage", "doc"}, doc : Seq(PTypes)]
  BY <1>3 DEF Init, Absent
<1>5. stored \in [key : Keys, val : Seq(Texts)] /\ cache \in Seq(PTypes)
  BY <1>3 DEF Init
<1>6. wpc \in [Writers -> WriterPcs] /\ wval \in [Writers -> Seq(Texts)]
  BY <1>3 DEF Init, WriterPcs
<1>7. msgs \in 0..MaxMsgs /\ lives \in 0..MaxLives
  BY DEF Init
<1>8. TypeOK
  BY <1>1, <1>2, <1>4, <1>5, <1>6, <1>7 DEF Init, TypeOK, WriterPcs
<1>9. ReadInv
  BY DEF Init, ReadInv, Marshalled
<1> QED BY <1>8, <1>9 DEF TypeInv

\* The document of a writer that has marshalled the fields.
LEMMA DocType ==
    ASSUME TypeInv, NEW w \in Writers, Marshalled(w)
    PROVE  Doc(w) \in Seq(PTypes) /\ Doc(w) # <<>>
BY Marshalling, Vals DEF TypeInv, ReadInv, Doc

LEMMA TypeStart == ASSUME TypeInv, Start, UNCHANGED shape PROVE TypeInv'
<1>0. TypeOK /\ Fields' = Fields
  BY DEF TypeInv, Fields
<1>1. PICK k \in Keys, v \in UserVals :
         key' = k /\ loaded' = Load(k) /\ val' \in {v, loaded'} /\ SecretsSet(val')
  BY DEF Start
<1>2. loaded' \in [Fields -> Texts] /\ val' \in [Fields -> Texts] /\ key' \in Keys
  BY <1>0, <1>1, Loading, Vals
<1>3. up' \in BOOLEAN /\ lives' \in 0..MaxLives /\ msgs' \in 0..MaxMsgs
  <2>1. up' = TRUE /\ lives' = lives + 1 /\ msgs' = 0 /\ lives < MaxLives
    BY DEF Start
  <2>2. lives \in 0..MaxLives
    BY <1>0 DEF TypeOK
  <2> QED BY <2>1, <2>2, ShapeAssumption
<1>4. wpc' \in [Writers -> WriterPcs] /\ \A w \in Writers : Marshalled(w)' => Marshalled(w)
  BY <1>0, Vals DEF Start, Marshalled, WriterPcs
<1>5. TypeOK'
  BY <1>0, <1>2, <1>3, <1>4 DEF TypeOK, Start, WriterPcs
<1>6. ReadInv'
  BY <1>0, <1>4 DEF TypeInv, ReadInv, Start
<1> QED BY <1>5, <1>6 DEF TypeInv

LEMMA TypeCall == ASSUME TypeInv, Handle \/ FsmCall, UNCHANGED shape PROVE TypeInv'
<1>0. TypeOK /\ Fields' = Fields
  BY DEF TypeInv, Fields
<1>1. val' \in [Fields -> Texts]
  BY <1>0, Vals DEF Handle, FsmCall
<1>2. wpc' \in [Writers -> WriterPcs] /\ \A w \in Writers : Marshalled(w)' => Marshalled(w)
  BY <1>0, Vals DEF Handle, FsmCall, Marshalled, WriterPcs
<1>3. msgs' \in 0..MaxMsgs
  <2>1. msgs' = msgs + 1 /\ msgs < MaxMsgs
    BY DEF Handle, FsmCall
  <2>2. msgs \in 0..MaxMsgs
    BY <1>0 DEF TypeOK
  <2> QED BY <2>1, <2>2, ShapeAssumption
<1>4. TypeOK'
  BY <1>0, <1>1, <1>2, <1>3 DEF TypeOK, Handle, FsmCall, WriterPcs
<1>5. ReadInv'
  BY <1>0, <1>2 DEF TypeInv, ReadInv, Handle, FsmCall
<1> QED BY <1>4, <1>5 DEF TypeInv

LEMMA TypeCrash == ASSUME TypeInv, Crash, UNCHANGED shape PROVE TypeInv'
<1>0. TypeOK /\ Fields' = Fields
  BY DEF TypeInv, Fields
<1>1. val' \in [Fields -> Texts]
  BY ZeroText DEF Crash
<1>2. up' \in BOOLEAN /\ ok' \in BOOLEAN /\ failed' \in BOOLEAN /\ hurt' \in BOOLEAN
  BY Zenon DEF Crash
<1>3. wpc' \in [Writers -> WriterPcs] /\ wval' \in [Writers -> Seq(Texts)] /\ cache' \in Seq(PTypes)
  BY DEF Crash, WriterPcs
<1>4. TypeOK'
  BY <1>0, <1>1, <1>2, <1>3 DEF TypeOK, Crash, WriterPcs
<1>5. ReadInv'
  BY DEF ReadInv, Marshalled, Crash
<1> QED BY <1>4, <1>5 DEF TypeInv

LEMMA TypeMarshal == ASSUME TypeInv, NEW w \in Writers, Marshal(w), UNCHANGED shape PROVE TypeInv'
<1>0. TypeOK /\ Fields' = Fields
  BY DEF TypeInv, Fields
<1>1. val \in [Fields -> Texts] /\ val \in Seq(Texts)
  BY <1>0, Vals
<1>2. /\ wpc' \in [Writers -> WriterPcs] /\ wval' \in [Writers -> Seq(Texts)]
      /\ wval'[w] = val /\ \A u \in Writers : u # w => wval'[u] = wval[u] /\ wpc'[u] = wpc[u]
  BY <1>0, <1>1 DEF TypeOK, Marshal, WriterPcs
<1>3. TypeOK'
  BY <1>0, <1>2 DEF TypeOK, Marshal, WriterPcs
<1>4. ReadInv'
  BY <1>0, <1>1, <1>2 DEF TypeInv, ReadInv, Marshalled
<1> QED BY <1>3, <1>4 DEF TypeInv

LEMMA TypeCompare == ASSUME TypeInv, NEW w \in Writers, Compare(w), UNCHANGED shape PROVE TypeInv'
<1>0. TypeOK /\ Fields' = Fields /\ Marshalled(w)
  BY DEF TypeInv, Fields, Compare, Marshalled
<1>1. wpc' \in [Writers -> WriterPcs] /\ \A u \in Writers : Marshalled(u)' => Marshalled(u)
  BY <1>0, Vals DEF Compare, Marshalled, WriterPcs
<1>2. cache' \in Seq(PTypes)
  BY <1>0, DocType DEF Compare, TypeOK
<1>3. ok' \in BOOLEAN
  <2>1. ok \in BOOLEAN
    BY <1>0 DEF TypeOK
  <2> QED BY <2>1 DEF Compare
<1>4. TypeOK'
  BY <1>0, <1>1, <1>2, <1>3 DEF TypeOK, Compare, WriterPcs
<1>5. ReadInv'
  BY <1>0, <1>1 DEF TypeInv, ReadInv, Compare
<1> QED BY <1>4, <1>5 DEF TypeInv

LEMMA TypeCreate == ASSUME TypeInv, NEW w \in Writers, Create(w), UNCHANGED shape PROVE TypeInv'
<1>0. TypeOK /\ Fields' = Fields /\ Marshalled(w)
  BY DEF TypeInv, Fields, Create, Marshalled
<1>1. wpc' \in [Writers -> WriterPcs] /\ \A u \in Writers : Marshalled(u)' => Marshalled(u)
  BY <1>0, Vals DEF Create, Marshalled, WriterPcs
<1>2. file' \in [is : {"absent", "garbage", "doc"}, doc : Seq(PTypes)]
  <2>1. Garbage \in [is : {"absent", "garbage", "doc"}, doc : Seq(PTypes)]
    BY DEF Garbage
  <2>2. file \in [is : {"absent", "garbage", "doc"}, doc : Seq(PTypes)]
    BY <1>0 DEF TypeOK
  <2> QED BY <2>1, <2>2 DEF Create
<1>3. ok' \in BOOLEAN /\ failed' \in BOOLEAN
  <2>1. ok \in BOOLEAN /\ failed \in BOOLEAN
    BY <1>0 DEF TypeOK
  <2> QED BY <2>1 DEF Create
<1>4. TypeOK'
  BY <1>0, <1>1, <1>2, <1>3 DEF TypeOK, Create, WriterPcs
<1>5. ReadInv'
  BY <1>0, <1>1 DEF TypeInv, ReadInv, Create
<1> QED BY <1>4, <1>5 DEF TypeInv

LEMMA TypeWrite == ASSUME TypeInv, NEW w \in Writers, Write(w), UNCHANGED shape PROVE TypeInv'
<1>0. TypeOK /\ Fields' = Fields /\ Marshalled(w)
  BY DEF TypeInv, Fields, Write, Marshalled
<1>1. wpc' \in [Writers -> WriterPcs] /\ \A u \in Writers : Marshalled(u)' => Marshalled(u)
  BY <1>0, Vals DEF Write, Marshalled, WriterPcs
<1>2. file' \in [is : {"absent", "garbage", "doc"}, doc : Seq(PTypes)]
  <2>1. File(Doc(w)) \in [is : {"absent", "garbage", "doc"}, doc : Seq(PTypes)]
    BY <1>0, DocType DEF File
  <2>2. Garbage \in [is : {"absent", "garbage", "doc"}, doc : Seq(PTypes)]
    BY DEF Garbage
  <2>3. file' \in {File(Doc(w)), Garbage}
    BY DEF Write
  <2> QED BY <2>1, <2>2, <2>3
<1>3. ok' \in BOOLEAN /\ failed' \in BOOLEAN /\ hurt' \in BOOLEAN
  <2>1. failed \in BOOLEAN
    BY <1>0 DEF TypeOK
  <2> QED BY <2>1 DEF Write
<1>4. stored' \in [key : Keys, val : Seq(Texts)]
  BY <1>0, Vals DEF Write, TypeOK
<1>5. TypeOK'
  BY <1>0, <1>1, <1>2, <1>3, <1>4 DEF TypeOK, Write, WriterPcs
<1>6. ReadInv'
  BY <1>0, <1>1 DEF TypeInv, ReadInv, Write
<1> QED BY <1>5, <1>6 DEF TypeInv

LEMMA TypeStep == TypeInv /\ [Next]_vars => TypeInv'
<1> SUFFICES ASSUME TypeInv, [Next]_vars PROVE TypeInv'
  OBVIOUS
<1>1. CASE UNCHANGED vars
  BY <1>1 DEF vars, TypeInv, TypeOK, ReadInv, Fields, Marshalled
<1> QED BY <1>1, TypeStart, TypeCall, TypeCrash, TypeMarshal, TypeCompare, TypeCreate, TypeWrite
        DEF Next

\* Whatever key the process is started with and whatever the file holds: the fields,
\* the documents and the file keep their types, also when persist overlaps itself.
THEOREM TypeCorrect == Spec => []TypeOK
<1>1. TypeInv => TypeOK
  BY DEF TypeInv
<1> QED BY <1>1, TypeInit, TypeStep, PTL DEF Spec

----------------------------------------------------------------------------
(* One writer at a time: what the cache and the file hold *)

LEMMA StoreInit == Init => StoreInv
<1> SUFFICES ASSUME Init PROVE StoreInv
  OBVIOUS
<1>1. ~up /\ Idle /\ cache = <<>>
  BY DEF Init, Idle
<1>2. SerialInv /\ FreshInv
  BY <1>1 DEF SerialInv, FreshInv, Idle, Marshalled
<1>3. CacheInv /\ CurrentStored
  BY <1>1 DEF CacheInv, CurrentStored
<1> QED BY <1>2, <1>3 DEF StoreInv

\* What a step that changes one writer needs to know.
LEMMA Writing ==
    ASSUME TypeInv, StoreInv, NEW w \in Writers, wpc[w] # "idle"
    PROVE  up /\ \A u \in Writers : u # w => wpc[u] = "idle"
BY DEF StoreInv, SerialInv, Idle

LEMMA StoreStart == ASSUME TypeInv, StoreInv, Start, UNCHANGED shape PROVE StoreInv'
<1>0. ~up /\ Idle /\ cache = <<>> /\ cache' = cache /\ Fsm \in Writers
  BY DEF Start, StoreInv, SerialInv, Writers
<1>1. wpc'[Fsm] = "marshal" /\ \A u \in Writers : u # Fsm => wpc'[u] = "idle"
  BY <1>0, Vals DEF Start, Idle, TypeInv
<1>2. up' /\ ~Idle'
  BY <1>0, <1>1 DEF Start, Idle
<1>3. SerialInv' /\ FreshInv' /\ CacheInv'
  BY <1>0, <1>1, <1>2 DEF SerialInv, FreshInv, CacheInv, Marshalled
<1> QED BY <1>2, <1>3 DEF StoreInv, CurrentStored

LEMMA StoreCall ==
    ASSUME ~Overlap, TypeInv, StoreInv, Handle \/ FsmCall, UNCHANGED shape
    PROVE  StoreInv'
<1>0. up /\ Idle /\ up' = up /\ UNCHANGED <<key, cache, file, wval, failed>>
  BY DEF Handle, FsmCall
<1>1. PICK w \in Writers : wpc' = [wpc EXCEPT ![w] = "marshal"]
  BY DEF Handle, FsmCall, Writers
<1>2. wpc'[w] = "marshal" /\ \A u \in Writers : u # w => wpc'[u] = "idle"
  BY <1>0, <1>1, Vals DEF Idle, TypeInv
<1>3. ~Idle'
  BY <1>2 DEF Idle
<1>4. SerialInv' /\ FreshInv'
  BY <1>0, <1>2 DEF SerialInv, FreshInv, Marshalled
<1>5. CacheInv'
  BY <1>0 DEF StoreInv, CacheInv, Idle
<1> QED BY <1>3, <1>4, <1>5 DEF StoreInv, CurrentStored

LEMMA StoreCrash == ASSUME TypeInv, StoreInv, Crash, UNCHANGED shape PROVE StoreInv'
<1>0. ~up' /\ cache' = <<>> /\ \A w \in Writers : wpc'[w] = "idle"
  BY DEF Crash
<1>1. SerialInv' /\ FreshInv'
  BY <1>0 DEF SerialInv, FreshInv, Idle, Marshalled
<1> QED BY <1>0, <1>1 DEF StoreInv, CacheInv, CurrentStored

LEMMA StoreMarshal ==
    ASSUME TypeInv, StoreInv, NEW w \in Writers, Marshal(w), UNCHANGED shape
    PROVE  StoreInv'
<1>0. wpc[w] = "marshal" /\ UNCHANGED <<up, key, val, cache, file, ok, failed>>
  BY DEF Marshal
<1>1. up /\ \A u \in Writers : u # w => wpc[u] = "idle"
  BY <1>0, Writing
<1>2. /\ wpc'[w] = "compare" /\ wval'[w] = val
      /\ \A u \in Writers : u # w => wpc'[u] = "idle"
  BY <1>1, Vals DEF Marshal, TypeInv, TypeOK
<1>3. SerialInv' /\ FreshInv'
  BY <1>0, <1>1, <1>2 DEF SerialInv, FreshInv, Marshalled
<1>4. CacheInv'
  <2>1. \A u \in Writers : wpc[u] \notin {"create", "write"}
    BY <1>0, <1>1
  <2> QED BY <1>0, <2>1 DEF StoreInv, CacheInv
<1>5. ~Idle'
  BY <1>2 DEF Idle
<1> QED BY <1>3, <1>4, <1>5 DEF StoreInv, CurrentStored

\* The comparison with the cache skips an update only if the file is up to date.
LEMMA StoreCompare ==
    ASSUME TypeInv, StoreInv, NEW w \in Writers, Compare(w), UNCHANGED shape
    PROVE  StoreInv'
<1>0. wpc[w] = "compare" /\ UNCHANGED <<up, key, val, file, wval, failed>> /\ Marshalled(w)
  BY DEF Compare, Marshalled
<1>1. up /\ \A u \in Writers : u # w => wpc[u] = "idle"
  BY <1>0, Writing
<1>2. wval[w] = val
  BY <1>0 DEF StoreInv, FreshInv
<1>3. Doc(w)' = Doc(w)
  BY <1>0 DEF Doc, MarshalType, Fields
<1>4. MarshalType(key, val)' = Doc(w)
  BY <1>0, <1>2 DEF Doc, MarshalType, Fields
<1>5. Doc(w) # <<>> /\ DOMAIN Doc(w) = Fields
      /\ \A i \in Fields : Doc(w)[i].isEncrypted <=> shape[i].tag = "encrypt"
  BY <1>0, <1>2, Marshalling, Vals DEF Doc, TypeInv
<1>6. CASE SameBytes(Doc(w), cache) /\ wpc' = [wpc EXCEPT ![w] = "idle"] /\ UNCHANGED cache
  <2>1. \A u \in Writers : wpc'[u] = "idle"
    BY <1>1, <1>6, Vals DEF TypeInv
  <2>2. SerialInv' /\ FreshInv'
    BY <1>0, <1>1, <2>1 DEF SerialInv, FreshInv, Marshalled
  <2>3. \A u \in Writers : wpc[u] \notin {"create", "write"}
    BY <1>0, <1>1
  <2>4. CacheInv'
    BY <1>0, <1>6, <2>3 DEF StoreInv, CacheInv
  <2>5. cache = Doc(w) /\ \A i \in Fields : shape[i].tag # "encrypt"
    BY <1>5, <1>6 DEF SameBytes
  <2>6. ~failed => file = File(Doc(w))
    BY <1>1, <1>5, <2>3, <2>5 DEF StoreInv, CacheInv
  <2>7. CurrentStored'
    <3> SUFFICES ASSUME failed' => \E i \in Fields' : shape'[i].tag = "encrypt"
                 PROVE  file' = File(MarshalType(key, val))'
      BY DEF CurrentStored
    <3>1. ~failed
      BY <1>0, <2>5 DEF Fields
    <3> QED BY <1>0, <1>4, <2>6, <3>1 DEF File
  <2> QED BY <2>2, <2>4, <2>7 DEF StoreInv
<1>7. CASE cache' = Doc(w) /\ wpc' = [wpc EXCEPT ![w] = "create"]
  <2>1. wpc'[w] = "create" /\ \A u \in Writers : u # w => wpc'[u] = "idle"
    BY <1>1, <1>7, Vals DEF TypeInv
  <2>2. SerialInv' /\ FreshInv'
    BY <1>0, <1>1, <1>2, <1>3, <1>7, <2>1 DEF SerialInv, FreshInv, Marshalled
  <2>3. CacheInv' /\ ~Idle'
    BY <2>1 DEF CacheInv, Idle
  <2> QED BY <2>2, <2>3 DEF StoreInv, CurrentStored
<1> QED BY <1>6, <1>7 DEF Compare

LEMMA StoreCreate ==
    ASSUME TypeInv, StoreInv, NEW w \in Writers, Create(w), UNCHANGED shape
    PROVE  StoreInv'
<1>0. wpc[w] = "create" /\ UNCHANGED <<up, key, val, cache, wval>> /\ Marshalled(w)
  BY DEF Create, Marshalled
<1>1. up /\ \A u \in Writers : u # w => wpc[u] = "idle"
  BY <1>0, Writing
<1>2. wval[w] = val /\ cache = Doc(w) /\ Doc(w)' = Doc(w)
  BY <1>0 DEF StoreInv, FreshInv, Doc, MarshalType, Fields
<1>3. CASE wpc' = [wpc EXCEPT ![w] = "write"] /\ file' = Garbage
  <2>1. wpc'[w] = "write" /\ \A u \in Writers : u # w => wpc'[u] = "idle"
    BY <1>1, <1>3, Vals DEF TypeInv
  <2>2. SerialInv' /\ FreshInv'
    <3>1. Garbage' = Garbage
      BY DEF Garbage
    <3> QED BY <1>0, <1>1, <1>2, <1>3, <2>1, <3>1 DEF SerialInv, FreshInv, Marshalled
  <2>3. CacheInv' /\ ~Idle'
    BY <2>1 DEF CacheInv, Idle
  <2> QED BY <2>2, <2>3 DEF StoreInv, CurrentStored
<1>4. CASE wpc' = [wpc EXCEPT ![w] = "idle"] /\ ok' = FALSE /\ failed' = TRUE
  <2>1. \A u \in Writers : wpc'[u] = "idle"
    BY <1>1, <1>4, Vals DEF TypeInv
  <2>2. SerialInv' /\ FreshInv'
    BY <1>0, <1>1, <2>1 DEF SerialInv, FreshInv, Marshalled
  <2> QED BY <1>4, <2>2 DEF StoreInv, CacheInv, CurrentStored
<1> QED BY <1>3, <1>4 DEF Create

LEMMA StoreWrite ==
    ASSUME TypeInv, StoreInv, NEW w \in Writers, Write(w), UNCHANGED shape
    PROVE  StoreInv'
<1>0. wpc[w] = "write" /\ UNCHANGED <<up, key, val, cache, wval>> /\ Marshalled(w)
      /\ wpc' = [wpc EXCEPT ![w] = "idle"]
  BY DEF Write, Marshalled
<1>1. up /\ \A u \in Writers : u # w => wpc[u] = "idle"
  BY <1>0, Writing
<1>2. wval[w] = val /\ cache = Doc(w) /\ file = Garbage
  BY <1>0 DEF StoreInv, FreshInv
<1>3. \A u \in Writers : wpc'[u] = "idle"
  BY <1>0, <1>1, Vals DEF TypeInv
<1>4. SerialInv' /\ FreshInv'
  BY <1>0, <1>1, <1>3 DEF SerialInv, FreshInv, Marshalled
<1>5. MarshalType(key, val)' = Doc(w)
  BY <1>0, <1>2 DEF Doc, MarshalType, Fields
<1>6. CASE file' \in {File(Doc(w))} \union (IF file = Garbage THEN {} ELSE {Garbage})
  <2>1. file' = File(Doc(w))
    BY <1>2, <1>6
  <2>2. CacheInv' /\ CurrentStored'
    BY <1>0, <1>2, <1>5, <2>1 DEF CacheInv, CurrentStored, File
  <2> QED BY <1>4, <2>2 DEF StoreInv
<1>7. CASE ok' = FALSE /\ failed' = TRUE
  BY <1>4, <1>7 DEF StoreInv, CacheInv, CurrentStored
<1> QED BY <1>6, <1>7 DEF Write

LEMMA StoreStep == ~Overlap => (TypeInv /\ StoreInv /\ [Next]_vars => StoreInv')
<1> SUFFICES ASSUME ~Overlap, TypeInv, StoreInv, [Next]_vars PROVE StoreInv'
  OBVIOUS
<1>1. CASE UNCHANGED vars
  <2>1. SerialInv' /\ FreshInv' /\ CacheInv'
    BY <1>1 DEF vars, StoreInv, SerialInv, FreshInv, CacheInv, Idle, Marshalled, Doc, MarshalType, Fields,
                Garbage, File
  <2>2. CurrentStored'
    BY <1>1 DEF vars, StoreInv, CurrentStored, Idle, MarshalType, Fields, File
  <2> QED BY <2>1, <2>2 DEF StoreInv
<1> QED BY <1>1, StoreStart, StoreCall, StoreCrash, StoreMarshal, StoreCompare, StoreCreate, StoreWrite
        DEF Next

\* When the calls of persist do not overlap: after one that returned nil the
\* database holds the fields as they are now, whatever failed or crashed before.
\* The comparison with persistanceCache skips no update that is needed.
THEOREM CurrentIsStored == ~Overlap => (Spec => []CurrentStored)
<1> SUFFICES ASSUME ~Overlap PROVE Spec => []CurrentStored
  OBVIOUS
<1>1. Init => TypeInv /\ StoreInv
  BY TypeInit, StoreInit
<1>2. TypeInv /\ StoreInv /\ [Next]_vars => (TypeInv /\ StoreInv)'
  BY TypeStep, StoreStep
<1>3. TypeInv /\ StoreInv => CurrentStored
  BY DEF StoreInv
<1> QED BY <1>1, <1>2, <1>3, PTL DEF Spec

----------------------------------------------------------------------------
(* What a later process finds *)

\* When load can restore what persist stored: the calls of persist do not overlap,
\* no secret is empty (a decryption that yields the empty string is taken for one
\* that failed), the fields of a struct have names of their own (load's map is keyed
\* by them) and the tags and kinds that unmarshalToType knows.
Restorable ==
    /\ ~Overlap /\ ~EmptySecrets
    /\ \A s \in Shapes : \A i \in 1..Len(s) :
          /\ s[i].tag \in {"native", "encrypt"} /\ s[i].kind \in {"string", "int", "bool"}
          /\ \A j \in 1..Len(s) : s[i].name = s[j].name => i = j

\* An entry of the document sets its field back to what it was, encrypted or not.
LEMMA FieldBack ==
    ASSUME Restorable, shape \in Shapes, NEW k \in Keys, NEW v, GoodVal(v), NEW i \in Fields, NEW old
    PROVE  SetField(k, i, MarshalType(k, v)[i], old) = v[i]
<1> DEFINE p == MarshalType(k, v)[i]
<1>1. v \in [Fields -> Texts] /\ v[i] \in Texts
  BY DEF GoodVal
<1>2. /\ p.text = IF shape[i].tag = "encrypt" THEN Encrypt(k, v[i]) ELSE v[i]
      /\ p.isEncrypted <=> shape[i].tag = "encrypt"
  BY <1>1, Marshalling
<1>3. /\ shape[i].tag \in {"native", "encrypt"} /\ shape[i].kind \in {"string", "int", "bool"}
      /\ shape[i].tag = "encrypt" => ~IsEmpty(i, v[i])
  BY DEF Restorable, Fields, GoodVal, SecretsSet
<1> HIDE DEF p
<1>4. ClearText(k, i, p) = v[i]
  <2>1. CASE shape[i].tag = "encrypt"
    <3>1. p.text = Encrypt(k, v[i]) /\ p.isEncrypted
      BY <1>2, <2>1
    <3>2. Decryptable(k, p.text) /\ Decrypt(k, p.text) = v[i]
      BY <1>1, <3>1, EncryptText
    <3> QED BY <1>3, <2>1, <3>1, <3>2 DEF ClearText
  <2>2. CASE shape[i].tag # "encrypt"
    BY <1>2, <2>2 DEF ClearText
  <2> QED BY <2>1, <2>2
<1>5. shape[i].kind \in {"int", "bool"} => v[i].layers = <<>>
  BY DEF GoodVal
<1>6. SetField(k, i, p, old) = v[i]
  BY <1>3, <1>4, <1>5 DEF SetField
<1> QED BY <1>6 DEF p

\* unmarshalToType undoes marshalType under the same key.
LEMMA RoundTrip ==
    ASSUME Restorable, shape \in Shapes, NEW k \in Keys, NEW v, GoodVal(v), NEW z
    PROVE  UnmarshalToType(k, MarshalType(k, v), z) = v
<1> DEFINE d == MarshalType(k, v)
           c(i) == /\ shape[i].tag \in {"native", "encrypt"}
                   /\ \E j \in DOMAIN d : d[j].name = shape[i].name
                   /\ Entry(d, shape[i].name).path = shape[i].path
           e(i) == IF c(i) THEN SetField(k, i, Entry(d, shape[i].name), z[i]) ELSE z[i]
<1>1. v \in [Fields -> Texts]
  BY DEF GoodVal
<1>2. /\ d \in Seq(PTypes) /\ DOMAIN d = Fields
      /\ \A i \in Fields : d[i].name = shape[i].name /\ d[i].path = shape[i].path
  BY <1>1, Marshalling
<1>3. UnmarshalToType(k, d, z) = [i \in Fields |-> e(i)]
  BY DEF UnmarshalToType
<1>4. ASSUME NEW i \in Fields PROVE e(i) = v[i]
  <2>1. PICK j \in DOMAIN d : Entry(d, shape[i].name) = d[j] /\ d[j].name = shape[i].name
    <3> HIDE DEF d
    <3>1. \E j \in DOMAIN d : d[j].name = shape[i].name
      BY <1>2
    <3> QED BY <1>2, <3>1, EntryFound
  <2>2. Entry(d, shape[i].name) = d[i]
    <3> HIDE DEF d
    <3>1. j \in Fields /\ shape[j].name = shape[i].name
      BY <1>2, <2>1
    <3> QED BY <2>1, <3>1 DEF Restorable, Fields
  <2>3. shape[i].tag \in {"native", "encrypt"}
    BY DEF Restorable, Fields
  <2>4. SetField(k, i, d[i], z[i]) = v[i]
    BY FieldBack
  <2> HIDE DEF d
  <2>5. c(i)
    BY <1>2, <2>2, <2>3
  <2> HIDE DEF c
  <2> QED BY <2>2, <2>4, <2>5
<1> HIDE DEF d, e
<1>5. UnmarshalToType(k, d, z) = [i \in Fields |-> v[i]]
  BY <1>3, <1>4
<1>6. v = [i \in Fields |-> v[i]]
  BY <1>1
<1> QED BY <1>5, <1>6 DEF d

LEMMA GoodStep == TypeInv /\ StoreInv /\ GoodInv /\ [Next]_vars => GoodInv'
<1> SUFFICES ASSUME TypeInv, StoreInv, GoodInv, [Next]_vars PROVE GoodInv'
  OBVIOUS
<1>0. TypeOK /\ shape' = shape /\ Fields' = Fields
  BY DEF TypeInv, Next, vars, Fields
<1>1. \A v : GoodVal(v)' <=> GoodVal(v)
  BY <1>0 DEF GoodVal, SecretsSet, IsEmpty, Fields
<1>2. (up => GoodVal(val)) /\ (stored.val # <<>> => GoodVal(stored.val))
  BY DEF GoodInv
<1>3. \A v \in UserVals : GoodVal(v)
  BY <1>0, Vals DEF GoodVal, Parsed
<1>4. up' => GoodVal(val')
  <2>1. CASE Start
    <3>1. PICK k \in Keys, v \in UserVals :
             key' = k /\ loaded' = Load(k) /\ val' \in {v, loaded'} /\ SecretsSet(val')
      BY <2>1 DEF Start
    <3>2. val' \in [Fields -> Texts] /\ Parsed(val')
      BY <1>0, <3>1, Loading, Vals
    <3> QED BY <3>1, <3>2 DEF GoodVal, Parsed
  <2>2. CASE Handle
    BY <1>2, <1>3, <2>2 DEF Handle
  <2>3. CASE Crash
    BY <2>3 DEF Crash
  <2>4. CASE UNCHANGED <<up, val>>
    BY <1>2, <2>4
  <2> QED BY <2>1, <2>2, <2>3, <2>4 DEF Next, vars, FsmCall, Marshal, Compare, Create, Write
<1>5. stored'.val # <<>> => GoodVal(stored'.val)
  <2>1. CASE \E w \in Writers : Write(w)
    <3>1. PICK w \in Writers : Write(w)
      BY <2>1
    <3>2. up /\ wval[w] = val
      BY <3>1, Writing DEF Write, StoreInv, FreshInv, Marshalled
    <3>3. stored' = stored \/ stored'.val = val
      BY <3>1, <3>2 DEF Write
    <3> QED BY <1>2, <3>2, <3>3
  <2>2. CASE UNCHANGED stored
    BY <1>2, <2>2
  <2> QED BY <2>1, <2>2 DEF Next, vars, Start, Handle, FsmCall, Crash, Marshal, Compare, Create
<1> QED BY <1>0, <1>4, <1>5 DEF GoodInv, GoodVal, SecretsSet, IsEmpty, Fields, Plain

LEMMA LastStep == TypeInv /\ StoreInv /\ LastInv /\ [Next]_vars => LastInv'
<1> SUFFICES ASSUME TypeInv, StoreInv, LastInv, [Next]_vars PROVE LastInv'
  OBVIOUS
<1> DEFINE writing == \E w \in Writers : wpc[w] = "write"
           last == file = File(MarshalType(stored.key, stored.val))
<1>0. TypeOK /\ shape' = shape /\ wpc \in [Writers -> WriterPcs]
  BY Vals DEF TypeInv, Next, vars
<1>1. stored' = stored => MarshalType(stored.key, stored.val)' = MarshalType(stored.key, stored.val)
  BY <1>0 DEF MarshalType, Fields, Encrypt
<1>2. stored' = stored /\ file' = file => (last <=> last')
  BY <1>1 DEF File
<1>3. stored.val # <<>> /\ ~hurt => writing \/ last
  BY DEF LastInv
<1>4. LastInv' <=> (stored'.val # <<>> /\ ~hurt' => writing' \/ last')
  BY DEF LastInv
<1> HIDE DEF last
<1>5. CASE UNCHANGED <<stored, hurt, file, wpc>>
  BY <1>2, <1>3, <1>4, <1>5
<1>6. CASE Start \/ Handle \/ FsmCall
  <2>1. UNCHANGED <<stored, hurt, file>>
    BY <1>6 DEF Start, Handle, FsmCall
  <2>2. writing => writing'
    <3>1. Start => Idle
      BY DEF Start, StoreInv, SerialInv
    <3>2. \A w \in Writers : wpc[w] = "write" => wpc'[w] = "write"
      BY <1>0, <1>6, <3>1 DEF Start, Handle, FsmCall, Idle
    <3> QED BY <3>2
  <2> QED BY <1>2, <1>3, <1>4, <2>1, <2>2
<1>7. CASE Crash
  <2>1. UNCHANGED <<stored, file>> /\ (~hurt' => ~hurt /\ ~writing)
    BY <1>7 DEF Crash
  <2> QED BY <1>2, <1>3, <1>4, <2>1
<1>8. ASSUME NEW w \in Writers, Marshal(w) \/ Compare(w) \/ Create(w) \/ Write(w) PROVE LastInv'
  <2>1. \A u \in Writers : u # w => wpc[u] = "idle"
    BY <1>8, Writing DEF Marshal, Compare, Create, Write
  <2>2. CASE (Marshal(w) \/ Compare(w) \/ Create(w)) /\ file' = file
    <3>1. ~writing
      BY <2>1, <2>2 DEF Marshal, Compare, Create
    <3>2. UNCHANGED <<stored, hurt>>
      BY <2>2 DEF Marshal, Compare, Create
    <3> QED BY <1>2, <1>3, <1>4, <2>2, <3>1, <3>2
  <2>3. CASE Create(w) /\ wpc' = [wpc EXCEPT ![w] = "write"]
    <3>1. wpc'[w] = "write"
      BY <1>0, <2>3
    <3> QED BY <1>4, <3>1
  <2>4. CASE Write(w)
    <3>1. CASE hurt'
      BY <1>4, <3>1
    <3>2. CASE ~hurt'
      <4>1. file = Garbage
        BY <2>4 DEF Write, StoreInv, FreshInv
      <4>2. file' = File(Doc(w)) /\ stored' = [key |-> key, val |-> wval[w]]
        BY <2>4, <3>2, <4>1 DEF Write
      <4>3. MarshalType(stored.key, stored.val)' = Doc(w)
        BY <1>0, <4>2 DEF MarshalType, Fields, Encrypt, Doc
      <4> QED BY <1>4, <4>2, <4>3 DEF File, last
    <3> QED BY <3>1, <3>2
  <2> QED BY <1>8, <2>2, <2>3, <2>4 DEF Marshal, Compare, Create
<1> QED BY <1>5, <1>6, <1>7, <1>8 DEF Next, vars

\* A process started with the key of the last one that stored loads what it stored.
LEMMA StartLoads ==
    ASSUME Restorable, Inv, [Next]_vars, ~up, up', stored.val # <<>>, ~hurt, key' = stored.key
    PROVE  loaded' = stored.val
<1>1. Start
  BY DEF Next, vars, Handle, FsmCall, Crash, Marshal, Compare, Create, Write, Inv, StoreInv, SerialInv, Idle
<1>2. loaded' = Load(stored.key)
  BY <1>1 DEF Start
<1>3. file = File(MarshalType(stored.key, stored.val))
  BY DEF Inv, LastInv, StoreInv, SerialInv, Idle
<1>4. shape \in Shapes /\ stored.key \in Keys
  BY DEF Inv, TypeInv, TypeOK
<1>5. GoodVal(stored.val)
  BY DEF Inv, GoodInv
<1> DEFINE z == [i \in Fields |-> Plain(Zero)]
<1>6. Load(stored.key) = UnmarshalToType(stored.key, MarshalType(stored.key, stored.val), z)
  BY <1>3 DEF Load, File
<1> HIDE DEF z
<1> QED BY <1>2, <1>4, <1>5, <1>6, RoundTrip

\* When the calls of persist do not overlap, and the struct is one load can restore
\* (distinct names, known tags and kinds, secrets that are not empty): after any
\* crashes and failed Updates a process started with the same key finds the fields
\* stored last, unless the last Update was cut short.
THEOREM FieldsAreRestored == Restorable => (Spec => RestoredOnStart)
<1> SUFFICES ASSUME Restorable PROVE Spec => RestoredOnStart
  OBVIOUS
<1>1. Init => Inv
  <2>1. Init => GoodInv /\ LastInv
    BY DEF Init, GoodInv, LastInv
  <2> QED BY <2>1, TypeInit, StoreInit DEF Inv
<1>2. Inv /\ [Next]_vars => Inv'
  <2>1. ~Overlap
    BY DEF Restorable
  <2> QED BY <2>1, TypeStep, StoreStep, GoodStep, LastStep DEF Inv
<1>3. Inv /\ [Next]_vars
        => [(~up /\ up' /\ stored.val # <<>> /\ ~hurt /\ key' = stored.key) => loaded' = stored.val]_vars
  BY StartLoads
<1> QED BY <1>1, <1>2, <1>3, PTL DEF Spec, RestoredOnStart
=============================================================================
