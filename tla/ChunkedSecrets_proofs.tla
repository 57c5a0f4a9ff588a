------------------------ MODULE ChunkedSecrets_proofs ------------------------
(***************************************************************************)
(* Proofs about ChunkedSecrets.                                            *)
(***************************************************************************)
EXTENDS ChunkedSecrets, SequenceTheorems, TLAPS

-----------------------------------------------------------------------------
(* The chunks of a release                                                 *)

(* Where the i-th chunk of a release ends.                                 *)
End(r, i) == IF i = Len(Parts[r]) THEN Len(Encoding[r]) ELSE i * ChunkSize

(* Division as the loop of encodeReleaseAsChunks needs it.                 *)
LEMMA DivisionBounds ==
    ASSUME NEW a \in Nat, NEW b \in Nat \ {0}
    PROVE  /\ a \div b \in Nat
           /\ (a \div b) * b <= a
           /\ a < (a \div b) * b + b
OBVIOUS

LEMMA ProductsGrow ==
    ASSUME NEW a \in Nat, NEW b \in Nat, a <= b
    PROVE  a * ChunkSize \in Nat /\ a * ChunkSize <= b * ChunkSize
<1>1. PICK d \in Nat : b = a + d
  OBVIOUS
<1>2. ChunkSize \in Nat
  BY DriverAssumption
<1> DEFINE x == a * ChunkSize
           y == d * ChunkSize
<1>3. x \in Nat /\ y \in Nat
  BY <1>2
<1>4. b * ChunkSize = x + y
  BY <1>1, <1>2
<1> QED
  BY <1>3, <1>4

LEMMA PartNumber ==
    ASSUME NEW r \in Releases
    PROVE  /\ (Len(Encoding[r]) + ChunkSize - 1) \div ChunkSize \in Nat
           /\ Len(Parts[r]) = (Len(Encoding[r]) + ChunkSize - 1) \div ChunkSize
<1>1. Encoding[r] \in Seq(Bytes) /\ Len(Encoding[r]) \in Nat \ {0}
  BY DriverAssumption, EmptySeq
<1>2. ChunkSize \in Nat \ {0}
  BY DriverAssumption
<1>3. Len(Encoding[r]) + ChunkSize - 1 \in Nat
  BY <1>1, <1>2
<1>4. (Len(Encoding[r]) + ChunkSize - 1) \div ChunkSize \in Nat
  BY <1>2, <1>3, DivisionBounds
<1> QED
  BY <1>4 DEF Parts, Split

(* How many chunks a release has.                                          *)
LEMMA PartCount ==
    ASSUME NEW r \in Releases
    PROVE  /\ Encoding[r] \in Seq(Bytes)
           /\ Len(Encoding[r]) \in Nat \ {0}
           /\ Len(Parts[r]) \in Nat \ {0}
           /\ DOMAIN Parts[r] = 1..Len(Parts[r])
           /\ (Len(Parts[r]) - 1) * ChunkSize < Len(Encoding[r])
           /\ Len(Encoding[r]) <= Len(Parts[r]) * ChunkSize
<1> DEFINE n == (Len(Encoding[r]) + ChunkSize - 1) \div ChunkSize
<1>1. Encoding[r] \in Seq(Bytes) /\ Len(Encoding[r]) \in Nat \ {0}
  BY DriverAssumption, EmptySeq
<1>2. ChunkSize \in Nat \ {0}
  BY DriverAssumption
<1>3. Len(Encoding[r]) + ChunkSize - 1 \in Nat
  BY <1>1, <1>2
<1>4. n \in Nat /\ n * ChunkSize <= Len(Encoding[r]) + ChunkSize - 1
        /\ Len(Encoding[r]) + ChunkSize - 1 < n * ChunkSize + ChunkSize
  BY <1>2, <1>3, DivisionBounds
<1>5. Len(Parts[r]) = n /\ DOMAIN Parts[r] = 1..n
  BY <1>4 DEF Parts, Split
<1> HIDE DEF n
<1>6. n * ChunkSize \in Nat /\ (n - 1) * ChunkSize = n * ChunkSize - ChunkSize
  BY <1>2, <1>4
<1>7. n # 0
  <2>1. SUFFICES ASSUME n = 0 PROVE FALSE
    OBVIOUS
  <2>2. n * ChunkSize = 0
    BY <1>2, <2>1
  <2> QED
    BY <1>1, <1>2, <1>4, <2>2
<1>8. Len(Encoding[r]) <= n * ChunkSize
  BY <1>1, <1>2, <1>4, <1>6
<1>9. (n - 1) * ChunkSize < Len(Encoding[r])
  <2> DEFINE p == n * ChunkSize
  <2>1. p \in Nat /\ p <= Len(Encoding[r]) + ChunkSize - 1 /\ (n - 1) * ChunkSize = p - ChunkSize
    BY <1>4, <1>6
  <2> HIDE DEF p
  <2> QED
    BY <2>1, <1>1, <1>2
<1> QED
  BY <1>1, <1>4, <1>5, <1>7, <1>8, <1>9

LEMMA EndBounds ==
    ASSUME NEW r \in Releases, NEW i \in 1..Len(Parts[r])
    PROVE  /\ End(r, i) \in 0..Len(Encoding[r])
           /\ (i - 1) * ChunkSize \in 0..End(r, i)
           /\ i # 1 => End(r, i - 1) = (i - 1) * ChunkSize
<1> DEFINE n == Len(Parts[r])
           l == Len(Encoding[r])
           before == (i - 1) * ChunkSize
           here == i * ChunkSize
<1>1. n \in Nat \ {0} /\ l \in Nat
  BY PartCount
<1>2. ChunkSize \in Nat \ {0}
  BY DriverAssumption
<1>3. before \in Nat /\ before <= (n - 1) * ChunkSize
  BY <1>1, ProductsGrow
<1>4. before < l
  BY <1>1, <1>2, <1>3, PartCount
<1>5. here \in Nat /\ before <= here
  BY <1>1, ProductsGrow
<1>6. i # n => here < l
  <2>1. SUFFICES ASSUME i # n PROVE here < l
    OBVIOUS
  <2>2. here <= (n - 1) * ChunkSize
    BY <1>1, <2>1, ProductsGrow
  <2> QED
    BY <1>1, <1>2, <1>5, <2>2, PartCount
<1>7. i # 1 => End(r, i - 1) = before
  BY <1>1 DEF End
<1> HIDE DEF before, here
<1> QED
  BY <1>1, <1>3, <1>4, <1>5, <1>6, <1>7 DEF End, before, here

LEMMA PartIs ==
    ASSUME NEW r \in Releases, NEW i \in 1..Len(Parts[r])
    PROVE  /\ Parts[r][i] = SubSeq(Encoding[r], (i - 1) * ChunkSize + 1, End(r, i))
           /\ Parts[r][i] \in Seq(Bytes)
<1>1. Parts[r][i] = SubSeq(Encoding[r], (i - 1) * ChunkSize + 1, End(r, i))
  <2> DEFINE n == (Len(Encoding[r]) + ChunkSize - 1) \div ChunkSize
  <2>1. n = Len(Parts[r])
    BY PartNumber
  <2>2. Parts[r] = [j \in 1..n |-> SubSeq(Encoding[r], (j - 1) * ChunkSize + 1,
                        IF j = n THEN Len(Encoding[r]) ELSE j * ChunkSize)]
    BY DEF Parts, Split
  <2> HIDE DEF n
  <2> QED
    BY <2>1, <2>2 DEF End
<1> DEFINE m == (i - 1) * ChunkSize + 1
<1>2. m \in Int /\ End(r, i) \in Int
      /\ \A j \in m .. End(r, i) : Encoding[r][j] \in Bytes
  BY EndBounds, PartCount, ElementOfSeq
<1> QED
  BY <1>1, <1>2, SubSeqProperties

LEMMA PartsType ==
    ASSUME NEW r \in Releases
    PROVE  Parts[r] \in Seq(Seq(Bytes))
<1>1. Parts[r] = [i \in 1..Len(Parts[r]) |-> Parts[r][i]]
  BY PartCount DEF Parts, Split
<1>2. \A i \in 1..Len(Parts[r]) : Parts[r][i] \in Seq(Bytes)
  BY PartIs
<1> DEFINE S == Seq(Bytes)
<1>3. Parts[r] \in [1..Len(Parts[r]) -> S]
  BY <1>1, <1>2
<1> HIDE DEF S
<1>4. Parts[r] \in Seq(S)
  BY <1>3, PartCount, SeqDef
<1> QED
  BY <1>4 DEF S

(* The chunks in their order are the release.                              *)
LEMMA FirstPart ==
    ASSUME NEW r \in Releases
    PROVE  Parts[r][1] = SubSeq(Encoding[r], 1, End(r, 1))
<1>1. 1 \in 1..Len(Parts[r])
  BY PartCount
<1>2. (1 - 1) * ChunkSize + 1 = 1
  BY DriverAssumption
<1>3. Parts[r][1] = SubSeq(Encoding[r], (1 - 1) * ChunkSize + 1, End(r, 1))
  BY <1>1, PartIs
<1> QED
  BY <1>2, <1>3

LEMMA NextPart ==
    ASSUME NEW r \in Releases, NEW i \in 1..Len(Parts[r]) - 1
    PROVE  SubSeq(Encoding[r], 1, End(r, i)) \o Parts[r][i + 1]
             = SubSeq(Encoding[r], 1, End(r, i + 1))
<1>1. i \in 1..Len(Parts[r]) /\ i + 1 \in 1..Len(Parts[r])
  BY PartCount
<1>2. End(r, i) = ((i + 1) - 1) * ChunkSize
  BY <1>1, EndBounds
<1>3. End(r, i) \in 0..End(r, i + 1) /\ End(r, i + 1) \in 0..Len(Encoding[r])
  BY <1>1, <1>2, EndBounds
<1>4. Parts[r][i + 1] = SubSeq(Encoding[r], End(r, i) + 1, End(r, i + 1))
  BY <1>1, <1>2, PartIs
<1> DEFINE e == End(r, i)
           f == End(r, i + 1)
<1>5. /\ 1 \in 1..Len(Encoding[r]) + 1 /\ e \in (1 - 1)..Len(Encoding[r])
      /\ f \in e..Len(Encoding[r])
  BY <1>3, PartCount
<1> HIDE DEF e, f
<1>6. SubSeq(Encoding[r], 1, e) \o SubSeq(Encoding[r], e + 1, f) = SubSeq(Encoding[r], 1, f)
  BY <1>5, PartCount, ConcatAdjacentSubSeq
<1> QED
  BY <1>4, <1>6 DEF e, f

LEMMA LastPart ==
    ASSUME NEW r \in Releases
    PROVE  SubSeq(Encoding[r], 1, End(r, Len(Parts[r]))) = Encoding[r]
BY PartCount, SubSeqFull DEF End

-----------------------------------------------------------------------------
(* The inductive invariant                                                 *)

ChunkNames == Keys \X Seq(Bytes)
Secrets == [key : Keys, uid : Nat, label : Labels, chunk : Seq(Bytes),
            extraChunks : Seq(ChunkNames)]
Extras == [name : ChunkNames, data : Seq(Bytes)]
Replies == {"ok", "notFound", "exists"} \X SUBSET ChunkNames
Locals == [secret : Secrets \cup {Nil}, extra : Seq(Extras),
           names : Seq(ChunkNames), read : Seq(Bytes), todo : SUBSET Secrets,
           found : SUBSET ChunkNames]
Requests == {"createIndex", "createChunks", "deleteChunks", "updateIndex",
             "getIndex", "listIndices", "getChunks", "deleteAll"}

Typing ==
    /\ index \in [Keys -> Secrets \cup {Nil}]
    /\ chunks \subseteq [name : ChunkNames, data : Seq(Bytes), key : Keys, owner : Nat]
    /\ born \in Nat
    /\ pc \in [Clients -> Requests \cup {"idle"}]
    /\ call \in [Clients -> Calls \cup {Nil}]
    /\ work \in [Clients -> Locals]
    /\ reply \in [Clients -> Replies \cup {Nil}]
    /\ sure \subseteq Keys
    /\ faults \in Nat

(* An index secret is that of a release, and no two have the same uid; a   *)
(* chunk is named for its key and data, and what an index secret owns is   *)
(* named by it.                                                            *)
SecretsFit ==
    /\ \A k \in Keys : index[k] # Nil =>
          /\ index[k].uid \in 1..born
          /\ \E r \in Releases : index[k] = IndexSecret(k, r, index[k].uid)
    /\ \A k, l \in Keys :
          index[k] # Nil /\ index[l] # Nil /\ index[k].uid = index[l].uid => k = l
    /\ \A s \in chunks : s.name = <<s.key, s.data>> /\ s.owner \in 1..born
    /\ \A s, t \in chunks : s.name = t.name => s = t
    /\ \A s \in chunks, k \in Keys :
          index[k] # Nil /\ index[k].uid = s.owner
            => /\ s.key = k
               /\ \E i \in 1..Len(index[k].extraChunks) :
                     index[k].extraChunks[i] = s.name

(* What call a client may be in at each of its requests.                   *)
FitsAt(step, kind) ==
    /\ step = "createIndex" => kind = "create"
    /\ step = "createChunks" => kind \in {"create", "update"}
    /\ step \in {"deleteChunks", "updateIndex"} => kind = "update"
    /\ step = "getIndex" => kind \in {"get", "update", "delete"}
    /\ step = "listIndices" => kind = "list"
    /\ step = "getChunks" => kind \in {"get", "delete", "list"}
    /\ step = "deleteAll" => kind = "delete"

CallsFit ==
    \A c \in Clients :
        /\ call[c] = Nil <=> pc[c] = "idle"
        /\ call[c] # Nil => /\ Changes(call[c].kind) <=> c = Writer
                            /\ FitsAt(pc[c], call[c].kind)
        /\ pc[c] = "getChunks" => work[c].secret # Nil

KeyChunks(k) == {s \in chunks : s.key = k}

(* Where Writer creates chunks its index secret is stored, with the chunks *)
(* before the next; after the deletion in an Update there are no others.   *)
Creating(k, r, w) ==
    LET all == ExtraChunks(k, r)
        done == Len(all) - Len(w.extra)
    IN  /\ index[k] # Nil
        /\ w.secret = index[k]
        /\ index[k] = IndexSecret(k, r, index[k].uid)
        /\ Len(w.extra) \in 1..Len(all)
        /\ \A j \in 1..Len(w.extra) : w.extra[j] = all[done + j]
        /\ \A j \in 1..done : ChunkSecret(k, index[k].uid, all[j]) \in chunks
        /\ call[Writer].kind = "update" =>
              \A s \in KeyChunks(k) :
                 \E j \in 1..done : s = ChunkSecret(k, index[k].uid, all[j])

WriterFits ==
    /\ pc[Writer] = "createChunks"
          => Creating(call[Writer].key, call[Writer].release, work[Writer])
    /\ pc[Writer] \in {"deleteChunks", "updateIndex"} => index[call[Writer].key] # Nil
    /\ pc[Writer] = "updateIndex" => KeyChunks(call[Writer].key) = {}

(* An acknowledged release has all its chunks, and its index owns them.    *)
Complete(k) ==
    \A i \in 1..Len(index[k].extraChunks) :
        \E s \in chunks : s.name = index[k].extraChunks[i] /\ s.owner = index[k].uid

SureFits ==
    /\ call[Writer] # Nil => call[Writer].key \notin sure
    /\ \A k \in sure : index[k] # Nil => Complete(k)

IInv == Typing /\ SecretsFit /\ CallsFit /\ WriterFits /\ SureFits

-----------------------------------------------------------------------------
(* What the operators of the model give                                    *)

LEMMA HeadIsFirst ==
    ASSUME NEW S, NEW q \in Seq(S), q # <<>>
    PROVE  Head(q) = q[1] /\ Len(q) \in Nat \ {0}
OBVIOUS

LEMMA EmptyHasNone ==
    ASSUME NEW S, NEW q \in Seq(S)
    PROVE  q = <<>> <=> Len(q) = 0
OBVIOUS

LEMMA CallKinds ==
    ASSUME NEW k \in Calls
    PROVE  /\ k # Nil
           /\ k.kind \in {"create", "update", "get", "delete", "list"}
           /\ k.kind # "list" => k.key \in Keys
           /\ k.kind \in {"create", "update"} => k.release \in Releases
           /\ k.kind = "list" => k.label \in Labels \cup {Nil}
BY NilAssumption DEF Calls

LEMMA ExtrasAre ==
    ASSUME NEW key \in Keys, NEW r \in Releases
    PROVE  /\ ExtraChunks(key, r) \in Seq(Extras)
           /\ Len(ExtraChunks(key, r)) = Len(Parts[r]) - 1
           /\ Len(ExtraChunks(key, r)) \in Nat
           /\ \A i \in 1..Len(ExtraChunks(key, r)) :
                 /\ Parts[r][i + 1] \in Seq(Bytes)
                 /\ ExtraChunks(key, r)[i] =
                      [name |-> <<key, Parts[r][i + 1]>>, data |-> Parts[r][i + 1]]
<1> DEFINE n == Len(Parts[r]) - 1
           e == ExtraChunks(key, r)
<1>1. n \in Nat /\ \A i \in 1..n : Parts[r][i + 1] \in Seq(Bytes)
  BY PartCount, PartIs
<1>2. e = [i \in 1..n |-> [name |-> <<key, Parts[r][i + 1]>>, data |-> Parts[r][i + 1]]]
  BY DEF ExtraChunks, ChunkName
<1>3. e \in [1..n -> Extras]
  BY <1>1, <1>2 DEF Extras, ChunkNames
<1> HIDE DEF n, e
<1>4. e \in Seq(Extras) /\ Len(e) = n
  BY <1>1, <1>3, SeqDef
<1> QED
  BY <1>1, <1>2, <1>4 DEF n, e

LEMMA NamesAre ==
    ASSUME NEW key \in Keys, NEW r \in Releases
    PROVE  /\ Names(ExtraChunks(key, r)) \in Seq(ChunkNames)
           /\ Len(Names(ExtraChunks(key, r))) = Len(Parts[r]) - 1
           /\ \A i \in 1..Len(Parts[r]) - 1 :
                 Names(ExtraChunks(key, r))[i] = <<key, Parts[r][i + 1]>>
<1> DEFINE n == Len(Parts[r]) - 1
           e == Names(ExtraChunks(key, r))
<1>1. n \in Nat /\ Len(ExtraChunks(key, r)) = n
  BY ExtrasAre
<1>2. e = [i \in 1..n |-> ExtraChunks(key, r)[i].name]
  BY <1>1 DEF Names
<1>3. \A i \in 1..n : /\ ExtraChunks(key, r)[i].name = <<key, Parts[r][i + 1]>>
                      /\ <<key, Parts[r][i + 1]>> \in ChunkNames
  <2>1. SUFFICES ASSUME NEW i \in 1..n
                 PROVE  /\ ExtraChunks(key, r)[i].name = <<key, Parts[r][i + 1]>>
                        /\ <<key, Parts[r][i + 1]>> \in ChunkNames
    OBVIOUS
  <2>2. i \in 1..Len(ExtraChunks(key, r))
    BY <1>1, <2>1
  <2>3. /\ Parts[r][i + 1] \in Seq(Bytes)
        /\ ExtraChunks(key, r)[i] =
             [name |-> <<key, Parts[r][i + 1]>>, data |-> Parts[r][i + 1]]
    BY <2>2, ExtrasAre
  <2> QED
    BY <2>3 DEF ChunkNames
<1> HIDE DEF n, e
<1>4. \A i \in 1..n : e[i] = <<key, Parts[r][i + 1]>>
  BY <1>2, <1>3
<1>5. e \in [1..n -> ChunkNames]
  BY <1>2, <1>3
<1>6. e \in Seq(ChunkNames) /\ Len(e) = n
  BY <1>1, <1>5, SeqDef
<1> QED
  BY <1>4, <1>6 DEF n, e

LEMMA IndexSecretIs ==
    ASSUME NEW key \in Keys, NEW r \in Releases, NEW u \in Nat
    PROVE  /\ IndexSecret(key, r, u) \in Secrets
           /\ IndexSecret(key, r, u) # Nil
           /\ IndexSecret(key, r, u).key = key
           /\ IndexSecret(key, r, u).uid = u
           /\ IndexSecret(key, r, u).label = Label[r]
           /\ IndexSecret(key, r, u).chunk = Parts[r][1]
           /\ IndexSecret(key, r, u).extraChunks = Names(ExtraChunks(key, r))
<1>1. Parts[r][1] \in Seq(Bytes)
  BY PartCount, PartIs
<1>2. IndexSecret(key, r, u) \in Secrets
  BY <1>1, NamesAre DEF IndexSecret, Secrets, Labels
<1> QED
  BY <1>2, NilAssumption DEF IndexSecret, Secrets, ChunkNames

(* The chunks after the first are named by the index secret, in order.     *)
LEMMA IndexNames ==
    ASSUME NEW key \in Keys, NEW r \in Releases, NEW u \in Nat
    PROVE  /\ Len(Parts[r]) \in Nat \ {0}
           /\ IndexSecret(key, r, u) # Nil
           /\ IndexSecret(key, r, u).chunk = Parts[r][1]
           /\ Len(IndexSecret(key, r, u).extraChunks) = Len(Parts[r]) - 1
           /\ \A i \in 1..Len(Parts[r]) - 1 :
                 IndexSecret(key, r, u).extraChunks[i] = <<key, Parts[r][i + 1]>>
<1>1. Len(Parts[r]) \in Nat \ {0}
  BY PartCount
<1>2. /\ Len(Names(ExtraChunks(key, r))) = Len(Parts[r]) - 1
      /\ \A i \in 1..Len(Parts[r]) - 1 :
            Names(ExtraChunks(key, r))[i] = <<key, Parts[r][i + 1]>>
  BY NamesAre
<1>3. /\ IndexSecret(key, r, u) # Nil
      /\ IndexSecret(key, r, u).chunk = Parts[r][1]
      /\ IndexSecret(key, r, u).extraChunks = Names(ExtraChunks(key, r))
  BY IndexSecretIs
<1> DEFINE secret == IndexSecret(key, r, u)
<1> HIDE DEF secret
<1>4. /\ Len(secret.extraChunks) = Len(Parts[r]) - 1
      /\ \A i \in 1..Len(Parts[r]) - 1 :
            secret.extraChunks[i] = <<key, Parts[r][i + 1]>>
  BY <1>2, <1>3 DEF secret
<1> QED
  BY <1>1, <1>3, <1>4 DEF secret

(* So they are for the index secret that is stored.                        *)
LEMMA StoredNames ==
    ASSUME NEW k \in Keys, NEW r \in Releases, NEW u \in Nat,
           index[k] = IndexSecret(k, r, u)
    PROVE  /\ Len(Parts[r]) \in Nat \ {0}
           /\ index[k] # Nil /\ index[k].chunk = Parts[r][1]
           /\ Len(index[k].extraChunks) = Len(Parts[r]) - 1
           /\ \A i \in 1..Len(Parts[r]) - 1 :
                 index[k].extraChunks[i] = <<k, Parts[r][i + 1]>>
<1> DEFINE secret == IndexSecret(k, r, u)
<1>1. /\ Len(Parts[r]) \in Nat \ {0}
      /\ secret # Nil /\ secret.chunk = Parts[r][1]
      /\ Len(secret.extraChunks) = Len(Parts[r]) - 1
      /\ \A i \in 1..Len(Parts[r]) - 1 :
            secret.extraChunks[i] = <<k, Parts[r][i + 1]>>
  BY IndexNames
<1>2. index[k] = secret
  OBVIOUS
<1> HIDE DEF secret
<1> QED
  BY <1>1, <1>2

LEMMA WriterIsClient == Writer \in Clients
BY DEF Clients

LEMMA ReturnEffects ==
    ASSUME Typing, NEW c \in Clients, NEW answer \in Replies \cup {Nil},
           Return(c, answer)
    PROVE  /\ pc' \in [Clients -> Requests \cup {"idle"}]
           /\ call' \in [Clients -> Calls \cup {Nil}]
           /\ work' \in [Clients -> Locals]
           /\ reply' \in [Clients -> Replies \cup {Nil}]
           /\ pc'[c] = "idle" /\ call'[c] = Nil /\ work'[c] = NoWork
           /\ reply'[c] = answer
           /\ \A d \in Clients : d # c =>
                 /\ pc'[d] = pc[d] /\ call'[d] = call[d]
                 /\ work'[d] = work[d] /\ reply'[d] = reply[d]
<1>1. NoWork \in Locals
  BY EmptySeq DEF NoWork, Locals
<1> QED
  BY <1>1 DEF Typing, Return

LEMMA GoToEffects ==
    ASSUME Typing, NEW c \in Clients, NEW step \in Requests, NEW w \in Locals,
           GoTo(c, step, w)
    PROVE  /\ pc' \in [Clients -> Requests \cup {"idle"}]
           /\ work' \in [Clients -> Locals]
           /\ pc'[c] = step /\ work'[c] = w
           /\ call' = call /\ reply' = reply /\ sure' = sure
           /\ \A d \in Clients : d # c => pc'[d] = pc[d] /\ work'[d] = work[d]
BY DEF Typing, GoTo

-----------------------------------------------------------------------------
(* What each change of the secrets does to them                            *)

SecretsTyped ==
    /\ index \in [Keys -> Secrets \cup {Nil}]
    /\ chunks \subseteq [name : ChunkNames, data : Seq(Bytes), key : Keys, owner : Nat]
    /\ born \in Nat

(* Create stores an index with a new uid.                                  *)
LEMMA IndexCreated ==
    ASSUME SecretsTyped, SecretsFit, NEW k \in Keys, NEW r \in Releases,
           index[k] = Nil,
           index' = [index EXCEPT ![k] = IndexSecret(k, r, born + 1)],
           UNCHANGED chunks, born' = born + 1
    PROVE  SecretsTyped' /\ SecretsFit'
<1> DEFINE new == IndexSecret(k, r, born + 1)
<1>1. born \in Nat /\ born + 1 \in Nat
  BY DEF SecretsTyped
<1>2. /\ new \in Secrets /\ new # Nil /\ new.uid = born + 1
      /\ new = IndexSecret(k, r, new.uid)
  BY <1>1, IndexSecretIs
<1> HIDE DEF new
<1>3. index' = [index EXCEPT ![k] = new] /\ index' \in [Keys -> Secrets \cup {Nil}]
  BY <1>2 DEF new, SecretsTyped
<1>4. SecretsTyped'
  BY <1>1, <1>3 DEF SecretsTyped
<1>5. index'[k] = new /\ \A l \in Keys : l # k => index'[l] = index[l]
  BY <1>3 DEF SecretsTyped
<1>6. \A l \in Keys : index'[l] # Nil =>
         /\ index'[l].uid \in 1..born'
         /\ \E x \in Releases : index'[l] = IndexSecret(l, x, index'[l].uid)
  <2> SUFFICES ASSUME NEW l \in Keys, index'[l] # Nil
               PROVE  /\ index'[l].uid \in 1..born'
                      /\ \E x \in Releases : index'[l] = IndexSecret(l, x, index'[l].uid)
    OBVIOUS
  <2>1. CASE l = k
    BY <1>1, <1>2, <1>5, <2>1
  <2>2. CASE l # k
    BY <1>1, <1>5, <2>2 DEF SecretsFit
  <2> QED
    BY <2>1, <2>2
<1>7. \A l \in Keys : l # k /\ index[l] # Nil => index[l].uid \in 1..born
  BY DEF SecretsFit
<1>8. \A l, m \in Keys :
         index'[l] # Nil /\ index'[m] # Nil /\ index'[l].uid = index'[m].uid => l = m
  BY <1>1, <1>2, <1>5, <1>7 DEF SecretsFit
<1>9. \A s \in chunks : s.name = <<s.key, s.data>> /\ s.owner \in 1..born
  BY DEF SecretsFit
<1>10. \A s \in chunks, l \in Keys :
          index'[l] # Nil /\ index'[l].uid = s.owner
            => /\ s.key = l
               /\ \E i \in 1..Len(index'[l].extraChunks) :
                     index'[l].extraChunks[i] = s.name
  <2> SUFFICES ASSUME NEW s \in chunks, NEW l \in Keys,
                      index'[l] # Nil, index'[l].uid = s.owner
               PROVE  /\ s.key = l
                      /\ \E i \in 1..Len(index'[l].extraChunks) :
                            index'[l].extraChunks[i] = s.name
    OBVIOUS
  <2>1. l # k
    BY <1>1, <1>2, <1>5, <1>9
  <2> QED
    BY <1>5, <2>1 DEF SecretsFit
<1>11. \A s, t \in chunks : s.name = t.name => s = t
  BY DEF SecretsFit
<1>12. \A s \in chunks : s.owner \in 1..born'
  BY <1>1, <1>9
<1> QED
  BY <1>4, <1>6, <1>8, <1>9, <1>10, <1>11, <1>12 DEF SecretsFit

(* Update keeps the uid, and no chunk of the key is left.                  *)
LEMMA IndexUpdated ==
    ASSUME SecretsTyped, SecretsFit, NEW k \in Keys, NEW r \in Releases,
           index[k] # Nil, KeyChunks(k) = {},
           index' = [index EXCEPT ![k] = IndexSecret(k, r, index[k].uid)],
           UNCHANGED <<chunks, born>>
    PROVE  SecretsTyped' /\ SecretsFit'
<1> DEFINE new == IndexSecret(k, r, index[k].uid)
<1>1. index[k].uid \in 1..born /\ index[k].uid \in Nat
  BY DEF SecretsTyped, SecretsFit
<1>2. /\ new \in Secrets /\ new # Nil /\ new.uid = index[k].uid
      /\ new = IndexSecret(k, r, new.uid)
  BY <1>1, IndexSecretIs
<1> HIDE DEF new
<1>3. index' = [index EXCEPT ![k] = new] /\ index' \in [Keys -> Secrets \cup {Nil}]
  BY <1>2 DEF new, SecretsTyped
<1>4. SecretsTyped'
  BY <1>3 DEF SecretsTyped
<1>5. index'[k] = new /\ \A l \in Keys : l # k => index'[l] = index[l]
  BY <1>3 DEF SecretsTyped
<1>6. \A l \in Keys : index'[l] # Nil =>
         /\ index'[l].uid \in 1..born
         /\ \E x \in Releases : index'[l] = IndexSecret(l, x, index'[l].uid)
  <2> SUFFICES ASSUME NEW l \in Keys, index'[l] # Nil
               PROVE  /\ index'[l].uid \in 1..born
                      /\ \E x \in Releases : index'[l] = IndexSecret(l, x, index'[l].uid)
    OBVIOUS
  <2>1. CASE l = k
    BY <1>1, <1>2, <1>5, <2>1
  <2>2. CASE l # k
    BY <1>5, <2>2 DEF SecretsFit
  <2> QED
    BY <2>1, <2>2
<1>7. \A l \in Keys : /\ index'[l] # Nil <=> index[l] # Nil
                      /\ index[l] # Nil => index'[l].uid = index[l].uid
  BY <1>2, <1>5
<1>8. \A l, m \in Keys :
         index'[l] # Nil /\ index'[m] # Nil /\ index'[l].uid = index'[m].uid => l = m
  BY <1>7 DEF SecretsFit
<1>9. \A s \in chunks, l \in Keys :
         index'[l] # Nil /\ index'[l].uid = s.owner
           => /\ s.key = l
              /\ \E i \in 1..Len(index'[l].extraChunks) :
                    index'[l].extraChunks[i] = s.name
  <2> SUFFICES ASSUME NEW s \in chunks, NEW l \in Keys,
                      index'[l] # Nil, index'[l].uid = s.owner
               PROVE  /\ s.key = l
                      /\ \E i \in 1..Len(index'[l].extraChunks) :
                            index'[l].extraChunks[i] = s.name
    OBVIOUS
  <2>1. index[l] # Nil /\ index[l].uid = s.owner
    BY <1>7
  <2>2. s.key = l
    BY <2>1 DEF SecretsFit
  <2>3. l # k
    BY <2>2 DEF KeyChunks
  <2> QED
    BY <1>5, <2>1, <2>3 DEF SecretsFit
<1> QED
  BY <1>4, <1>6, <1>8, <1>9 DEF SecretsFit

(* A chunk is created for the release of the index that owns it.           *)
LEMMA ChunkCreated ==
    ASSUME SecretsTyped, SecretsFit, NEW k \in Keys, NEW r \in Releases,
           index[k] # Nil, index[k] = IndexSecret(k, r, index[k].uid),
           NEW i \in 1..Len(ExtraChunks(k, r)),
           ~Stored(ExtraChunks(k, r)[i].name),
           chunks' = chunks \cup {ChunkSecret(k, index[k].uid, ExtraChunks(k, r)[i])},
           UNCHANGED <<index, born>>
    PROVE  SecretsTyped' /\ SecretsFit'
<1> DEFINE new == ChunkSecret(k, index[k].uid, ExtraChunks(k, r)[i])
           data == Parts[r][i + 1]
<1>1. index[k].uid \in 1..born /\ index[k].uid \in Nat
  BY DEF SecretsTyped, SecretsFit
<1>2. /\ data \in Seq(Bytes)
      /\ ExtraChunks(k, r)[i] = [name |-> <<k, data>>, data |-> data]
  BY ExtrasAre
<1>3. /\ new.name = <<k, data>> /\ new.data = data /\ new.key = k
      /\ new.owner = index[k].uid
      /\ new \in [name : ChunkNames, data : Seq(Bytes), key : Keys, owner : Nat]
  BY <1>1, <1>2 DEF ChunkSecret, ChunkNames
<1>4. \A s \in chunks : s.name # new.name
  <2>1. new.name = ExtraChunks(k, r)[i].name
    BY DEF ChunkSecret
  <2> HIDE DEF new
  <2> QED
    BY <2>1 DEF Stored
<1>5. /\ i \in 1..Len(index[k].extraChunks)
      /\ index[k].extraChunks[i] = new.name
  <2>1. /\ Len(index[k].extraChunks) = Len(Parts[r]) - 1
        /\ \A j \in 1..Len(Parts[r]) - 1 :
              index[k].extraChunks[j] = <<k, Parts[r][j + 1]>>
    <3>1. PICK u \in Nat : index[k] = IndexSecret(k, r, u)
      BY <1>1
    <3> QED
      BY <3>1, StoredNames, ZenonT(60)
  <2>2. i \in 1..Len(Parts[r]) - 1
    BY ExtrasAre
  <2>3. index[k].extraChunks[i] = <<k, data>>
    BY <2>1, <2>2
  <2> HIDE DEF new, data
  <2> QED
    BY <1>3, <2>1, <2>2, <2>3
<1> HIDE DEF new, data
<1>6. chunks' = chunks \cup {new}
  BY DEF new
<1>7. SecretsTyped'
  BY <1>3, <1>6 DEF SecretsTyped
<1>8. \A s \in chunks' : s.name = <<s.key, s.data>> /\ s.owner \in 1..born
  BY <1>1, <1>3, <1>6 DEF SecretsFit
<1>9. \A s, t \in chunks' : s.name = t.name => s = t
  BY <1>4, <1>6 DEF SecretsFit
<1>10. \A s \in chunks', l \in Keys :
          index[l] # Nil /\ index[l].uid = s.owner
            => /\ s.key = l
               /\ \E j \in 1..Len(index[l].extraChunks) :
                     index[l].extraChunks[j] = s.name
  <2> SUFFICES ASSUME NEW s \in chunks', NEW l \in Keys,
                      index[l] # Nil, index[l].uid = s.owner
               PROVE  /\ s.key = l
                      /\ \E j \in 1..Len(index[l].extraChunks) :
                            index[l].extraChunks[j] = s.name
    OBVIOUS
  <2>1. CASE s \in chunks
    BY <2>1 DEF SecretsFit
  <2>2. CASE s = new
    <3>1. index[l].uid = index[k].uid
      BY <1>3, <2>2
    <3>2. l = k
      BY <3>1 DEF SecretsFit
    <3> QED
      BY <1>3, <1>5, <2>2, <3>2
  <2> QED
    BY <1>6, <2>1, <2>2
<1> QED
  BY <1>7, <1>8, <1>9, <1>10 DEF SecretsFit

LEMMA ChunksDeleted ==
    ASSUME SecretsTyped, SecretsFit, chunks' \subseteq chunks, UNCHANGED <<index, born>>
    PROVE  SecretsTyped' /\ SecretsFit'
<1>1. SecretsTyped'
  BY DEF SecretsTyped
<1>2. SecretsFit'
  BY DEF SecretsFit
<1> QED
  BY <1>1, <1>2

LEMMA IndexDeleted ==
    ASSUME SecretsTyped, SecretsFit, NEW k \in Keys,
           index' = [index EXCEPT ![k] = Nil], UNCHANGED <<chunks, born>>
    PROVE  SecretsTyped' /\ SecretsFit'
<1>1. SecretsTyped'
  BY DEF SecretsTyped
<1>2. index'[k] = Nil /\ \A l \in Keys : l # k => index'[l] = index[l]
  BY DEF SecretsTyped
<1>3. \A l \in Keys : index'[l] # Nil => index'[l] = index[l]
  BY <1>2
<1>4. SecretsFit'
  BY <1>3 DEF SecretsFit
<1> QED
  BY <1>1, <1>4

-----------------------------------------------------------------------------
(* What an acknowledged release keeps                                      *)

SureComplete == \A k \in sure : index[k] # Nil => Complete(k)

LEMMA CompleteKept ==
    ASSUME NEW l \in Keys, index[l] # Nil, index'[l] = index[l], Complete(l),
           \A s \in chunks : s.owner = index[l].uid => s \in chunks'
    PROVE  Complete(l)'
<1> SUFFICES ASSUME NEW i \in 1..Len(index[l].extraChunks)
             PROVE  \E s \in chunks' : /\ s.name = index[l].extraChunks[i]
                                       /\ s.owner = index[l].uid
  BY DEF Complete
<1>1. PICK s \in chunks : s.name = index[l].extraChunks[i] /\ s.owner = index[l].uid
  BY DEF Complete
<1> QED
  BY <1>1

(* A change of what is no acknowledged release's.                          *)
LEMMA OthersKept ==
    ASSUME IInv,
           \A l \in sure : /\ index'[l] # Nil => index'[l] = index[l]
                           /\ \A s \in chunks : index[l] # Nil /\ s.owner = index[l].uid
                                                   => s \in chunks'
    PROVE  \A l \in sure : index'[l] # Nil => Complete(l)'
<1> SUFFICES ASSUME NEW l \in sure, index'[l] # Nil
             PROVE  Complete(l)'
  OBVIOUS
<1>1. l \in Keys
  BY DEF IInv, Typing
<1>2. index'[l] = index[l] /\ index[l] # Nil
  BY <1>1
<1>3. Complete(l)
  BY <1>1, <1>2 DEF IInv, SureFits
<1>4. \A s \in chunks : s.owner = index[l].uid => s \in chunks'
  BY <1>1, <1>2
<1> QED
  BY <1>1, <1>2, <1>3, <1>4, CompleteKept

LEMMA SureKept ==
    ASSUME IInv, sure' \subseteq sure,
           \A l \in sure : /\ index'[l] # Nil => index'[l] = index[l]
                           /\ \A s \in chunks : index[l] # Nil /\ s.owner = index[l].uid
                                                   => s \in chunks'
    PROVE  SureComplete'
BY OthersKept DEF SureComplete

-----------------------------------------------------------------------------
(* What each way a step may end does to the invariant                      *)

LEMMA WriterUntouched ==
    ASSUME WriterFits, pc'[Writer] = pc[Writer], call'[Writer] = call[Writer],
           work'[Writer] = work[Writer], UNCHANGED <<index, chunks>>
    PROVE  WriterFits'
<1>1. \A k : KeyChunks(k)' = KeyChunks(k)
  BY DEF KeyChunks
<1>2. ASSUME pc[Writer] = "createChunks"
      PROVE  Creating(call[Writer].key, call[Writer].release, work[Writer])'
  <2> DEFINE k == call[Writer].key
             r == call[Writer].release
             w == work[Writer]
  <2>1. Creating(k, r, w)
    BY <1>2 DEF WriterFits
  <2>2. k' = k /\ r' = r /\ w' = w
    OBVIOUS
  <2> QED
    BY <1>1, <2>1, <2>2, ZenonT(60) DEF Creating
<1> QED
  BY <1>1, <1>2 DEF WriterFits

LEMMA Returned ==
    ASSUME IInv, NEW c \in Clients, NEW answer \in Replies \cup {Nil},
           Return(c, answer),
           SecretsTyped', SecretsFit', SureComplete',
           faults' \in Nat, sure' \subseteq Keys,
           c # Writer => UNCHANGED <<index, chunks, sure>>
    PROVE  IInv'
<1>1. Typing /\ CallsFit /\ WriterFits /\ SureFits
  BY DEF IInv
<1>2. /\ pc' \in [Clients -> Requests \cup {"idle"}]
      /\ call' \in [Clients -> Calls \cup {Nil}]
      /\ work' \in [Clients -> Locals]
      /\ reply' \in [Clients -> Replies \cup {Nil}]
      /\ pc'[c] = "idle" /\ call'[c] = Nil
      /\ \A d \in Clients : d # c =>
            pc'[d] = pc[d] /\ call'[d] = call[d] /\ work'[d] = work[d]
  BY <1>1, ReturnEffects
<1>3. Typing'
  BY <1>2 DEF Typing, SecretsTyped
<1>4. CallsFit'
  BY <1>1, <1>2 DEF CallsFit
<1>5. CASE c = Writer
  <2>1. WriterFits'
    BY <1>2, <1>5 DEF WriterFits
  <2>2. SureFits'
    BY <1>2, <1>5 DEF SureFits, SureComplete
  <2> QED
    BY <1>3, <1>4, <2>1, <2>2 DEF IInv
<1>6. CASE c # Writer
  <2>1. /\ pc'[Writer] = pc[Writer] /\ call'[Writer] = call[Writer]
        /\ work'[Writer] = work[Writer] /\ UNCHANGED <<index, chunks, sure>>
    BY <1>2, <1>6, WriterIsClient
  <2>2. WriterFits'
    BY <1>1, <2>1, WriterUntouched
  <2>3. SureFits'
    BY <1>1, <2>1 DEF SureFits, SureComplete
  <2> QED
    BY <1>3, <1>4, <2>2, <2>3 DEF IInv
<1> QED
  BY <1>5, <1>6

LEMMA WentTo ==
    ASSUME IInv, NEW c \in Clients, call[c] # Nil,
           NEW step \in Requests, NEW w \in Locals, GoTo(c, step, w),
           FitsAt(step, call[c].kind), step = "getChunks" => w.secret # Nil,
           SecretsTyped', SecretsFit', SureComplete', faults' \in Nat,
           c # Writer => UNCHANGED <<index, chunks>>,
           c = Writer => WriterFits'
    PROVE  IInv'
<1>1. Typing /\ CallsFit /\ WriterFits /\ SureFits
  BY DEF IInv
<1>2. /\ pc' \in [Clients -> Requests \cup {"idle"}]
      /\ work' \in [Clients -> Locals]
      /\ pc'[c] = step /\ work'[c] = w
      /\ call' = call /\ reply' = reply /\ sure' = sure
      /\ \A d \in Clients : d # c => pc'[d] = pc[d] /\ work'[d] = work[d]
  BY <1>1, GoToEffects
<1>3. Typing'
  BY <1>1, <1>2 DEF Typing, SecretsTyped
<1>4. step # "idle"
  BY DEF Requests
<1>5. CallsFit'
  BY <1>1, <1>2, <1>4 DEF CallsFit
<1>6. SureFits'
  BY <1>1, <1>2 DEF SureFits, SureComplete
<1>7. WriterFits'
  <2>1. CASE c # Writer
    <3>1. /\ pc'[Writer] = pc[Writer] /\ call'[Writer] = call[Writer]
          /\ work'[Writer] = work[Writer] /\ UNCHANGED <<index, chunks>>
      BY <1>2, <2>1, WriterIsClient
    <3> QED
      BY <1>1, <3>1, WriterUntouched
  <2> QED
    BY <2>1
<1> QED
  BY <1>3, <1>5, <1>6, <1>7 DEF IInv

LEMMA Stayed ==
    ASSUME IInv, UNCHANGED <<pc, call, work, reply, sure, faults>>,
           SecretsTyped', SecretsFit', SureComplete', WriterFits'
    PROVE  IInv'
<1>1. Typing'
  BY DEF IInv, Typing, SecretsTyped
<1>2. CallsFit'
  BY DEF IInv, CallsFit
<1>3. SureFits'
  BY DEF IInv, SureFits, SureComplete
<1> QED
  BY <1>1, <1>2, <1>3 DEF IInv

LEMMA RepliesAre ==
    /\ Nil \in Replies \cup {Nil}
    /\ \A why \in {"notFound", "exists"} : <<why, {}>> \in Replies \cup {Nil}
    /\ \A answer \in SUBSET ChunkNames : <<"ok", answer>> \in Replies \cup {Nil}
BY DEF Replies

(* A call that fails or is refused where nothing is changed.               *)
LEMMA Abandoned ==
    ASSUME IInv, NEW c \in Clients, NEW answer \in Replies \cup {Nil},
           Return(c, answer), UNCHANGED <<secrets, sure>>, faults' \in Nat
    PROVE  IInv'
<1>1. UNCHANGED <<index, chunks, born, sure>>
  BY DEF secrets
<1>2. Typing /\ SecretsFit
  BY DEF IInv
<1>3. SecretsTyped' /\ SecretsFit'
  BY <1>1, <1>2, ChunksDeleted DEF Typing, SecretsTyped
<1>4. SureComplete'
  BY <1>1, SureKept
<1>5. sure' \subseteq Keys
  BY <1>1, <1>2 DEF Typing
<1> QED
  BY <1>1, <1>3, <1>4, <1>5, Returned

(* A call that goes on where nothing is changed.                           *)
LEMMA GoneOn ==
    ASSUME IInv, NEW c \in Clients, call[c] # Nil,
           NEW step \in Requests, NEW w \in Locals, GoTo(c, step, w),
           FitsAt(step, call[c].kind), step = "getChunks" => w.secret # Nil,
           UNCHANGED secrets, faults' \in Nat,
           c = Writer => WriterFits'
    PROVE  IInv'
<1>1. UNCHANGED <<index, chunks, born, sure>>
  BY DEF secrets, GoTo
<1>2. Typing /\ SecretsFit
  BY DEF IInv
<1>3. SecretsTyped' /\ SecretsFit'
  BY <1>1, <1>2, ChunksDeleted DEF Typing, SecretsTyped
<1>4. SureComplete'
  BY <1>1, SureKept
<1> QED
  BY <1>1, <1>3, <1>4, WentTo

-----------------------------------------------------------------------------
(* The steps keep the invariant                                            *)

LEMMA InCall ==
    ASSUME IInv, NEW c \in Clients, pc[c] # "idle"
    PROVE  /\ call[c] \in Calls /\ call[c] # Nil
           /\ FitsAt(pc[c], call[c].kind)
           /\ Changes(call[c].kind) <=> c = Writer
BY DEF IInv, Typing, CallsFit

LEMMA BeginKeeps ==
    ASSUME IInv, NEW c \in Clients, Begin(c)
    PROVE  IInv'
<1>0. Typing /\ SecretsFit /\ CallsFit /\ WriterFits /\ SureFits
  BY DEF IInv
<1> DEFINE step(k) == CASE k.kind = "create" -> "createIndex"
                        [] k.kind = "list" -> "listIndices"
                        [] OTHER -> "getIndex"
<1>1. PICK k \in Calls :
        /\ \/ Changes(k.kind) /\ c = Writer
           \/ ~Changes(k.kind) /\ c # Writer
        /\ call' = [call EXCEPT ![c] = k]
        /\ pc' = [pc EXCEPT ![c] = step(k)]
        /\ sure' = IF Changes(k.kind) THEN sure \ {k.key} ELSE sure
  BY DEF Begin
<1>2. /\ pc[c] = "idle" /\ reply' = [reply EXCEPT ![c] = Nil]
      /\ UNCHANGED <<index, chunks, born, work, faults>>
  BY DEF Begin, secrets
<1>3. k # Nil /\ k.kind \in {"create", "update", "get", "delete", "list"}
  BY CallKinds
<1>4. step(k) \in {"createIndex", "listIndices", "getIndex"}
  OBVIOUS
<1>5. FitsAt(step(k), k.kind)
  <2>1. CASE k.kind = "create"
    BY <2>1 DEF FitsAt
  <2>2. CASE k.kind = "list"
    BY <2>2 DEF FitsAt
  <2>3. CASE k.kind \in {"update", "get", "delete"}
    BY <2>3 DEF FitsAt
  <2> QED
    BY <1>3, <2>1, <2>2, <2>3
<1> HIDE DEF step
<1>6. /\ call'[c] = k /\ pc'[c] = step(k)
      /\ \A d \in Clients : d # c => call'[d] = call[d] /\ pc'[d] = pc[d]
  BY <1>0, <1>1 DEF Typing
<1>7. sure' \subseteq sure
  BY <1>1
<1>8. Typing'
  <2>1. step(k) \in Requests \cup {"idle"}
    BY <1>4 DEF Requests
  <2> QED
    BY <1>0, <1>1, <1>2, <1>7, <2>1 DEF Typing
<1>9. CallsFit'
  <2>1. step(k) \notin {"idle", "getChunks"}
    BY <1>4
  <2> QED
    BY <1>0, <1>1, <1>2, <1>3, <1>5, <1>6, <2>1 DEF CallsFit
<1>10. SecretsFit'
  BY <1>0, <1>2 DEF SecretsFit
<1>11. WriterFits'
  <2>1. CASE c = Writer
    BY <1>4, <1>6, <2>1 DEF WriterFits
  <2>2. CASE c # Writer
    <3>1. /\ pc'[Writer] = pc[Writer] /\ call'[Writer] = call[Writer]
          /\ work'[Writer] = work[Writer] /\ UNCHANGED <<index, chunks>>
      BY <1>2, <1>6, <2>2, WriterIsClient
    <3> QED
      BY <1>0, <3>1, WriterUntouched
  <2> QED
    BY <2>1, <2>2
<1>12. SureFits'
  <2>1. SureComplete'
    BY <1>2, <1>7, SureKept
  <2>2. call'[Writer] # Nil => call'[Writer].key \notin sure'
    <3>1. CASE c = Writer
      BY <1>1, <1>6, <3>1
    <3>2. CASE c # Writer
      BY <1>0, <1>6, <1>7, <3>2, WriterIsClient DEF SureFits
    <3> QED
      BY <3>1, <3>2
  <2> QED
    BY <2>1, <2>2 DEF SureFits, SureComplete
<1> QED
  BY <1>8, <1>9, <1>10, <1>11, <1>12 DEF IInv

LEMMA FaultCounted ==
    ASSUME IInv, Fault \/ NoFault
    PROVE  faults' \in Nat
BY DEF IInv, Typing, Fault, NoFault

LEMMA DieKeeps ==
    ASSUME IInv, NEW c \in Clients, Die(c)
    PROVE  IInv'
<1>1. Return(c, Nil) /\ UNCHANGED <<secrets, sure>>
  BY DEF Die, Fail
<1>2. faults' \in Nat
  BY FaultCounted DEF Die
<1> QED
  BY <1>1, <1>2, RepliesAre, Abandoned

(* The end of StoreIndex, in a Create or an Update.                        *)
LEMMA IndexStored ==
    ASSUME IInv, call[Writer] # Nil, call[Writer].kind \in {"create", "update"},
           NEW key, key = call[Writer].key, NEW r, r = call[Writer].release,
           NEW u \in Nat,
           StoreIndex(Writer, IndexSecret(key, r, u), ExtraChunks(key, r)),
           SecretsTyped', SecretsFit',
           call[Writer].kind = "update" => KeyChunks(key) = {}
    PROVE  IInv'
<1> DEFINE new == IndexSecret(key, r, u)
           extra == ExtraChunks(key, r)
<1>0. Typing /\ SecretsFit /\ CallsFit /\ WriterFits /\ SureFits
  BY DEF IInv
<1>1. key \in Keys /\ r \in Releases /\ key \notin sure
  BY <1>0, WriterIsClient, CallKinds DEF Typing, SureFits
<1>2. /\ new.key = key /\ new # Nil /\ new \in Secrets /\ new.uid = u
      /\ new.extraChunks = Names(extra)
  BY <1>1, IndexSecretIs
<1>3. extra \in Seq(Extras) /\ Len(extra) \in Nat /\ Len(Names(extra)) = Len(extra)
  BY <1>1, ExtrasAre, NamesAre
<1>4. index' = [index EXCEPT ![key] = new] /\ chunks' = chunks
  BY <1>2 DEF StoreIndex
<1>5. index'[key] = new /\ \A l \in Keys : l # key => index'[l] = index[l]
  BY <1>0, <1>1, <1>4 DEF Typing
<1>6. \A l \in sure : index'[l] # Nil => Complete(l)'
  <2>1. \A l \in sure : index'[l] = index[l]
    BY <1>0, <1>1, <1>5 DEF Typing
  <2> QED
    BY <1>4, <2>1, OthersKept
<1>7. CASE NoFault /\ extra = <<>> /\ Succeed(Writer, {})
  <2>1. Return(Writer, <<"ok", {}>>) /\ sure' = sure \cup {key}
    BY <1>7 DEF Succeed, Changes
  <2>2. sure' \subseteq Keys
    BY <1>0, <1>1, <2>1 DEF Typing
  <2>3. Complete(key)'
    BY <1>2, <1>3, <1>5, <1>7, EmptySeq DEF Complete
  <2>4. SureComplete'
    BY <1>6, <2>1, <2>3 DEF SureComplete
  <2>5. <<"ok", {}>> \in Replies \cup {Nil}
    BY RepliesAre
  <2> QED
    BY <1>7, <2>1, <2>2, <2>4, <2>5, WriterIsClient, FaultCounted, Returned
<1>8. CASE /\ NoFault /\ extra # <<>>
           /\ GoTo(Writer, "createChunks", [NoWork EXCEPT !.secret = new, !.extra = extra])
  <2> DEFINE w == [NoWork EXCEPT !.secret = new, !.extra = extra]
  <2>1. w \in Locals /\ w.secret = new /\ w.extra = extra
    <3>1. <<>> \in Seq(Extras) /\ <<>> \in Seq(ChunkNames) /\ <<>> \in Seq(Bytes)
      BY EmptySeq
    <3> QED
      BY <1>2, <1>3, <3>1 DEF NoWork, Locals
  <2> HIDE DEF w
  <2>2. GoTo(Writer, "createChunks", w) /\ "createChunks" \in Requests
    BY <1>8 DEF w, Requests
  <2>3. SureComplete'
    BY <1>6, <2>2 DEF SureComplete, GoTo
  <2>4. work'[Writer] = w /\ pc'[Writer] = "createChunks" /\ call' = call
    BY <1>0, <2>1, <2>2, WriterIsClient, GoToEffects
  <2>5. Creating(key, r, w)'
    <3>1. Len(extra) \in 1..Len(extra)
      BY <1>3, <1>8, EmptySeq
    <3>2. \A s \in chunks : call[Writer].kind = "update" => s.key # key
      BY DEF KeyChunks
    <3> DEFINE all == ExtraChunks(key, r)
    <3>3. Len(all) - Len(w.extra) = 0 /\ all = w.extra
      BY <1>3, <2>1
    <3> HIDE DEF all
    <3>4. \A j \in 1..Len(w.extra) : w.extra[j] = all[(Len(all) - Len(w.extra)) + j]
      BY <1>3, <3>3
    <3>5. KeyChunks(key)' = {s \in chunks : s.key = key}
      BY <1>4 DEF KeyChunks
    <3>6. \A j \in 1..(Len(all) - Len(w.extra)) : FALSE
      BY <3>3
    <3>7. index'[key] = IndexSecret(key, r, index'[key].uid)
      BY <1>2, <1>5
    <3> HIDE DEF all, new
    <3>8. Len(w.extra) \in 1..Len(all)
      BY <3>1, <3>3, <2>1
    <3>9. index'[key] # Nil /\ w.secret = index'[key]
      BY <1>2, <1>5, <2>1
    <3> QED
      BY <2>4, <3>2, <3>4, <3>5, <3>6, <3>7, <3>8, <3>9 DEF Creating, all
  <2>6. WriterFits'
    BY <2>4, <2>5, WriterIsClient DEF WriterFits
  <2>7. FitsAt("createChunks", call[Writer].kind)
    BY DEF FitsAt
  <2> QED
    BY <1>8, <2>1, <2>2, <2>3, <2>6, <2>7, WriterIsClient, FaultCounted, WentTo
<1>9. CASE Fault /\ Fail(Writer)
  <2>1. Return(Writer, Nil) /\ sure' = sure
    BY <1>9 DEF Fail
  <2>2. sure' \subseteq Keys
    BY <1>0, <2>1 DEF Typing
  <2>3. SureComplete'
    BY <1>6, <2>1 DEF SureComplete
  <2> QED
    BY <1>9, <2>1, <2>2, <2>3, RepliesAre, WriterIsClient, FaultCounted, Returned
<1> QED
  BY <1>7, <1>8, <1>9 DEF StoreIndex

LEMMA CreateIndexKeeps ==
    ASSUME IInv, NEW c \in Clients, CreateIndex(c)
    PROVE  IInv'
<1> DEFINE key == call[c].key
           r == call[c].release
<1>1. pc[c] = "createIndex"
  BY DEF CreateIndex
<1>2. call[c].kind = "create" /\ call[c] \in Calls /\ call[c] # Nil /\ c = Writer
  BY <1>1, InCall DEF FitsAt, Changes
<1>3. key \in Keys /\ r \in Releases
  BY <1>2, CallKinds
<1>4. CASE Fail(c) /\ UNCHANGED <<secrets, budget>>
  BY <1>4, RepliesAre, FaultCounted, Abandoned DEF Fail, budget, NoFault
<1>5. CASE Refuse(c, "exists") /\ UNCHANGED <<secrets, budget>>
  BY <1>5, RepliesAre, FaultCounted, Abandoned DEF Refuse, budget, NoFault
<1>6. CASE /\ index[key] = Nil /\ born' = born + 1
           /\ StoreIndex(c, IndexSecret(key, r, born + 1), ExtraChunks(key, r))
  <2>1. born + 1 \in Nat
    BY DEF IInv, Typing
  <2>2. IndexSecret(key, r, born + 1).key = key
    BY <1>3, <2>1, IndexSecretIs
  <2>3. index' = [index EXCEPT ![key] = IndexSecret(key, r, born + 1)] /\ UNCHANGED chunks
    BY <1>6, <2>2 DEF StoreIndex
  <2>4. SecretsTyped /\ SecretsFit
    BY DEF IInv, Typing, SecretsTyped
  <2>5. SecretsTyped' /\ SecretsFit'
    BY <1>3, <1>6, <2>3, <2>4, IndexCreated
  <2> QED
    BY <1>2, <1>6, <2>1, <2>5, IndexStored
<1> QED
  BY <1>4, <1>5, <1>6 DEF CreateIndex

LEMMA UpdateIndexKeeps ==
    ASSUME IInv, NEW c \in Clients, UpdateIndex(c)
    PROVE  IInv'
<1> DEFINE key == call[c].key
           r == call[c].release
<1>1. pc[c] = "updateIndex"
  BY DEF UpdateIndex
<1>2. call[c].kind = "update" /\ call[c] \in Calls /\ call[c] # Nil /\ c = Writer
  BY <1>1, InCall DEF FitsAt, Changes
<1>3. key \in Keys /\ r \in Releases
  BY <1>2, CallKinds
<1>4. index[key] # Nil /\ KeyChunks(key) = {}
  BY <1>1, <1>2 DEF IInv, WriterFits
<1> DEFINE u == index[key].uid
<1>5. u \in Nat
  BY <1>3, <1>4 DEF IInv, SecretsFit
<1>6. StoreIndex(c, IndexSecret(key, r, u), ExtraChunks(key, r)) /\ UNCHANGED born
  BY DEF UpdateIndex
<1>7. IndexSecret(key, r, u).key = key
  BY <1>3, <1>5, IndexSecretIs
<1>8. index' = [index EXCEPT ![key] = IndexSecret(key, r, u)] /\ UNCHANGED <<chunks, born>>
  BY <1>6, <1>7 DEF StoreIndex
<1>9. SecretsTyped /\ SecretsFit
  BY DEF IInv, Typing, SecretsTyped
<1>10. SecretsTyped' /\ SecretsFit'
  BY <1>3, <1>4, <1>8, <1>9, IndexUpdated
<1> QED
  BY <1>2, <1>4, <1>5, <1>6, <1>10, IndexStored

LEMMA CreateChunkKeeps ==
    ASSUME IInv, NEW c \in Clients, CreateChunk(c)
    PROVE  IInv'
<1>0. Typing /\ SecretsFit /\ CallsFit /\ WriterFits /\ SureFits
  BY DEF IInv
<1>1. pc[c] = "createChunks"
  BY DEF CreateChunk
<1>2. /\ call[c].kind \in {"create", "update"} /\ call[c] \in Calls /\ call[c] # Nil
      /\ c = Writer
  BY <1>1, InCall DEF FitsAt, Changes
<1>3. PICK key \in Keys, r \in Releases, w \in Locals :
        key = call[c].key /\ r = call[c].release /\ w = work[c]
  BY <1>0, <1>2, CallKinds DEF Typing
<1> DEFINE all == ExtraChunks(key, r)
           done == Len(all) - Len(w.extra)
           extra == Head(w.extra)
           rest == Tail(w.extra)
           new == ChunkSecret(key, index[key].uid, all[done + 1])
<1>4. /\ index[key] # Nil /\ w.secret = index[key]
      /\ index[key] = IndexSecret(key, r, index[key].uid)
      /\ Len(w.extra) \in 1..Len(all)
      /\ \A j \in 1..Len(w.extra) : w.extra[j] = all[done + j]
      /\ \A j \in 1..done : ChunkSecret(key, index[key].uid, all[j]) \in chunks
      /\ call[Writer].kind = "update" =>
            \A s \in KeyChunks(key) :
               \E j \in 1..done : s = ChunkSecret(key, index[key].uid, all[j])
  <2>1. Creating(key, r, w)
    BY <1>0, <1>1, <1>2, <1>3 DEF WriterFits
  <2> QED
    BY <2>1 DEF Creating
<1>5. all \in Seq(Extras) /\ Len(all) \in Nat
  BY ExtrasAre
<1>6. w.extra \in Seq(Extras) /\ w.extra # <<>> /\ Len(w.extra) \in Nat
  BY <1>4, <1>5, EmptySeq DEF Locals
<1> HIDE DEF all
<1>7. done + 1 \in 1..Len(all) /\ done \in Nat
  BY <1>4, <1>5
<1>8. extra = all[done + 1]
  <2>1. 1 \in 1..Len(w.extra)
    BY <1>4, <1>6
  <2>2. w.extra[1] = all[done + 1]
    BY <1>4, <2>1
  <2> QED
    BY <1>6, <2>2, HeadIsFirst
<1>9. /\ rest \in Seq(Extras) /\ Len(rest) = Len(w.extra) - 1
      /\ \A j \in 1..Len(rest) : rest[j] = w.extra[j + 1]
  BY <1>6, HeadTailProperties
<1>10. w.secret.key = key /\ w.secret.uid = index[key].uid /\ index[key].uid \in Nat
  <2>1. index[key].uid \in Nat
    BY <1>0, <1>4 DEF SecretsFit
  <2> QED
    BY <1>4, <2>1, IndexSecretIs
<1>11. CASE Fail(c) /\ UNCHANGED <<secrets, budget>>
  BY <1>11, RepliesAre, FaultCounted, Abandoned DEF Fail, budget, NoFault
<1>12. CASE /\ ~Stored(extra.name)
            /\ chunks' = chunks \cup {ChunkSecret(w.secret.key, w.secret.uid, extra)}
            /\ \/ /\ NoFault
                  /\ IF rest = <<>> THEN Succeed(c, {})
                     ELSE GoTo(c, "createChunks", [w EXCEPT !.extra = rest])
               \/ Fault /\ Fail(c)
            /\ UNCHANGED <<index, born>>
  <2>1. chunks' = chunks \cup {new} /\ ~Stored(all[done + 1].name)
    BY <1>8, <1>10, <1>12
  <2>2. SecretsTyped /\ SecretsFit
    BY <1>0 DEF Typing, SecretsTyped
  <2>3. SecretsTyped' /\ SecretsFit'
    BY <1>4, <1>7, <1>12, <2>1, <2>2, ChunkCreated DEF all
  <2>4. \A l \in sure : index'[l] # Nil => Complete(l)'
    BY <1>12, <2>1, OthersKept
  <2>5. key \notin sure /\ sure \subseteq Keys
    BY <1>0, <1>2, <1>3 DEF SureFits, Typing
  <2>6. index'[key] = index[key] /\ \A j \in 1..(done + 1) :
              ChunkSecret(key, index[key].uid, all[j]) \in chunks'
    <3> HIDE DEF done
    <3>1. \A j \in 1..(done + 1) : j \in 1..done \/ j = done + 1
      BY <1>7
    <3> QED
      BY <1>4, <1>12, <2>1, <3>1
  <2>7. CASE NoFault /\ rest = <<>> /\ Succeed(c, {})
    <3>1. Return(c, <<"ok", {}>>) /\ sure' = sure \cup {key}
      BY <1>2, <1>3, <2>7 DEF Succeed, Changes
    <3>2. sure' \subseteq Keys
      BY <2>5, <3>1
    <3>3. done + 1 = Len(all)
      <4>1. Len(rest) = 0
        BY <1>9, <2>7, EmptyHasNone
      <4>2. Len(w.extra) = 1
        BY <1>6, <1>9, <4>1
      <4> QED
        BY <1>5, <4>2
    <3>4. Complete(key)'
      <4>1. SUFFICES ASSUME NEW i \in 1..Len(index[key].extraChunks)
                     PROVE  \E s \in chunks' : /\ s.name = index[key].extraChunks[i]
                                               /\ s.owner = index[key].uid
        BY <2>6 DEF Complete
      <4>2. index[key].extraChunks = Names(all)
        BY <1>4, <1>10, IndexSecretIs DEF all
      <4>3. i \in 1..Len(all) /\ index[key].extraChunks[i] = all[i].name
        BY <1>5, <4>1, <4>2 DEF Names
      <4>4. ChunkSecret(key, index[key].uid, all[i]) \in chunks'
        BY <2>6, <3>3, <4>3
      <4> QED
        BY <4>3, <4>4 DEF ChunkSecret
    <3>5. SureComplete'
      BY <2>4, <3>1, <3>4 DEF SureComplete
    <3>6. <<"ok", {}>> \in Replies \cup {Nil}
      BY RepliesAre
    <3> QED
      BY <1>2, <2>3, <2>7, <3>1, <3>2, <3>5, <3>6, FaultCounted, Returned
  <2>8. CASE NoFault /\ rest # <<>> /\ GoTo(c, "createChunks", [w EXCEPT !.extra = rest])
    <3> DEFINE next == [w EXCEPT !.extra = rest]
    <3>1. next \in Locals /\ next.extra = rest /\ next.secret = w.secret
      BY <1>9 DEF Locals
    <3> HIDE DEF next
    <3>2. GoTo(c, "createChunks", next) /\ "createChunks" \in Requests
      BY <2>8 DEF next, Requests
    <3>3. work'[c] = next /\ pc'[c] = "createChunks" /\ call' = call /\ sure' = sure
      BY <1>0, <3>1, <3>2, GoToEffects
    <3>4. SureComplete'
      BY <2>4, <3>3 DEF SureComplete
    <3>5. FitsAt("createChunks", call[c].kind)
      BY <1>2 DEF FitsAt
    <3>6. Len(next.extra) \in 1..Len(all) /\ Len(all) - Len(next.extra) = done + 1
      <4>1. Len(rest) # 0
        BY <1>9, <2>8, EmptySeq
      <4>2. Len(next.extra) = Len(w.extra) - 1
        BY <1>9, <3>1
      <4>3. Len(w.extra) # 1
        BY <1>9, <4>1
      <4> DEFINE m == Len(w.extra)
                 n == Len(all)
      <4>4. m \in 1..n /\ n \in Nat /\ m # 1
        BY <1>4, <1>5, <4>3
      <4> HIDE DEF m, n
      <4>5. m - 1 \in 1..n /\ n - (m - 1) = (n - m) + 1
        BY <4>4
      <4> QED
        BY <4>2, <4>5 DEF m, n
    <3>7. \A j \in 1..Len(next.extra) : next.extra[j] = all[(done + 1) + j]
      <4>1. SUFFICES ASSUME NEW j \in 1..Len(rest) PROVE rest[j] = all[(done + 1) + j]
        BY <3>1
      <4>2. j + 1 \in 1..Len(w.extra) /\ rest[j] = w.extra[j + 1]
        BY <1>6, <1>9
      <4>3. w.extra[j + 1] = all[done + (j + 1)]
        BY <1>4, <4>2
      <4>4. done + (j + 1) = (done + 1) + j
        BY <1>7
      <4> QED
        BY <4>2, <4>3, <4>4
    <3>8. call'[Writer].kind = "update" =>
            \A s \in KeyChunks(key)' :
               \E j \in 1..(done + 1) : s = ChunkSecret(key, index[key].uid, all[j])
      <4>1. SUFFICES ASSUME call[Writer].kind = "update", NEW s \in chunks', s.key = key
                     PROVE  \E j \in 1..(done + 1) :
                               s = ChunkSecret(key, index[key].uid, all[j])
        BY <3>3 DEF KeyChunks
      <4>2. CASE s \in chunks
        <5>1. PICK j \in 1..done : s = ChunkSecret(key, index[key].uid, all[j])
          BY <1>4, <4>1, <4>2 DEF KeyChunks
        <5> QED
          BY <1>7, <5>1
      <4>3. CASE s = new
        <5>1. done + 1 \in 1..(done + 1)
          BY <1>7
        <5> HIDE DEF done
        <5> QED
          BY <4>3, <5>1
      <4> QED
        BY <2>1, <4>2, <4>3
    <3>9. Creating(key, r, next)'
      <4> HIDE DEF done
      <4> QED
        BY <1>4, <2>6, <3>1, <3>6, <3>7, <3>8 DEF Creating, all
    <3>10. WriterFits'
      BY <1>2, <1>3, <3>3, <3>9 DEF WriterFits
    <3> QED
      BY <1>2, <2>3, <2>8, <3>1, <3>2, <3>4, <3>5, <3>10, FaultCounted, WentTo
  <2>9. CASE Fault /\ Fail(c)
    <3>1. Return(c, Nil) /\ sure' = sure
      BY <2>9 DEF Fail
    <3>2. SureComplete'
      BY <2>4, <3>1 DEF SureComplete
    <3> QED
      BY <1>2, <2>3, <2>5, <2>9, <3>1, <3>2, RepliesAre, FaultCounted, Returned
  <2> QED
    BY <1>12, <2>7, <2>8, <2>9
<1> QED
  BY <1>3, <1>11, <1>12 DEF CreateChunk

(* A chunk that no index with an acknowledged release owns may go.         *)
LEMMA ChunkRemoved ==
    ASSUME IInv, NEW s \in chunks, chunks' = chunks \ {s}, UNCHANGED <<index, born>>,
           \A l \in sure : index[l] # Nil => index[l].uid # s.owner
    PROVE  /\ SecretsTyped' /\ SecretsFit'
           /\ \A l \in sure : index'[l] # Nil => Complete(l)'
<1>1. SecretsTyped /\ SecretsFit
  BY DEF IInv, Typing, SecretsTyped
<1>2. SecretsTyped' /\ SecretsFit'
  BY <1>1, ChunksDeleted
<1>3. \A l \in sure : index'[l] # Nil => Complete(l)'
  BY OthersKept
<1> QED
  BY <1>2, <1>3

LEMMA OwnedIsOfKey ==
    ASSUME IInv, NEW s \in chunks, NEW l \in Keys, index[l] # Nil, index[l].uid = s.owner
    PROVE  s.key = l
BY DEF IInv, SecretsFit

LEMMA DeleteOldChunksKeeps ==
    ASSUME IInv, NEW c \in Clients, DeleteOldChunks(c)
    PROVE  IInv'
<1>0. Typing /\ SecretsFit /\ CallsFit /\ WriterFits /\ SureFits
  BY DEF IInv
<1>1. pc[c] = "deleteChunks"
  BY DEF DeleteOldChunks
<1>2. call[c].kind = "update" /\ call[c] \in Calls /\ call[c] # Nil /\ c = Writer
  BY <1>1, InCall DEF FitsAt, Changes
<1>3. PICK key \in Keys : key = call[c].key
  BY <1>2, CallKinds
<1>4. index[key] # Nil /\ key \notin sure /\ sure \subseteq Keys
  BY <1>0, <1>1, <1>2, <1>3 DEF WriterFits, SureFits, Typing
<1>5. UNCHANGED <<index, born>>
  BY DEF DeleteOldChunks
<1>6. CASE /\ \E s \in KeyChunks(key) : chunks' = chunks \ {s}
           /\ UNCHANGED <<pc, call, work, reply, sure, budget>>
  <2>1. PICK s \in KeyChunks(key) : chunks' = chunks \ {s}
    BY <1>6
  <2>2. s \in chunks /\ s.key = key
    BY DEF KeyChunks
  <2>3. \A l \in sure : index[l] # Nil => index[l].uid # s.owner
    BY <1>4, <2>2, OwnedIsOfKey
  <2>4. /\ SecretsTyped' /\ SecretsFit'
        /\ \A l \in sure : index'[l] # Nil => Complete(l)'
    BY <1>5, <2>1, <2>2, <2>3, ChunkRemoved
  <2>5. SureComplete'
    BY <1>6, <2>4 DEF SureComplete
  <2>6. WriterFits'
    BY <1>1, <1>2, <1>3, <1>4, <1>5, <1>6 DEF WriterFits
  <2> QED
    BY <1>6, <2>4, <2>5, <2>6, Stayed DEF budget
<1>7. CASE /\ KeyChunks(key) = {} /\ UNCHANGED <<chunks, budget>>
           /\ GoTo(c, "updateIndex", work[c])
  <2>1. UNCHANGED secrets /\ faults' \in Nat
    BY <1>0, <1>5, <1>7 DEF secrets, budget, Typing
  <2>2. work[c] \in Locals /\ "updateIndex" \in Requests
    BY <1>0 DEF Typing, Requests
  <2>3. pc'[c] = "updateIndex" /\ call' = call
    BY <1>0, <1>7, <2>2, GoToEffects
  <2>4. KeyChunks(key)' = {}
    BY <1>7 DEF KeyChunks
  <2>5. WriterFits'
    BY <1>2, <1>3, <1>4, <1>5, <2>3, <2>4 DEF WriterFits
  <2>6. FitsAt("updateIndex", call[c].kind)
    BY <1>2 DEF FitsAt
  <2> QED
    BY <1>2, <1>7, <2>1, <2>2, <2>5, <2>6, GoneOn
<1>8. CASE UNCHANGED <<chunks, budget>> /\ Fail(c)
  BY <1>5, <1>8, RepliesAre, FaultCounted, Abandoned DEF Fail, budget, secrets, NoFault
<1> QED
  BY <1>3, <1>6, <1>7, <1>8 DEF DeleteOldChunks, KeyChunks

LEMMA DecodeKeeps ==
    ASSUME IInv, NEW c \in Clients, call[c] # Nil,
           call[c].kind \in {"get", "delete", "list"},
           NEW secret \in Secrets, NEW todo \in SUBSET Secrets,
           NEW found \in SUBSET ChunkNames,
           Decode(c, secret, todo, found), UNCHANGED <<secrets, budget>>
    PROVE  IInv'
<1>0. Typing /\ faults' \in Nat
  BY DEF IInv, Typing, budget
<1> DEFINE w == [NoWork EXCEPT !.secret = secret, !.names = secret.extraChunks,
                               !.read = secret.chunk, !.todo = todo, !.found = found]
<1>1. CASE Fail(c)
  BY <1>0, <1>1, RepliesAre, Abandoned DEF Fail
<1>2. CASE GoTo(c, "getChunks", w)
  <2>1. w \in Locals /\ w.secret # Nil
    <3>1. <<>> \in Seq(Extras) /\ secret # Nil
      BY EmptySeq, NilAssumption DEF Secrets, ChunkNames
    <3>2. secret.extraChunks \in Seq(ChunkNames) /\ secret.chunk \in Seq(Bytes)
      BY DEF Secrets
    <3> QED
      BY <3>1, <3>2 DEF NoWork, Locals
  <2> HIDE DEF w
  <2>2. "getChunks" \in Requests /\ FitsAt("getChunks", call[c].kind)
    BY DEF Requests, FitsAt
  <2>3. pc'[c] = "getChunks"
    BY <1>0, <1>2, <2>1, <2>2, GoToEffects
  <2>4. c = Writer => WriterFits'
    BY <2>3 DEF WriterFits
  <2> QED
    BY <1>0, <1>2, <2>1, <2>2, <2>4, GoneOn
<1> QED
  BY <1>1, <1>2 DEF Decode

LEMMA GetIndexKeeps ==
    ASSUME IInv, NEW c \in Clients, GetIndex(c)
    PROVE  IInv'
<1>0. Typing /\ faults' \in Nat /\ UNCHANGED <<secrets, budget>>
  BY DEF IInv, Typing, budget, GetIndex
<1>1. pc[c] = "getIndex"
  BY DEF GetIndex
<1>2. call[c].kind \in {"get", "update", "delete"} /\ call[c] \in Calls /\ call[c] # Nil
  BY <1>1, InCall DEF FitsAt
<1>3. PICK key \in Keys : key = call[c].key
  BY <1>2, CallKinds
<1>4. CASE index[key] = Nil /\ Refuse(c, "notFound")
  BY <1>0, <1>4, RepliesAre, Abandoned DEF Refuse
<1>5. CASE /\ index[key] # Nil /\ call[c].kind = "update"
           /\ GoTo(c, "deleteChunks", NoWork)
  <2>1. NoWork \in Locals /\ "deleteChunks" \in Requests
    <3>1. <<>> \in Seq(Extras) /\ <<>> \in Seq(ChunkNames) /\ <<>> \in Seq(Bytes)
      BY EmptySeq
    <3> QED
      BY <3>1 DEF NoWork, Locals, Requests
  <2>2. pc'[c] = "deleteChunks" /\ call' = call
    BY <1>0, <1>5, <2>1, GoToEffects
  <2>3. index' = index
    BY <1>0 DEF secrets
  <2>4. c = Writer => WriterFits'
    BY <1>3, <1>5, <2>2, <2>3 DEF WriterFits
  <2>5. FitsAt("deleteChunks", call[c].kind)
    BY <1>5 DEF FitsAt
  <2> QED
    BY <1>0, <1>2, <1>5, <2>1, <2>4, <2>5, GoneOn
<1>6. CASE index[key] # Nil /\ call[c].kind # "update" /\ Decode(c, index[key], {}, {})
  <2>1. index[key] \in Secrets
    BY <1>0, <1>6 DEF Typing
  <2> QED
    BY <1>0, <1>2, <1>6, <2>1, DecodeKeeps
<1> QED
  BY <1>3, <1>4, <1>5, <1>6 DEF GetIndex

(* A read that succeeds.                                                   *)
LEMMA Answered ==
    ASSUME IInv, NEW c \in Clients, NEW answer \in SUBSET ChunkNames, call[c] # Nil,
           ~Changes(call[c].kind), Succeed(c, answer), UNCHANGED <<secrets, budget>>
    PROVE  IInv'
<1>1. faults' \in Nat
  BY DEF IInv, Typing, budget
<1>2. Return(c, <<"ok", answer>>) /\ UNCHANGED sure
  BY DEF Succeed
<1>3. <<"ok", answer>> \in Replies \cup {Nil}
  BY RepliesAre
<1> QED
  BY <1>1, <1>2, <1>3, Abandoned

(* The index secrets that List, or Query, asks for.                        *)
Listed(label) ==
    {index[k] : k \in {k \in Keys : index[k] # Nil /\ label \in {Nil, index[k].label}}}

LEMMA ListIndicesKeeps ==
    ASSUME IInv, NEW c \in Clients, ListIndices(c)
    PROVE  IInv'
<1>0. Typing /\ faults' \in Nat /\ UNCHANGED <<secrets, budget>>
  BY DEF IInv, Typing, budget, ListIndices
<1>1. pc[c] = "listIndices"
  BY DEF ListIndices
<1>2. call[c].kind = "list" /\ call[c] \in Calls /\ call[c] # Nil
  BY <1>1, InCall DEF FitsAt
<1> DEFINE listed == Listed(call[c].label)
<1>3. listed \subseteq Secrets
  BY <1>0 DEF Typing, Listed
<1>4. CASE Succeed(c, {})
  BY <1>0, <1>2, <1>4, Answered DEF Changes
<1>5. CASE Refuse(c, "notFound")
  BY <1>0, <1>5, RepliesAre, Abandoned DEF Refuse
<1>6. CASE \E first \in listed : Decode(c, first, listed \ {first}, {})
  <2>1. PICK first \in listed : Decode(c, first, listed \ {first}, {})
    BY <1>6
  <2>2. first \in Secrets /\ listed \ {first} \in SUBSET Secrets /\ {} \in SUBSET ChunkNames
    BY <1>3
  <2> HIDE DEF listed
  <2> QED
    BY <1>0, <1>2, <2>1, <2>2, DecodeKeeps
<1> QED
  BY <1>4, <1>5, <1>6 DEF ListIndices, Listed

LEMMA DataOfStored ==
    ASSUME SecretsFit, NEW s \in chunks
    PROVE  Stored(s.name) /\ DataOf(s.name) = s.data
<1>1. Stored(s.name)
  BY DEF Stored
<1>2. (CHOOSE t \in chunks : t.name = s.name) = s
  BY DEF SecretsFit
<1> QED
  BY <1>1, <1>2 DEF DataOf

LEMMA GetChunkKeeps ==
    ASSUME IInv, NEW c \in Clients, GetChunk(c)
    PROVE  IInv'
<1>0. Typing /\ SecretsFit /\ faults' \in Nat /\ UNCHANGED <<secrets, budget>>
  BY DEF IInv, Typing, budget, GetChunk
<1>1. pc[c] = "getChunks"
  BY DEF GetChunk
<1>2. call[c].kind \in {"get", "delete", "list"} /\ call[c] \in Calls /\ call[c] # Nil
  BY <1>1, InCall DEF FitsAt
<1>3. PICK w \in Locals : w = work[c]
  BY <1>0 DEF Typing
<1> DEFINE next == [w EXCEPT !.names = Tail(w.names),
                             !.read = w.read \o DataOf(Head(w.names))]
<1>4. CASE Fail(c)
  BY <1>0, <1>4, RepliesAre, Abandoned DEF Fail
<1>5. CASE w.names # <<>> /\ Stored(Head(w.names)) /\ GoTo(c, "getChunks", next)
  <2>1. PICK s \in chunks : s.name = Head(w.names)
    BY <1>5 DEF Stored
  <2>2. DataOf(Head(w.names)) \in Seq(Bytes)
    BY <1>0, <2>1, DataOfStored DEF Typing
  <2>3. w.read \in Seq(Bytes) /\ w.names \in Seq(ChunkNames)
    BY DEF Locals
  <2>4. Tail(w.names) \in Seq(ChunkNames)
    BY <1>5, <2>3, HeadTailProperties
  <2>5. w.read \o DataOf(Head(w.names)) \in Seq(Bytes)
    BY <2>2, <2>3, ConcatProperties
  <2>6. next \in Locals /\ next.secret # Nil
    <3>1. w.secret # Nil
      BY <1>1, <1>3 DEF IInv, CallsFit
    <3> QED
      BY <2>4, <2>5, <3>1 DEF Locals
  <2> HIDE DEF next
  <2>7. "getChunks" \in Requests /\ FitsAt("getChunks", call[c].kind)
    BY <1>2 DEF Requests, FitsAt
  <2>8. pc'[c] = "getChunks"
    BY <1>0, <1>5, <2>6, <2>7, GoToEffects
  <2>9. c = Writer => WriterFits'
    BY <2>8 DEF WriterFits
  <2> QED
    BY <1>0, <1>2, <1>5, <2>6, <2>7, <2>9, GoneOn
<1> QED
  BY <1>3, <1>4, <1>5 DEF GetChunk

LEMMA DecodedKeeps ==
    ASSUME IInv, NEW c \in Clients, Decoded(c)
    PROVE  IInv'
<1>0. Typing /\ faults' \in Nat /\ UNCHANGED <<secrets, budget>>
  BY DEF IInv, Typing, budget, Decoded
<1>1. pc[c] = "getChunks"
  BY DEF Decoded
<1>2. call[c].kind \in {"get", "delete", "list"} /\ call[c] \in Calls /\ call[c] # Nil
  BY <1>1, InCall DEF FitsAt
<1>3. PICK w \in Locals : w = work[c]
  BY <1>0 DEF Typing
<1> DEFINE found == w.found \cup {<<w.secret.key, w.read>>}
<1>4. found \in SUBSET ChunkNames
  <2>1. w.secret \in Secrets
    BY <1>1, <1>3 DEF IInv, CallsFit, Locals
  <2>2. w.secret.key \in Keys /\ w.read \in Seq(Bytes) /\ w.found \subseteq ChunkNames
    BY <2>1 DEF Secrets, Locals
  <2> QED
    BY <2>2 DEF ChunkNames
<1> HIDE DEF found
<1>5. CASE \E next \in w.todo : Decode(c, next, w.todo \ {next}, found)
  <2>1. PICK next \in w.todo : Decode(c, next, w.todo \ {next}, found)
    BY <1>5
  <2>2. next \in Secrets /\ w.todo \ {next} \in SUBSET Secrets
    BY DEF Locals
  <2> QED
    BY <1>0, <1>2, <1>4, <2>1, <2>2, DecodeKeeps
<1>6. CASE call[c].kind # "delete" /\ Succeed(c, found)
  BY <1>0, <1>2, <1>4, <1>6, Answered DEF Changes
<1>7. CASE call[c].kind = "delete" /\ GoTo(c, "deleteAll", [w EXCEPT !.found = found])
  <2> DEFINE next == [w EXCEPT !.found = found]
  <2>1. next \in Locals
    BY <1>4 DEF Locals
  <2> HIDE DEF next
  <2>2. GoTo(c, "deleteAll", next) /\ "deleteAll" \in Requests
    BY <1>7 DEF next, Requests
  <2>3. FitsAt("deleteAll", call[c].kind)
    BY <1>7 DEF FitsAt
  <2>4. pc'[c] = "deleteAll"
    BY <1>0, <2>1, <2>2, GoToEffects
  <2>5. c = Writer => WriterFits'
    BY <2>4 DEF WriterFits
  <2> QED
    BY <1>0, <1>2, <2>1, <2>2, <2>3, <2>5, GoneOn
<1> QED
  BY <1>3, <1>5, <1>6, <1>7 DEF Decoded, found

LEMMA DeleteAllKeeps ==
    ASSUME IInv, NEW c \in Clients, DeleteAll(c)
    PROVE  IInv'
<1>0. Typing /\ SecretsFit /\ CallsFit /\ WriterFits /\ SureFits
  BY DEF IInv
<1>1. pc[c] = "deleteAll" /\ UNCHANGED <<born, budget>>
  BY DEF DeleteAll
<1>2. call[c].kind = "delete" /\ call[c] \in Calls /\ call[c] # Nil /\ c = Writer
  BY <1>1, InCall DEF FitsAt, Changes
<1>3. PICK key \in Keys : key = call[c].key
  BY <1>2, CallKinds
<1>4. key \notin sure /\ sure \subseteq Keys /\ faults' \in Nat
  BY <1>0, <1>1, <1>2, <1>3 DEF SureFits, Typing, budget
<1>5. CASE /\ index' = [index EXCEPT ![key] = Nil]
           /\ UNCHANGED <<chunks, pc, call, work, reply, sure>>
  <2>1. SecretsTyped /\ SecretsFit
    BY <1>0 DEF Typing, SecretsTyped
  <2>2. SecretsTyped' /\ SecretsFit'
    BY <1>1, <1>5, <2>1, IndexDeleted
  <2>3. \A l \in sure : index'[l] = index[l]
    BY <1>0, <1>4, <1>5 DEF Typing
  <2>4. SureComplete'
    BY <1>5, <2>3, SureKept
  <2>5. WriterFits'
    BY <1>1, <1>2, <1>5 DEF WriterFits
  <2> QED
    BY <1>1, <1>5, <2>2, <2>4, <2>5, Stayed DEF budget
<1>6. CASE /\ \E s \in KeyChunks(key) : chunks' = chunks \ {s}
           /\ UNCHANGED <<index, pc, call, work, reply, sure>>
  <2>1. PICK s \in KeyChunks(key) : chunks' = chunks \ {s}
    BY <1>6
  <2>2. s \in chunks /\ s.key = key
    BY DEF KeyChunks
  <2>3. \A l \in sure : index[l] # Nil => index[l].uid # s.owner
    BY <1>4, <2>2, OwnedIsOfKey
  <2>4. /\ SecretsTyped' /\ SecretsFit'
        /\ \A l \in sure : index'[l] # Nil => Complete(l)'
    BY <1>1, <1>6, <2>1, <2>2, <2>3, ChunkRemoved
  <2>5. SureComplete'
    BY <1>6, <2>4 DEF SureComplete
  <2>6. WriterFits'
    BY <1>1, <1>2, <1>6 DEF WriterFits
  <2> QED
    BY <1>1, <1>6, <2>4, <2>5, <2>6, Stayed DEF budget
<1>7. CASE /\ index[key] = Nil /\ Succeed(c, work[c].found)
           /\ UNCHANGED <<index, chunks>>
  <2>1. /\ Return(c, <<"ok", work[c].found>>)
        /\ sure' = sure \cup {key}
    BY <1>2, <1>3, <1>7 DEF Succeed, Changes
  <2>2. <<"ok", work[c].found>> \in Replies \cup {Nil}
    BY <1>0, RepliesAre DEF Typing, Locals
  <2>3. SecretsTyped' /\ SecretsFit'
    BY <1>0, <1>1, <1>7, ChunksDeleted DEF Typing, SecretsTyped
  <2>4. SureComplete'
    <3>1. \A l \in sure : index'[l] # Nil => Complete(l)'
      BY <1>7, OthersKept
    <3> QED
      BY <1>7, <2>1, <3>1 DEF SureComplete
  <2>5. sure' \subseteq Keys
    BY <1>4, <2>1
  <2> QED
    BY <1>2, <1>4, <2>1, <2>2, <2>3, <2>4, <2>5, Returned
<1> QED
  BY <1>3, <1>5, <1>6, <1>7 DEF DeleteAll, KeyChunks

LEMMA CollectKeeps ==
    ASSUME IInv, Collect
    PROVE  IInv'
<1>0. Typing /\ SecretsFit /\ CallsFit /\ WriterFits /\ SureFits
  BY DEF IInv
<1>1. PICK s \in Orphans : chunks' = chunks \ {s}
  BY DEF Collect
<1>2. UNCHANGED <<index, born, pc, call, work, reply, sure, faults>>
  BY DEF Collect, budget
<1>3. s \in chunks /\ \A k \in Keys : index[k] = Nil \/ index[k].uid # s.owner
  BY DEF Orphans
<1>4. \A l \in sure : index[l] # Nil => index[l].uid # s.owner
  BY <1>0, <1>3 DEF Typing
<1>5. /\ SecretsTyped' /\ SecretsFit'
      /\ \A l \in sure : index'[l] # Nil => Complete(l)'
  BY <1>1, <1>2, <1>3, <1>4, ChunkRemoved
<1>6. SureComplete'
  BY <1>2, <1>5 DEF SureComplete
<1>7. WriterFits'
  <2>1. ASSUME pc[Writer] = "createChunks"
        PROVE  Creating(call[Writer].key, call[Writer].release, work[Writer])'
    <3>1. call[Writer] \in Calls /\ call[Writer].kind \in {"create", "update"}
      BY <2>1, WriterIsClient, InCall DEF FitsAt
    <3>2. PICK k \in Keys, r \in Releases, w \in Locals :
            k = call[Writer].key /\ r = call[Writer].release /\ w = work[Writer]
      BY <1>0, <3>1, WriterIsClient, CallKinds DEF Typing
    <3>3. Creating(k, r, w)
      BY <1>0, <2>1, <3>2 DEF WriterFits
    <3> DEFINE done == Len(ExtraChunks(k, r)) - Len(w.extra)
    <3>4. \A j \in 1..done :
             ChunkSecret(k, index[k].uid, ExtraChunks(k, r)[j]) \in chunks'
      <4>1. index[k].uid # s.owner
        BY <1>3, <3>3 DEF Creating
      <4>2. \A j : ChunkSecret(k, index[k].uid, ExtraChunks(k, r)[j]).owner = index[k].uid
        BY DEF ChunkSecret
      <4> QED
        BY <1>1, <3>3, <4>1, <4>2 DEF Creating
    <3>5. KeyChunks(k)' \subseteq KeyChunks(k)
      BY <1>1 DEF KeyChunks
    <3>6. Creating(k, r, w)'
      BY <1>2, <3>3, <3>4, <3>5 DEF Creating
    <3> QED
      BY <1>2, <3>2, <3>6
  <2>2. \A k : KeyChunks(k)' \subseteq KeyChunks(k)
    BY <1>1 DEF KeyChunks
  <2> QED
    BY <1>0, <1>2, <2>1, <2>2 DEF WriterFits
<1> QED
  BY <1>2, <1>5, <1>6, <1>7, Stayed

-----------------------------------------------------------------------------
(* The invariant, and what follows from it                                 *)

LEMMA StartsFit == Init => IInv
<1> SUFFICES ASSUME Init PROVE IInv
  OBVIOUS
<1>1. NoWork \in Locals
  <2>1. <<>> \in Seq(Extras) /\ <<>> \in Seq(ChunkNames) /\ <<>> \in Seq(Bytes)
    BY EmptySeq
  <2> QED
    BY <2>1 DEF NoWork, Locals
<1>2. Typing
  BY <1>1 DEF Init, Typing
<1>3. SecretsFit
  BY DEF Init, SecretsFit
<1>4. CallsFit
  BY DEF Init, CallsFit
<1>5. WriterFits /\ SureFits
  BY WriterIsClient DEF Init, WriterFits, SureFits
<1> QED
  BY <1>2, <1>3, <1>4, <1>5 DEF IInv

LEMMA IdleKeeps ==
    ASSUME IInv, UNCHANGED vars
    PROVE  IInv'
<1>1. UNCHANGED <<index, chunks, born, pc, call, work, reply, sure, faults>>
  BY DEF vars, secrets, budget
<1>2. SecretsTyped' /\ SecretsFit'
  BY <1>1, ChunksDeleted DEF IInv, Typing, SecretsTyped
<1>3. SureComplete'
  BY <1>1, SureKept
<1>4. WriterFits'
  BY <1>1, WriterUntouched DEF IInv
<1> QED
  BY <1>1, <1>2, <1>3, <1>4, Stayed

LEMMA StepsFit == IInv /\ [Next]_vars => IInv'
<1> SUFFICES ASSUME IInv, [Next]_vars PROVE IInv'
  OBVIOUS
<1>1. ASSUME NEW c \in Clients, Request(c)
      PROVE  IInv'
  BY <1>1, CreateIndexKeeps, CreateChunkKeeps, DeleteOldChunksKeeps,
     UpdateIndexKeeps, GetIndexKeeps, ListIndicesKeeps, GetChunkKeeps,
     DecodedKeeps, DeleteAllKeeps DEF Request
<1> QED
  BY <1>1, BeginKeeps, DieKeeps, CollectKeeps, IdleKeeps DEF Next

(* The secrets, the calls and the locals of the clients fit together in    *)
(* every reachable state: chunked.go keeps this for any number of readers, *)
(* keys and releases, and whatever is lost.                                *)
THEOREM Invariance == Spec => []IInv
BY StartsFit, StepsFit, PTL DEF Spec

(* Every reachable state is well typed.                                    *)
THEOREM TypeCorrect == Spec => []TypeOK
<1>1. IInv => TypeOK
  <2> SUFFICES ASSUME IInv PROVE TypeOK
    OBVIOUS
  <2>1. \A k \in Keys : index[k] # Nil => index[k].key = k /\ index[k] \in Secrets
    <3> SUFFICES ASSUME NEW k \in Keys, index[k] # Nil
                 PROVE  index[k].key = k /\ index[k] \in Secrets
      OBVIOUS
    <3>1. index[k].uid \in Nat
          /\ \E r \in Releases : index[k] = IndexSecret(k, r, index[k].uid)
      BY DEF IInv, SecretsFit
    <3> QED
      BY <3>1, IndexSecretIs
  <2> QED
    BY <2>1 DEF IInv, Typing, SecretsFit, CallsFit, TypeOK, Secrets
<1> QED
  BY <1>1, Invariance, PTL

(* No chunk that a stored index owns is left out of its list of names, so  *)
(* that reading, updating or deleting the release reaches it.              *)
THEOREM NoChunkLeaked == Spec => []NoLeakedChunk
<1>1. IInv => NoLeakedChunk
  BY DEF IInv, SecretsFit, NoLeakedChunk
<1> QED
  BY <1>1, Invariance, PTL

-----------------------------------------------------------------------------
(* Updates repair                                                          *)

(* Where Writer creates chunks, the next one is the i-th of its release,   *)
(* after those before it, and in an Update there is no other.              *)
LEMMA NextChunkIs ==
    ASSUME IInv, pc[Writer] = "createChunks"
    PROVE  \E k \in Keys, r \in Releases : \E i \in 2..Len(Parts[r]) :
              /\ k = call[Writer].key /\ r = call[Writer].release
              /\ index[k] # Nil /\ index[k] = IndexSecret(k, r, index[k].uid)
              /\ work[Writer].secret = index[k]
              /\ Head(work[Writer].extra) =
                    [name |-> <<k, Parts[r][i]>>, data |-> Parts[r][i]]
              /\ Tail(work[Writer].extra) = <<>> <=> i = Len(Parts[r])
              /\ \A j \in 2..i - 1 : Stored(<<k, Parts[r][j]>>)
              /\ call[Writer].kind = "update" =>
                    \A s \in KeyChunks(k) : \E j \in 2..i - 1 : s.name = <<k, Parts[r][j]>>
<1>1. /\ call[Writer] \in Calls /\ call[Writer] # Nil
      /\ call[Writer].kind \in {"create", "update"}
  BY InCall, WriterIsClient DEF FitsAt
<1>2. PICK k \in Keys, r \in Releases : k = call[Writer].key /\ r = call[Writer].release
  BY <1>1, CallKinds
<1>3. PICK all, w, done : /\ all = ExtraChunks(k, r) /\ w = work[Writer]
                          /\ done = Len(all) - Len(w.extra)
  OBVIOUS
<1>4. Creating(k, r, w)
  BY <1>2, <1>3 DEF IInv, WriterFits
<1>5. /\ index[k] # Nil /\ index[k] = IndexSecret(k, r, index[k].uid)
      /\ w.secret = index[k] /\ Len(w.extra) \in 1..Len(all)
      /\ \A j \in 1..Len(w.extra) : w.extra[j] = all[done + j]
      /\ \A j \in 1..done : ChunkSecret(k, index[k].uid, all[j]) \in chunks
      /\ call[Writer].kind = "update" => \A s \in KeyChunks(k) :
            \E j \in 1..done : s = ChunkSecret(k, index[k].uid, all[j])
  BY <1>3, <1>4 DEF Creating
<1>6. w.extra \in Seq(Extras)
  <2>1. w \in Locals
    BY <1>3, WriterIsClient DEF IInv, Typing
  <2> QED
    BY <2>1 DEF Locals
<1>7. /\ Len(all) = Len(Parts[r]) - 1 /\ Len(all) \in Nat
      /\ \A i \in 1..Len(all) :
            all[i] = [name |-> <<k, Parts[r][i + 1]>>, data |-> Parts[r][i + 1]]
  BY <1>3, ExtrasAre
<1>8. Len(w.extra) \in Nat /\ Len(w.extra) >= 1 /\ Len(w.extra) <= Len(all)
  BY <1>5, <1>7
<1>9. done \in Nat /\ done + 1 \in 1..Len(all) /\ done + 2 \in 2..Len(Parts[r])
      /\ (Len(w.extra) = 1 <=> done + 2 = Len(Parts[r]))
  <2> DEFINE n == Len(all)
             m == Len(w.extra)
  <2>1. /\ done = n - m /\ n \in Nat /\ m \in Nat /\ m >= 1 /\ m <= n
        /\ Len(Parts[r]) = n + 1
    BY <1>3, <1>7, <1>8, PartCount
  <2> HIDE DEF n, m
  <2>2. /\ done \in Nat /\ done + 1 \in 1..n /\ done + 2 \in 2..Len(Parts[r])
        /\ (m = 1 <=> done + 2 = Len(Parts[r]))
    BY <2>1
  <2> QED
    BY <2>2 DEF n, m
<1>10. Head(w.extra) = [name |-> <<k, Parts[r][done + 2]>>, data |-> Parts[r][done + 2]]
  <2>1. w.extra # <<>>
    BY <1>6, <1>8, EmptyHasNone
  <2>2. Head(w.extra) = w.extra[1]
    BY <1>6, <2>1, HeadIsFirst
  <2>3. w.extra[1] = all[done + 1]
    BY <1>5, <1>8
  <2>4. (done + 1) + 1 = done + 2
    BY <1>9
  <2> QED
    BY <1>7, <1>9, <2>2, <2>3, <2>4
<1>11. Tail(w.extra) = <<>> <=> done + 2 = Len(Parts[r])
  <2>1. w.extra # <<>>
    BY <1>6, <1>8, EmptyHasNone
  <2>2. Tail(w.extra) \in Seq(Extras) /\ Len(Tail(w.extra)) = Len(w.extra) - 1
    BY <1>6, <2>1, HeadTailProperties
  <2>3. Tail(w.extra) = <<>> <=> Len(Tail(w.extra)) = 0
    BY <2>2, EmptyHasNone
  <2>4. Tail(w.extra) = <<>> <=> Len(w.extra) = 1
    BY <1>8, <2>2, <2>3
  <2> QED
    BY <1>9, <2>4
<1>12. ASSUME NEW j \in 2..done + 1
       PROVE  ChunkSecret(k, index[k].uid, all[j - 1]).name = <<k, Parts[r][j]>>
              /\ ChunkSecret(k, index[k].uid, all[j - 1]) \in chunks
  <2>1. j - 1 \in 1..done /\ j - 1 \in 1..Len(all) /\ (j - 1) + 1 = j
    BY <1>7, <1>9
  <2>2. all[j - 1] = [name |-> <<k, Parts[r][j]>>, data |-> Parts[r][j]]
    BY <1>7, <2>1
  <2> QED
    BY <1>5, <2>1, <2>2 DEF ChunkSecret
<1>13. \A j \in 2..done + 1 : Stored(<<k, Parts[r][j]>>)
  BY <1>12 DEF Stored
<1>14. ASSUME call[Writer].kind = "update", NEW s \in KeyChunks(k)
       PROVE  \E j \in 2..done + 1 : s.name = <<k, Parts[r][j]>>
  <2>1. PICK j \in 1..done : s = ChunkSecret(k, index[k].uid, all[j])
    BY <1>5, <1>14
  <2>2. j + 1 \in 2..done + 1 /\ (j + 1) - 1 = j
    BY <1>9
  <2> QED
    BY <1>12, <2>1, <2>2
<1>15. (done + 2) - 1 = done + 1
  BY <1>9
<1> QED
  <2>1. PICK i \in 2..Len(Parts[r]) : i = done + 2 /\ i - 1 = done + 1
    BY <1>9, <1>15
  <2>2. /\ Head(work[Writer].extra) =
              [name |-> <<k, Parts[r][i]>>, data |-> Parts[r][i]]
        /\ Tail(work[Writer].extra) = <<>> <=> i = Len(Parts[r])
        /\ \A j \in 2..i - 1 : Stored(<<k, Parts[r][j]>>)
        /\ call[Writer].kind = "update" =>
              \A s \in KeyChunks(k) : \E j \in 2..i - 1 : s.name = <<k, Parts[r][j]>>
    BY <1>3, <1>10, <1>11, <1>13, <1>14, <2>1
  <2> QED
    BY <1>2, <1>3, <1>5, <2>2

(* Where an Update creates its chunks, the next one is not there.          *)
LEMMA NextChunkIsMissing ==
    ASSUME IInv, pc[Writer] = "createChunks", call[Writer].kind = "update"
    PROVE  ~Stored(Head(work[Writer].extra).name)
<1>1. PICK k \in Keys, r \in Releases : \E i \in 2..Len(Parts[r]) :
         /\ Head(work[Writer].extra) = [name |-> <<k, Parts[r][i]>>, data |-> Parts[r][i]]
         /\ \A s \in KeyChunks(k) : \E j \in 2..i - 1 : s.name = <<k, Parts[r][j]>>
  BY NextChunkIs
<1> PICK i \in 2..Len(Parts[r]) :
         /\ Head(work[Writer].extra) = [name |-> <<k, Parts[r][i]>>, data |-> Parts[r][i]]
         /\ \A s \in KeyChunks(k) : \E j \in 2..i - 1 : s.name = <<k, Parts[r][j]>>
  BY <1>1
<1> SUFFICES ASSUME NEW s \in chunks, s.name = <<k, Parts[r][i]>> PROVE FALSE
  BY DEF Stored
<1>2. s \in KeyChunks(k)
  BY DEF IInv, SecretsFit, KeyChunks
<1>3. PICK j \in 2..i - 1 : Parts[r][j] = Parts[r][i]
  BY <1>2
<1>4. j \in 2..Len(Parts[r]) /\ j # i
  BY PartCount
<1> QED
  BY <1>3, <1>4, CompressionAssumption

(* No step of one client is in the call of another.                        *)
LEMMA OwnStep ==
    ASSUME IInv, NEW c \in Clients, NEW d \in Clients, c # d,
           Begin(d) \/ Request(d) \/ Die(d)
    PROVE  pc'[c] = pc[c] /\ call'[c] = call[c] /\ work'[c] = work[c]
<1> DEFINE Same == pc'[c] = pc[c] /\ call'[c] = call[c] /\ work'[c] = work[c]
<1>1. /\ call \in [Clients -> Calls \cup {Nil}]
      /\ pc \in [Clients -> Requests \cup {"idle"}]
      /\ work \in [Clients -> Locals]
  BY DEF IInv, Typing
<1>2. ASSUME NEW answer, Return(d, answer) PROVE Same
  BY <1>1, <1>2 DEF Return
<1>3. ASSUME NEW step, NEW w, GoTo(d, step, w) PROVE Same
  BY <1>3 DEF GoTo
<1>4. ASSUME NEW secret, NEW extra, StoreIndex(d, secret, extra)
      PROVE  Same
  BY <1>2, <1>3, <1>4 DEF StoreIndex, Succeed, Fail
<1>5. ASSUME NEW secret, NEW todo, NEW found, Decode(d, secret, todo, found)
      PROVE  Same
  BY <1>2, <1>3, <1>5 DEF Decode, Fail
<1>6. CASE Begin(d)
  BY <1>1, <1>6 DEF Begin
<1>7. CASE Die(d)
  BY <1>2, <1>7 DEF Die, Fail
<1>8. CASE Request(d)
  <2>1. CASE CreateIndex(d)
    BY <1>2, <1>4, <2>1 DEF CreateIndex, Fail, Refuse
  <2>2. CASE CreateChunk(d)
    BY <1>2, <1>3, <2>2 DEF CreateChunk, Fail, Succeed
  <2>3. CASE DeleteOldChunks(d)
    BY <1>2, <1>3, <2>3 DEF DeleteOldChunks, Fail
  <2>4. CASE UpdateIndex(d)
    BY <1>4, <2>4 DEF UpdateIndex
  <2>5. CASE GetIndex(d)
    BY <1>2, <1>3, <1>5, <2>5 DEF GetIndex, Refuse
  <2>6. CASE ListIndices(d)
    BY <1>2, <1>5, <2>6 DEF ListIndices, Succeed, Refuse
  <2>7. CASE GetChunk(d)
    BY <1>2, <1>3, <2>7 DEF GetChunk, Fail
  <2>8. CASE Decoded(d)
    BY <1>2, <1>3, <1>5, <2>8 DEF Decoded, Succeed
  <2>9. CASE DeleteAll(d)
    BY <1>2, <2>9 DEF DeleteAll, Succeed
  <2> QED
    BY <1>8, <2>1, <2>2, <2>3, <2>4, <2>5, <2>6, <2>7, <2>8, <2>9 DEF Request
<1> QED
  BY <1>6, <1>7, <1>8

(* An Update in which no request fails ends well, or with "not found", or  *)
(* because its release is too large: what a failed call has torn, and the  *)
(* chunks it has left behind, never stand in its way.                      *)
THEOREM UpdatesRepair == Spec => UpdateRepairs
<1> DEFINE Well(c) == reply'[c] # Nil /\ reply'[c][1] \in {"ok", "notFound"}
           Repaired(c) ==
             /\ call[c] # Nil /\ call[c].kind = "update"
             /\ call'[c] = Nil /\ faults' = faults
             => \/ Well(c)
                \/ TooLarge(Len(Parts[call[c].release]), MaxWriteChunks)
<1>1. IInv /\ [Next]_vars => [\A c \in Clients : Repaired(c)]_vars
  <2> SUFFICES ASSUME IInv, Next, NEW c \in Clients,
                      call[c] # Nil, call[c].kind = "update",
                      call'[c] = Nil, faults' = faults,
                      ~TooLarge(Len(Parts[call[c].release]), MaxWriteChunks)
               PROVE  Well(c)
    OBVIOUS
  <2>1. c = Writer /\ pc[c] # "idle" /\ FitsAt(pc[c], "update")
    BY DEF IInv, CallsFit, Changes
  <2>2. reply \in [Clients -> Replies \cup {Nil}] /\ faults \in Nat
    BY DEF IInv, Typing
  <2>3. ~Fault
    BY <2>2 DEF Fault
  <2>4. \A step, w : ~GoTo(c, step, w)
    BY DEF GoTo
  <2>5. ASSUME NEW answer \in SUBSET ChunkNames, Succeed(c, answer) PROVE Well(c)
    <3>1. <<"ok", answer>> \in Replies \cup {Nil} /\ <<"ok", answer>> # Nil
      BY RepliesAre, NilAssumption DEF ChunkNames, Replies
    <3> QED
      BY <2>2, <2>5, <3>1 DEF Succeed, Return
  <2>6. Refuse(c, "notFound") => Well(c)
    <3>1. <<"notFound", {}>> \in {"ok", "notFound", "exists"} \X SUBSET ChunkNames
      OBVIOUS
    <3>2. <<"notFound", {}>> # Nil
      BY <3>1, NilAssumption DEF ChunkNames
    <3> QED
      BY <2>2, <3>2 DEF Refuse, Return
  <2>7. ASSUME NEW secret, NEW extra, StoreIndex(c, secret, extra) PROVE Well(c)
    <3>1. Succeed(c, {})
      BY <2>3, <2>4, <2>7 DEF StoreIndex
    <3> QED
      BY <2>5, <3>1
  <2> HIDE DEF Well
  <2>8. CASE Begin(c)
    BY <2>1, <2>8 DEF Begin
  <2>9. CASE Die(c)
    BY <2>3, <2>9 DEF Die
  <2>10. CASE CreateIndex(c)
    BY <2>1, <2>10 DEF CreateIndex, FitsAt
  <2>11. CASE CreateChunk(c)
    <3>1. ~Stored(Head(work[c].extra).name)
      BY <2>1, <2>11, NextChunkIsMissing DEF CreateChunk
    <3>2. Succeed(c, {})
      BY <2>3, <2>4, <2>11, <3>1 DEF CreateChunk
    <3> QED
      BY <2>5, <3>2
  <2>12. CASE DeleteOldChunks(c)
    BY <2>4, <2>12 DEF DeleteOldChunks
  <2>13. CASE UpdateIndex(c)
    BY <2>7, <2>13 DEF UpdateIndex
  <2>14. CASE GetIndex(c)
    BY <2>4, <2>6, <2>14 DEF GetIndex
  <2>15. CASE ListIndices(c) \/ GetChunk(c) \/ Decoded(c) \/ DeleteAll(c)
    BY <2>1, <2>15 DEF ListIndices, GetChunk, Decoded, DeleteAll, FitsAt
  <2>16. CASE Collect
    BY <2>16 DEF Collect
  <2>17. ASSUME NEW d \in Clients, d # c, Begin(d) \/ Request(d) \/ Die(d)
         PROVE  FALSE
    BY <2>17, OwnStep
  <2>18. CASE Begin(c) \/ Request(c) \/ Die(c)
    BY <2>8, <2>9, <2>10, <2>11, <2>12, <2>13, <2>14, <2>15, <2>18 DEF Request
  <2> QED
    BY <2>16, <2>17, <2>18 DEF Next
<1> QED
  BY <1>1, Invariance, PTL DEF Spec, UpdateRepairs
=============================================================================
