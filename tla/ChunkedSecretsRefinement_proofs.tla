------------------- MODULE ChunkedSecretsRefinement_proofs -------------------
(***************************************************************************)
(* pkg/storage/chunked.go is the storage that ReleaseStore describes: the  *)
(* proof that every step of ChunkedSecrets is one of ReleaseStore's, or    *)
(* changes nothing there.                                                  *)
(*                                                                         *)
(* It needs to know, of every client that reads, that the release it reads *)
(* was in the store as a whole during the call or that one of the chunks   *)
(* it still has to read is missing, and of a Delete, that what it deletes  *)
(* was there: RInv, which is inductive beside the IInv of                  *)
(* ChunkedSecrets_proofs.  The secrets change in four ways (SecretsStep),  *)
(* and each keeps what a client has seen (SeenKept).  The mapping then     *)
(* goes step by step: what a step does to the secrets is an Effect its     *)
(* call may have, and how the step ends is Work, Fail, Succeed or Refuse.  *)
(***************************************************************************)
EXTENDS ChunkedSecrets_proofs

-----------------------------------------------------------------------------
(* The inductive invariant                                                 *)

Values == {Encoding[r] : r \in Releases}
Entries == Keys \X Values

(* The index secret of k is that of release r, ...                         *)
IsOf(k, r) == index[k] # Nil /\ index[k] = IndexSecret(k, r, index[k].uid)

(* ... and its i-th chunk is there.                                        *)
There(k, r, i) == Stored(<<k, Parts[r][i]>>)

(* What the history variables are.                                         *)
RecordsFit ==
    /\ held \in [Clients -> SUBSET Entries]
    /\ kept \in [Clients -> SUBSET Entries]
    /\ past \subseteq Entries
    /\ Contents \subseteq past
    /\ \A e \in past : e[1] \in sure => e \in Contents
    /\ \A c \in Clients :
          /\ call[c] = Nil => held[c] = {} /\ kept[c] = {}
          /\ call[c] # Nil => past \subseteq held[c] /\ kept[c] \subseteq Contents
    /\ \A e \in held[Writer] : e[1] \notin sure => e \in past

(* A client that has the index secret of r for k, and m chunks to read: the *)
(* release was there as a whole in its call, or one of these chunks is      *)
(* missing, and if the last is there the index secret has not been changed. *)
Seen(c, k, r, m) ==
    LET n == Len(Parts[r])
    IN  \/ <<k, Encoding[r]>> \in held[c]
        \/ /\ \E i \in n - m + 1 .. n : ~There(k, r, i)
           /\ There(k, r, n) => IsOf(k, r)

(* A release that is asked for by a call.                                  *)
Asked(k, r, to) ==
    /\ to.kind = "list" => to.label \in {Nil, Label[r]}
    /\ to.kind # "list" => k = to.key

(* The secret and the chunks that are read, and what is read of them.      *)
Underway(c, k, r, w) ==
    LET n == Len(Parts[r])
        m == Len(w.names)
    IN  /\ w.secret = IndexSecret(k, r, w.secret.uid)
        /\ m < n
        /\ \A j \in 1..m : w.names[j] = <<k, Parts[r][n - m + j]>>
        /\ w.read = SubSeq(Encoding[r], 1, End(r, n - m))
        /\ Seen(c, k, r, m)
        /\ Asked(k, r, call[c])

(* A secret that is still to be decoded.                                   *)
Waiting(c, k, r, secret) ==
    /\ secret = IndexSecret(k, r, secret.uid)
    /\ Seen(c, k, r, Len(Parts[r]) - 1)
    /\ Asked(k, r, call[c])

Found(e, w) ==
    \/ e \in w.found
    \/ \E s \in {w.secret} \cup w.todo :
          \E k \in Keys, r \in Releases :
             s = IndexSecret(k, r, s.uid) /\ e = <<k, Encoding[r]>>

Reading(c, w) ==
    /\ \E k \in Keys, r \in Releases : Underway(c, k, r, w)
    /\ \A t \in w.todo : \E k \in Keys, r \in Releases : Waiting(c, k, r, t)
    /\ w.found \subseteq held[c]
    /\ \A e \in w.found : \E k \in Keys, r \in Releases :
          e = <<k, Encoding[r]>> /\ Asked(k, r, call[c])
    /\ call[c].kind # "list" => w.todo = {} /\ w.found = {}
    /\ call[c].kind = "list" =>
          \A k \in Keys, r \in Releases :
             <<k, Encoding[r]>> \in kept[c] /\ Asked(k, r, call[c])
                => Found(<<k, Encoding[r]>>, w)
    /\ c = Writer => index[call[c].key] = w.secret

(* What a Delete has decoded was there as a whole, and so was what it still *)
(* has to delete.                                                          *)
Deleting(k, found) ==
    /\ \E r \in Releases :
          found = {<<k, Encoding[r]>>} /\ <<k, Encoding[r]>> \in held[Writer]
    /\ \A r \in Releases : IsOf(k, r) => <<k, Encoding[r]>> \in past

ReadsFit ==
    /\ \A c \in Clients, w \in Locals :
          pc[c] = "getChunks" /\ work[c] = w => Reading(c, w)
    /\ \A k \in Keys, w \in Locals :
          pc[Writer] = "deleteAll" /\ work[Writer] = w /\ call[Writer].key = k
             => Deleting(k, w.found)

RInv == RecordsFit /\ ReadsFit

-----------------------------------------------------------------------------
(* Which release a key holds                                               *)

LEMMA StoredIs ==
    ASSUME SecretsFit, NEW k, NEW x
    PROVE  Stored(<<k, x>>) => /\ DataOf(<<k, x>>) = x
                               /\ \E s \in KeyChunks(k) : s.name = <<k, x>>
<1> SUFFICES ASSUME NEW s \in chunks, s.name = <<k, x>>
             PROVE  /\ DataOf(<<k, x>>) = x
                    /\ \E t \in KeyChunks(k) : t.name = <<k, x>>
  BY DEF Stored
<1>1. s.key = k /\ s.data = x
  BY DEF SecretsFit
<1>2. DataOf(<<k, x>>) = x
  BY <1>1, DataOfStored
<1> QED
  BY <1>1, <1>2 DEF KeyChunks

(* The last chunk of a release, or its only one, is in no other.           *)
LEMMA PartsTell ==
    ASSUME NEW r \in Releases, NEW s \in Releases,
           Len(Parts[r]) = Len(Parts[s]), Parts[r][1] = Parts[s][1],
           \A i \in 2..Len(Parts[r]) : Parts[r][i] = Parts[s][i]
    PROVE  r = s
<1>1. Len(Parts[r]) \in Nat \ {0}
  BY PartCount
<1>2. CASE Len(Parts[r]) = 1
  <2>1. /\ Parts[r][1] = Encoding[r]
        /\ Parts[s][1] = Encoding[s]
    BY <1>2, FirstPart, LastPart
  <2> QED
    BY <2>1, DriverAssumption
<1>3. CASE Len(Parts[r]) # 1
  <2> DEFINE n == Len(Parts[r])
  <2>1. n \in 2..n /\ n \in 2..Len(Parts[s])
    <3>1. n \in Nat /\ n # 0 /\ n # 1 /\ Len(Parts[s]) = n
      BY <1>1, <1>3
    <3> HIDE DEF n
    <3> QED
      BY <3>1
  <2>2. Parts[r][Len(Parts[r])] = Parts[s][Len(Parts[r])]
    BY <2>1
  <2> QED
    BY <2>1, <2>2, CompressionAssumption
<1> QED
  BY <1>2, <1>3

LEMMA SecretTells ==
    ASSUME NEW k \in Keys, NEW l \in Keys, NEW r \in Releases, NEW s \in Releases,
           NEW u \in Nat, NEW v \in Nat,
           IndexSecret(k, r, u) = IndexSecret(l, s, v)
    PROVE  k = l /\ r = s
<1>1. k = l /\ Parts[r][1] = Parts[s][1]
      /\ Names(ExtraChunks(k, r)) = Names(ExtraChunks(l, s))
  BY IndexSecretIs
<1>2. /\ Len(Parts[r]) \in Nat \ {0} /\ Len(Parts[s]) \in Nat \ {0}
      /\ Len(Parts[r]) - 1 = Len(Parts[s]) - 1
  BY <1>1, NamesAre, PartCount
<1>3. Len(Parts[r]) = Len(Parts[s])
  BY <1>2
<1>4. ASSUME NEW i \in 2..Len(Parts[r]) PROVE Parts[r][i] = Parts[s][i]
  <2>1. i - 1 \in 1..Len(Parts[r]) - 1 /\ (i - 1) + 1 = i
    BY <1>2
  <2>2. Names(ExtraChunks(k, r))[i - 1] = <<k, Parts[r][i]>>
    BY <2>1, NamesAre
  <2>3. Names(ExtraChunks(l, s))[i - 1] = <<l, Parts[s][i]>>
    BY <1>3, <2>1, NamesAre
  <2> QED
    BY <1>1, <2>2, <2>3
<1> QED
  BY <1>1, <1>3, <1>4, PartsTell

(* A key holds a release when its index secret is that of the release, and *)
(* the other chunks are there.                                             *)
LEMMA HoldsMeans ==
    SecretsFit /\ SecretsTyped => \A k \in Keys, r \in Releases :
        Holds(k, r) <=> IsOf(k, r) /\ \A i \in 2..Len(Parts[r]) : There(k, r, i)
<1> SUFFICES ASSUME SecretsFit, SecretsTyped, NEW k \in Keys, NEW r \in Releases
             PROVE  Holds(k, r) <=> IsOf(k, r) /\ \A i \in 2..Len(Parts[r]) : There(k, r, i)
  OBVIOUS
<1> DEFINE n == Len(Parts[r])
<1>1. n \in Nat \ {0}
  BY PartCount
<1>2. ASSUME IsOf(k, r), \A i \in 2..n : There(k, r, i) PROVE Holds(k, r)
  <2>1. PICK u \in Nat : index[k] = IndexSecret(k, r, u)
    BY <1>2 DEF IsOf, SecretsFit
  <2>2. /\ index[k] # Nil /\ index[k].chunk = Parts[r][1]
        /\ Len(index[k].extraChunks) = n - 1
        /\ \A i \in 1..n - 1 : index[k].extraChunks[i] = <<k, Parts[r][i + 1]>>
    BY <2>1, StoredNames
  <2>3. ASSUME NEW i \in 1..n - 1
        PROVE  /\ Stored(index[k].extraChunks[i])
               /\ DataOf(index[k].extraChunks[i]) = Parts[r][i + 1]
    <3>1. i + 1 \in 2..n
      BY <1>1
    <3>2. Stored(<<k, Parts[r][i + 1]>>)
      BY <1>2, <3>1 DEF There
    <3>3. DataOf(<<k, Parts[r][i + 1]>>) = Parts[r][i + 1]
      BY <3>2, StoredIs
    <3>4. index[k].extraChunks[i] = <<k, Parts[r][i + 1]>>
      BY <2>2
    <3> QED
      BY <3>2, <3>3, <3>4
  <2> QED
    BY <2>2, <2>3 DEF Holds
<1>3. ASSUME Holds(k, r) PROVE IsOf(k, r) /\ \A i \in 2..n : There(k, r, i)
  <2>1. /\ index[k] # Nil /\ index[k].chunk = Parts[r][1]
        /\ Len(index[k].extraChunks) = n - 1
        /\ \A i \in 1..n - 1 : /\ Stored(index[k].extraChunks[i])
                               /\ DataOf(index[k].extraChunks[i]) = Parts[r][i + 1]
    BY <1>3 DEF Holds
  <2>2. PICK s \in Releases : index[k] = IndexSecret(k, s, index[k].uid) /\ index[k].uid \in Nat
    BY <2>1 DEF SecretsFit
  <2>3. /\ Len(Parts[s]) \in Nat \ {0} /\ Len(Parts[s]) - 1 = n - 1
        /\ Parts[s][1] = Parts[r][1]
        /\ \A i \in 1..Len(Parts[s]) - 1 : index[k].extraChunks[i] = <<k, Parts[s][i + 1]>>
    <3>1. PICK u \in Nat : index[k] = IndexSecret(k, s, u)
      BY <2>2
    <3>2. /\ Len(Parts[s]) \in Nat \ {0}
          /\ index[k].chunk = Parts[s][1]
          /\ Len(index[k].extraChunks) = Len(Parts[s]) - 1
          /\ \A i \in 1..Len(Parts[s]) - 1 :
                index[k].extraChunks[i] = <<k, Parts[s][i + 1]>>
      BY <3>1, StoredNames
    <3> QED
      BY <2>1, <3>2
  <2>4. Len(Parts[s]) = n
    BY <1>1, <2>3
  <2>5. ASSUME NEW i \in 2..n
        PROVE  Parts[s][i] = Parts[r][i] /\ Stored(<<k, Parts[s][i]>>)
    <3>1. i - 1 \in 1..n - 1 /\ (i - 1) + 1 = i
      BY <1>1
    <3>2. index[k].extraChunks[i - 1] = <<k, Parts[s][i]>>
      BY <2>3, <2>4, <3>1
    <3>3. Stored(<<k, Parts[s][i]>>) /\ DataOf(<<k, Parts[s][i]>>) = Parts[r][i]
      BY <2>1, <3>1, <3>2
    <3> QED
      BY <3>3, StoredIs
  <2>6. s = r
    BY <2>3, <2>4, <2>5, PartsTell
  <2> QED
    BY <2>1, <2>2, <2>5, <2>6 DEF IsOf, There
<1> QED
  BY <1>2, <1>3

(* What a key holds is known by its index secret.                          *)
LEMMA OneRelease ==
    SecretsFit => \A k \in Keys, r, s \in Releases : IsOf(k, r) /\ IsOf(k, s) => r = s
<1> SUFFICES ASSUME SecretsFit, NEW k \in Keys, NEW r \in Releases, NEW s \in Releases,
                    IsOf(k, r), IsOf(k, s)
             PROVE  r = s
  OBVIOUS
<1>1. PICK u \in Nat : IndexSecret(k, r, u) = IndexSecret(k, s, u)
  BY DEF IsOf, SecretsFit
<1> QED
  BY <1>1, SecretTells

LEMMA OneReleaseThen ==
    (SecretsFit => \A k \in Keys, r, s \in Releases : IsOf(k, r) /\ IsOf(k, s) => r = s)'
BY OneRelease, PTL

LEMMA HoldsThen ==
    (SecretsFit /\ SecretsTyped => \A k \in Keys, r \in Releases :
        Holds(k, r) <=> IsOf(k, r) /\ \A i \in 2..Len(Parts[r]) : There(k, r, i))'
BY HoldsMeans, PTL

-----------------------------------------------------------------------------
(* The values of the store                                                 *)

LEMMA ValueIs ==
    SecretsFit /\ SecretsTyped => \A k \in Keys :
        /\ StoreValue(k) = Nil <=> index[k] = Nil
        /\ \A r \in Releases : StoreValue(k) = Encoding[r] <=> Holds(k, r)
        /\ StoreValue(k) \in Values \cup {Nil, Torn}
<1> SUFFICES ASSUME SecretsFit, SecretsTyped, NEW k \in Keys
             PROVE  /\ StoreValue(k) = Nil <=> index[k] = Nil
                    /\ \A r \in Releases : StoreValue(k) = Encoding[r] <=> Holds(k, r)
                    /\ StoreValue(k) \in Values \cup {Nil, Torn}
  OBVIOUS
<1>1. /\ Nil # Torn
      /\ \A r \in Releases : Encoding[r] # Nil /\ Encoding[r] # Torn
  BY NilAssumption
<1>2. CASE index[k] = Nil
  <2>1. StoreValue(k) = Nil /\ \A r \in Releases : ~Holds(k, r)
    BY <1>2 DEF StoreValue, Holds
  <2> QED
    BY <1>1, <1>2, <2>1
<1>3. CASE index[k] # Nil /\ ~\E r \in Releases : Holds(k, r)
  <2>1. StoreValue(k) = Torn
    BY <1>3 DEF StoreValue
  <2> QED
    BY <1>1, <1>3, <2>1
<1>4. CASE index[k] # Nil /\ \E r \in Releases : Holds(k, r)
  <2>1. PICK r \in Releases : Holds(k, r) /\ StoreValue(k) = Encoding[r]
    BY <1>4 DEF StoreValue
  <2>2. ASSUME NEW s \in Releases PROVE Holds(k, s) <=> s = r
    BY <2>1, HoldsMeans, OneRelease
  <2>3. ASSUME NEW s \in Releases PROVE StoreValue(k) = Encoding[s] <=> s = r
    BY <2>1, DriverAssumption
  <2>4. StoreValue(k) \in Values /\ StoreValue(k) # Nil
    BY <1>1, <2>1 DEF Values
  <2> QED
    BY <1>4, <2>2, <2>3, <2>4
<1> QED
  BY <1>2, <1>3, <1>4

LEMMA ValueThen ==
    (SecretsFit /\ SecretsTyped => \A k \in Keys :
        /\ StoreValue(k) = Nil <=> index[k] = Nil
        /\ \A r \in Releases : StoreValue(k) = Encoding[r] <=> Holds(k, r)
        /\ StoreValue(k) \in Values \cup {Nil, Torn})'
BY ValueIs, PTL

Store == [k \in Keys |-> StoreValue(k)]
Pending == [c \in Clients |-> AbstractCall(call[c])]

LEMMA ContentsMember ==
    \A k, v : <<k, v>> \in Contents <=>
        k \in Keys /\ \E r \in Releases : Holds(k, r) /\ v = Encoding[r]
<1> SUFFICES ASSUME NEW k, NEW v
             PROVE  <<k, v>> \in Contents <=>
                      k \in Keys /\ \E r \in Releases : Holds(k, r) /\ v = Encoding[r]
  OBVIOUS
<1>1. ASSUME <<k, v>> \in Contents
      PROVE  k \in Keys /\ \E r \in Releases : Holds(k, r) /\ v = Encoding[r]
  <2>1. PICK e \in Keys \X Releases : Holds(e[1], e[2]) /\ <<k, v>> = <<e[1], Encoding[e[2]]>>
    BY <1>1 DEF Contents
  <2> QED
    BY <2>1
<1>2. ASSUME k \in Keys, NEW r \in Releases, Holds(k, r), v = Encoding[r]
      PROVE  <<k, v>> \in Contents
  <2>1. <<k, r>> \in {f \in Keys \X Releases : Holds(f[1], f[2])}
    BY <1>2
  <2> QED
    BY <1>2, <2>1 DEF Contents
<1> QED
  BY <1>1, <1>2

LEMMA ContentsAreEntries == Contents \subseteq Entries
BY DEF Contents, Entries, Values

LEMMA ContentsAre ==
    SecretsFit /\ SecretsTyped => Contents = Storage!Contents(Store)
<1> SUFFICES ASSUME SecretsFit, SecretsTyped
             PROVE  Contents = Storage!Contents(Store)
  OBVIOUS
<1>1. Storage!Contents(Store) \subseteq Entries
  BY DEF Storage!Contents, Entries, Values
<1>2. ASSUME NEW e \in Entries PROVE e \in Contents <=> e \in Storage!Contents(Store)
  <2>1. PICK k \in Keys, r \in Releases : e = <<k, Encoding[r]>>
    BY DEF Entries, Values
  <2>2. e \in Contents <=> Holds(k, r)
    BY <2>1, ContentsMember, DriverAssumption
  <2>3. e \in Storage!Contents(Store) <=> StoreValue(k) = Encoding[r]
    BY <2>1 DEF Storage!Contents, Store, Values
  <2> QED
    BY <2>2, <2>3, ValueIs
<1> QED
  BY <1>1, <1>2, ContentsAreEntries

LEMMA ContentsThen ==
    (SecretsFit /\ SecretsTyped => Contents = Storage!Contents(Store))'
BY ContentsAre, PTL

LEMMA ContentsAreEntriesThen == (Contents \subseteq Entries)'
BY ContentsAreEntries, PTL

LEMMA ContentsMemberThen ==
    (\A k, v : <<k, v>> \in Contents <=>
        k \in Keys /\ \E r \in Releases : Holds(k, r) /\ v = Encoding[r])'
BY ContentsMember, PTL

-----------------------------------------------------------------------------
(* The history                                                             *)

LEMMA RecordsKept ==
    ASSUME RecordsFit, Remember, call[Writer] = Nil \/ sure \subseteq sure'
    PROVE  RecordsFit'
<1>1. /\ past' = Contents' \cup {e \in past : e[1] \notin sure'}
      /\ held' = [c \in Clients |-> IF call'[c] = Nil THEN {} ELSE held[c] \cup past']
      /\ kept' = [c \in Clients |->
                     CASE call'[c] = Nil -> {}
                       [] call'[c] # Nil /\ call[c] = Nil -> Contents'
                       [] OTHER -> kept[c] \cap Contents']
  BY DEF Remember
<1>2. Contents' \subseteq Entries
  BY ContentsAreEntriesThen DEF Entries, Values
<1>3. past' \subseteq Entries
  BY <1>1, <1>2 DEF RecordsFit
<1>4. held' \in [Clients -> SUBSET Entries]
  BY <1>1, <1>3 DEF RecordsFit
<1>5. ASSUME NEW c \in Clients
      PROVE  /\ kept'[c] \in SUBSET Entries
             /\ call'[c] = Nil => held'[c] = {} /\ kept'[c] = {}
             /\ call'[c] # Nil => past' \subseteq held'[c] /\ kept'[c] \subseteq Contents'
  BY <1>1, <1>2 DEF RecordsFit
<1>6. kept' \in [Clients -> SUBSET Entries]
  BY <1>1, <1>5
<1>7. ASSUME NEW e \in held'[Writer], e[1] \notin sure' PROVE e \in past'
  <2>1. call'[Writer] # Nil /\ e \in held[Writer] \cup past'
    BY <1>1, <1>7, WriterIsClient
  <2>2. CASE call[Writer] = Nil
    BY <2>1, <2>2, WriterIsClient DEF RecordsFit
  <2>3. CASE e \in held[Writer] /\ sure \subseteq sure'
    BY <1>1, <1>7, <2>3 DEF RecordsFit
  <2> QED
    BY <2>1, <2>2, <2>3
<1>8. \A e \in past' : e[1] \in sure' => e \in Contents'
  BY <1>1
<1> QED
  BY <1>1, <1>3, <1>4, <1>5, <1>6, <1>7, <1>8 DEF RecordsFit, Entries, Values

(* Where nothing changes there is nothing to remember.                     *)
LEMMA NothingNew ==
    ASSUME RecordsFit, Remember, Contents' = Contents, UNCHANGED <<call, sure>>
    PROVE  UNCHANGED <<past, held, kept>>
<1>1. past' = past
  BY DEF RecordsFit, Remember
<1>2. ASSUME NEW c \in Clients PROVE held'[c] = held[c] /\ kept'[c] = kept[c]
  BY <1>1 DEF RecordsFit, Remember
<1>3. held' = [c \in Clients |-> held'[c]] /\ held = [c \in Clients |-> held[c]]
  BY DEF RecordsFit, Remember
<1>4. kept' = [c \in Clients |-> kept'[c]] /\ kept = [c \in Clients |-> kept[c]]
  BY DEF RecordsFit, Remember
<1> QED
  BY <1>1, <1>2, <1>3, <1>4

-----------------------------------------------------------------------------
(* How the secrets change                                                  *)

(* Chunks go.                                                              *)
Shrunk == index' = index /\ chunks' \subseteq chunks

(* An index is stored: in a Create where there is none, in an Update where *)
(* no chunk of the key is left.                                            *)
IndexPut(k, r) ==
    /\ index[k] = Nil \/ KeyChunks(k) = {}
    /\ \E u \in Nat : index' = [index EXCEPT ![k] = IndexSecret(k, r, u)]
    /\ chunks' = chunks

(* The i-th chunk is stored, after those before it.                        *)
ChunkPut(k, r, i) ==
    /\ IsOf(k, r)
    /\ \A j \in 2..i - 1 : There(k, r, j)
    /\ \E s \in [name : {<<k, Parts[r][i]>>}, data : {Parts[r][i]}, key : {k}, owner : Nat] :
          chunks' = chunks \cup {s}
    /\ index' = index

(* An index goes, of a release that was there as a whole.                  *)
IndexDropped(k) ==
    /\ \A r \in Releases : IsOf(k, r) => <<k, Encoding[r]>> \in past
    /\ index' = [index EXCEPT ![k] = Nil]
    /\ chunks' = chunks

SecretsStep ==
    \/ Shrunk
    \/ \E k \in Keys : IndexDropped(k) \/ \E r \in Releases : IndexPut(k, r)
    \/ \E k \in Keys, r \in Releases : \E i \in 2..Len(Parts[r]) : ChunkPut(k, r, i)

(* What a client has seen stays seen, whatever happens to the secrets.     *)
LEMMA SeenKept ==
    ASSUME SecretsFit, SecretsTyped, SecretsFit', SecretsTyped', RecordsFit, RecordsFit',
           NEW c \in Clients, call[c] # Nil, call'[c] # Nil, held[c] \subseteq held'[c],
           SecretsStep,
           NEW k \in Keys, NEW r \in Releases, NEW m \in 0..Len(Parts[r]) - 1,
           Seen(c, k, r, m)
    PROVE  Seen(c, k, r, m)'
<1> DEFINE n == Len(Parts[r])
<1>1. n \in Nat \ {0} /\ m \in Nat /\ m < n
  BY PartCount
<1>2. CASE <<k, Encoding[r]>> \in held[c]
  BY <1>2 DEF Seen
<1> SUFFICES ASSUME NEW i \in n - m + 1 .. n, ~There(k, r, i),
                    There(k, r, n) => IsOf(k, r)
             PROVE  Seen(c, k, r, m)'
  BY <1>2 DEF Seen
<1>3. n \in n - m + 1 .. n /\ i \in 2..n /\ n \in 2..n
  BY <1>1
<1>4. ASSUME ~There(k, r, n)' PROVE Seen(c, k, r, m)'
  BY <1>3, <1>4 DEF Seen
<1>5. ASSUME ~There(k, r, i)', There(k, r, n)' => IsOf(k, r)' PROVE Seen(c, k, r, m)'
  BY <1>5 DEF Seen
<1>6. ASSUME <<k, Encoding[r]>> \in past \/ <<k, Encoding[r]>> \in past'
      PROVE  Seen(c, k, r, m)'
  BY <1>6 DEF Seen, RecordsFit
<1>7. chunks' \subseteq chunks => \A j \in 2..n : There(k, r, j)' => There(k, r, j)
  BY DEF There, Stored
<1>8. CASE Shrunk
  <2>1. IsOf(k, r)' <=> IsOf(k, r)
    BY <1>8 DEF Shrunk, IsOf
  <2> QED
    BY <1>3, <1>5, <1>7, <1>8, <2>1 DEF Shrunk
<1>9. ASSUME NEW l \in Keys, IndexDropped(l) PROVE Seen(c, k, r, m)'
  <2>1. CASE l = k
    BY <1>3, <1>4, <1>6, <1>7, <1>9, <2>1 DEF IndexDropped
  <2>2. CASE l # k
    <3>1. index'[k] = index[k]
      BY <1>9, <2>2 DEF IndexDropped, SecretsTyped
    <3>2. IsOf(k, r)' <=> IsOf(k, r)
      BY <3>1 DEF IsOf
    <3> QED
      BY <1>3, <1>5, <1>7, <1>9, <3>2 DEF IndexDropped
  <2> QED
    BY <2>1, <2>2
<1>10. ASSUME NEW l \in Keys, NEW q \in Releases, IndexPut(l, q)
       PROVE  Seen(c, k, r, m)'
  <2>1. CASE l = k
    <3>1. ~There(k, r, n)
      <4>1. There(k, r, n) => index[k] # Nil
        BY DEF IsOf
      <4>2. There(k, r, n) => KeyChunks(k) # {}
        BY StoredIs DEF There
      <4> QED
        BY <1>10, <2>1, <4>1, <4>2 DEF IndexPut
    <3> QED
      BY <1>3, <1>4, <1>7, <1>10, <3>1 DEF IndexPut
  <2>2. CASE l # k
    <3>1. index'[k] = index[k]
      BY <1>10, <2>2 DEF IndexPut, SecretsTyped
    <3>2. IsOf(k, r)' <=> IsOf(k, r)
      BY <3>1 DEF IsOf
    <3> QED
      BY <1>3, <1>5, <1>7, <1>10, <3>2 DEF IndexPut
  <2> QED
    BY <2>1, <2>2
<1>11. ASSUME NEW l \in Keys, NEW q \in Releases, NEW p \in 2..Len(Parts[q]),
              ChunkPut(l, q, p)
       PROVE  Seen(c, k, r, m)'
  <2>1. ASSUME NEW j \in 2..n
        PROVE  There(k, r, j)' <=> There(k, r, j) \/ <<k, Parts[r][j]>> = <<l, Parts[q][p]>>
    BY <1>11 DEF ChunkPut, There, Stored
  <2>2. IsOf(k, r)' <=> IsOf(k, r)
    BY <1>11 DEF ChunkPut, IsOf
  <2>3. CASE ~(k = l /\ r = q)
    <3>1. <<k, Parts[r][n]>> # <<l, Parts[q][p]>>
      BY <1>3, <2>3, CompressionAssumption
    <3>2. There(k, r, n)' <=> There(k, r, n)
      BY <1>3, <2>1, <3>1
    <3>3. CASE There(k, r, n)
      <4>1. IsOf(k, r)
        BY <3>3
      <4>2. k # l
        BY <1>11, <2>3, <4>1, OneRelease DEF ChunkPut
      <4>3. There(k, r, i)' <=> There(k, r, i)
        BY <1>3, <2>1, <4>2
      <4> QED
        BY <1>5, <2>2, <4>1, <4>3
    <3>4. CASE ~There(k, r, n)
      BY <1>4, <3>2, <3>4
    <3> QED
      BY <3>3, <3>4
  <2>4. CASE k = l /\ r = q
    <3>1. IsOf(k, r)'
      BY <1>11, <2>2, <2>4 DEF ChunkPut
    <3>2. CASE There(k, r, i)'
      <4>1. Parts[r][i] = Parts[r][p]
        BY <1>3, <2>1, <2>4, <3>2
      <4>2. i = p
        BY <1>3, <2>4, <4>1, CompressionAssumption
      <4>3. \A j \in 2..i - 1 : There(k, r, j)
        BY <1>11, <2>4, <4>2 DEF ChunkPut
      <4>4. CASE \A j \in i..n : There(k, r, j)'
        <5>1. ASSUME NEW j \in 2..n PROVE There(k, r, j)'
          <6>1. j \in 2..i - 1 \/ j \in i..n
            BY <1>1, <1>3
          <6> QED
            BY <2>1, <4>3, <4>4, <6>1
        <5>2. Holds(k, r)'
          BY <3>1, <5>1, HoldsThen
        <5>3. <<k, Encoding[r]>> \in Contents'
          BY <5>2, ContentsMemberThen
        <5> QED
          BY <1>6, <5>3 DEF RecordsFit
      <4>5. ASSUME NEW j \in i..n, ~There(k, r, j)' PROVE Seen(c, k, r, m)'
        <5>1. j \in n - m + 1 .. n
          BY <1>1
        <5> QED
          BY <3>1, <4>5, <5>1 DEF Seen
      <4> QED
        BY <4>4, <4>5
    <3>3. CASE ~There(k, r, i)'
      BY <1>5, <3>1, <3>3
    <3> QED
      BY <3>2, <3>3
  <2> QED
    BY <2>3, <2>4
<1> QED
  BY <1>8, <1>9, <1>10, <1>11 DEF SecretsStep

-----------------------------------------------------------------------------
(* What the steps that write do                                            *)

(* How a request to store a secret ends: its reply may be lost.            *)
Writes(c, last) ==
    \/ Fail(c)
    \/ last /\ Succeed(c, {})
    \/ \E w : GoTo(c, "createChunks", w)

LEMMA StoreIndexDoes ==
    ASSUME NEW c, NEW k \in Keys, NEW r \in Releases, NEW u \in Nat,
           index[k] = Nil \/ KeyChunks(k) = {},
           StoreIndex(c, IndexSecret(k, r, u), ExtraChunks(k, r))
    PROVE  IndexPut(k, r) /\ Writes(c, Len(Parts[r]) = 1)
<1>1. IndexPut(k, r)
  <2>1. IndexSecret(k, r, u).key = k
    BY IndexSecretIs
  <2>2. index' = [index EXCEPT ![k] = IndexSecret(k, r, u)] /\ chunks' = chunks
    BY <2>1 DEF StoreIndex
  <2> QED
    BY <2>2 DEF IndexPut
<1>2. ExtraChunks(k, r) = <<>> <=> Len(Parts[r]) = 1
  <2>1. Len(ExtraChunks(k, r)) = Len(Parts[r]) - 1 /\ Len(Parts[r]) \in Nat \ {0}
    BY ExtrasAre, PartCount
  <2>2. ExtraChunks(k, r) = <<>> <=> Len(ExtraChunks(k, r)) = 0
    BY ExtrasAre, EmptyHasNone
  <2> QED
    BY <2>1, <2>2
<1>3. Writes(c, Len(Parts[r]) = 1)
  BY <1>2 DEF StoreIndex, Writes
<1> QED
  BY <1>1, <1>3

(* The call of the client that makes a step.                               *)
LEMMA CallOf ==
    ASSUME IInv, NEW c \in Clients, pc[c] # "idle"
    PROVE  /\ call[c] \in Calls /\ call[c] # Nil
           /\ FitsAt(pc[c], call[c].kind)
           /\ Changes(call[c].kind) <=> c = Writer
           /\ call[c].kind \in {"create", "update", "get", "delete", "list"}
           /\ call[c].kind # "list" => call[c].key \in Keys
           /\ call[c].kind \in {"create", "update"} => call[c].release \in Releases
           /\ call[c].kind = "list" => call[c].label \in Labels \cup {Nil}
           /\ work[c] \in Locals
BY InCall, CallKinds DEF IInv, Typing

LEMMA CreateIndexDoes ==
    ASSUME IInv, NEW c \in Clients, CreateIndex(c),
           NEW k, NEW r, k = call[c].key, r = call[c].release
    PROVE  /\ c = Writer /\ call[c].kind = "create" /\ call[c] # Nil
           /\ k \in Keys /\ r \in Releases
           /\ \/ UNCHANGED secrets /\ Fail(c)
              \/ UNCHANGED secrets /\ Refuse(c, "exists") /\ index[k] # Nil
              \/ index[k] = Nil /\ IndexPut(k, r) /\ Writes(c, Len(Parts[r]) = 1)
<1>1. pc[c] = "createIndex"
  BY DEF CreateIndex
<1>2. /\ c = Writer /\ call[c].kind = "create" /\ call[c] # Nil
      /\ k \in Keys /\ r \in Releases
  BY <1>1, CallOf DEF FitsAt, Changes
<1>3. born + 1 \in Nat
  BY DEF IInv, Typing
<1> QED
  BY <1>2, <1>3, StoreIndexDoes DEF CreateIndex

LEMMA UpdateIndexDoes ==
    ASSUME IInv, NEW c \in Clients, UpdateIndex(c),
           NEW k, NEW r, k = call[c].key, r = call[c].release
    PROVE  /\ c = Writer /\ call[c].kind = "update" /\ call[c] # Nil
           /\ k \in Keys /\ r \in Releases
           /\ index[k] # Nil
           /\ IndexPut(k, r) /\ Writes(c, Len(Parts[r]) = 1)
<1>1. pc[c] = "updateIndex"
  BY DEF UpdateIndex
<1>2. /\ c = Writer /\ call[c].kind = "update" /\ call[c] # Nil
      /\ k \in Keys /\ r \in Releases
  BY <1>1, CallOf DEF FitsAt, Changes
<1>3. index[k] # Nil /\ KeyChunks(k) = {}
  BY <1>1, <1>2 DEF IInv, WriterFits
<1>4. index[k].uid \in Nat
  BY <1>2, <1>3 DEF IInv, SecretsFit
<1> QED
  BY <1>2, <1>3, <1>4, StoreIndexDoes DEF UpdateIndex

LEMMA CreateChunkDoes ==
    ASSUME IInv, NEW c \in Clients, CreateChunk(c),
           NEW k, NEW r, k = call[c].key, r = call[c].release
    PROVE  /\ c = Writer /\ call[c].kind \in {"create", "update"} /\ call[c] # Nil
           /\ k \in Keys /\ r \in Releases
           /\ IsOf(k, r)
           /\ \/ UNCHANGED secrets /\ Fail(c)
              \/ \E i \in 2..Len(Parts[r]) :
                    ChunkPut(k, r, i) /\ Writes(c, i = Len(Parts[r]))
<1>1. pc[c] = "createChunks"
  BY DEF CreateChunk
<1>2. c = Writer /\ call[c].kind \in {"create", "update"} /\ call[c] # Nil
      /\ k \in Keys /\ r \in Releases
  BY <1>1, CallOf DEF FitsAt, Changes
<1>3. PICK i \in 2..Len(Parts[r]) :
         /\ index[k] # Nil /\ index[k] = IndexSecret(k, r, index[k].uid)
         /\ work[Writer].secret = index[k]
         /\ Head(work[Writer].extra) = [name |-> <<k, Parts[r][i]>>, data |-> Parts[r][i]]
         /\ Tail(work[Writer].extra) = <<>> <=> i = Len(Parts[r])
         /\ \A j \in 2..i - 1 : Stored(<<k, Parts[r][j]>>)
  BY <1>1, <1>2, NextChunkIs, ZenonT(60)
<1>4. IsOf(k, r) /\ index[k].key = k /\ index[k].uid \in Nat
  <2>1. index[k].uid \in Nat
    BY <1>2, <1>3 DEF IInv, SecretsFit
  <2> QED
    BY <1>2, <1>3, <2>1, IndexSecretIs DEF IsOf
<1>5. CASE Stored(Head(work[c].extra).name)
  BY <1>2, <1>4, <1>5 DEF CreateChunk
<1>6. CASE ~Stored(Head(work[c].extra).name)
  <2>1. chunks' = chunks \cup {ChunkSecret(index[k].key, index[k].uid, Head(work[c].extra))}
        /\ UNCHANGED index
    BY <1>2, <1>3, <1>6 DEF CreateChunk
  <2>2. ChunkSecret(index[k].key, index[k].uid, Head(work[c].extra))
           = [name |-> <<k, Parts[r][i]>>, data |-> Parts[r][i], key |-> k,
              owner |-> index[k].uid]
    BY <1>2, <1>3, <1>4 DEF ChunkSecret
  <2>3. ChunkPut(k, r, i)
    BY <1>3, <1>4, <2>1, <2>2 DEF ChunkPut, There
  <2>4. Writes(c, i = Len(Parts[r]))
    BY <1>2, <1>3, <1>6 DEF CreateChunk, Writes
  <2> QED
    BY <1>2, <1>4, <2>3, <2>4
<1> QED
  BY <1>5, <1>6

(* One of the chunks of a key may have gone.                               *)
ChunksGo(k) ==
    /\ Shrunk
    /\ \A s \in chunks : s.key # k => s \in chunks'

LEMMA DeleteOldChunksDoes ==
    ASSUME IInv, NEW c \in Clients, DeleteOldChunks(c), NEW k, k = call[c].key
    PROVE  /\ c = Writer /\ call[c].kind = "update" /\ call[c] # Nil
           /\ k \in Keys /\ index[k] # Nil
           /\ \/ ChunksGo(k) /\ UNCHANGED <<pc, call, work, reply, sure>>
              \/ UNCHANGED secrets /\ (Fail(c) \/ \E w : GoTo(c, "updateIndex", w))
<1>1. pc[c] = "deleteChunks"
  BY DEF DeleteOldChunks
<1>2. c = Writer /\ call[c].kind = "update" /\ call[c] # Nil /\ k \in Keys
  BY <1>1, CallOf DEF FitsAt, Changes
<1>3. index[k] # Nil
  BY <1>1, <1>2 DEF IInv, WriterFits
<1>4. \/ ChunksGo(k) /\ UNCHANGED <<pc, call, work, reply, sure>>
      \/ UNCHANGED secrets /\ (Fail(c) \/ \E w : GoTo(c, "updateIndex", w))
  BY DEF DeleteOldChunks, ChunksGo, Shrunk, secrets
<1> QED
  BY <1>2, <1>3, <1>4

LEMMA DeleteAllDoes ==
    ASSUME IInv, RInv, NEW c \in Clients, DeleteAll(c), NEW k, k = call[c].key
    PROVE  /\ c = Writer /\ call[c].kind = "delete" /\ call[c] # Nil
           /\ k \in Keys
           /\ Deleting(k, work[c].found)
           /\ \/ IndexDropped(k) /\ UNCHANGED <<pc, call, work, reply, sure>>
              \/ ChunksGo(k) /\ UNCHANGED <<pc, call, work, reply, sure>>
              \/ /\ UNCHANGED secrets /\ index[k] = Nil
                 /\ Succeed(c, work[c].found)
<1>1. pc[c] = "deleteAll"
  BY DEF DeleteAll
<1>2. /\ c = Writer /\ call[c].kind = "delete" /\ call[c] # Nil /\ k \in Keys
      /\ work[c] \in Locals
  BY <1>1, CallOf DEF FitsAt, Changes
<1>3. Deleting(k, work[c].found)
  <2>1. PICK w \in Locals : w = work[c]
    BY <1>2
  <2>2. Deleting(k, w.found)
    BY <1>1, <1>2, <2>1 DEF RInv, ReadsFit
  <2> QED
    BY <2>1, <2>2
<1>4. \/ IndexDropped(k) /\ UNCHANGED <<pc, call, work, reply, sure>>
      \/ ChunksGo(k) /\ UNCHANGED <<pc, call, work, reply, sure>>
      \/ UNCHANGED secrets /\ index[k] = Nil /\ Succeed(c, work[c].found)
  BY <1>3 DEF DeleteAll, Deleting, IndexDropped, ChunksGo, Shrunk, secrets
<1> QED
  BY <1>2, <1>3, <1>4

(* Every step changes the secrets in one of these ways.                    *)
LEMMA SecretsChange ==
    ASSUME IInv, RInv, Next
    PROVE  SecretsStep
<1>1. ASSUME UNCHANGED secrets PROVE SecretsStep
  BY <1>1 DEF secrets, SecretsStep, Shrunk
<1>2. CASE Collect
  BY <1>2 DEF Collect, SecretsStep, Shrunk
<1> SUFFICES ASSUME NEW c \in Clients, Begin(c) \/ Request(c) \/ Die(c)
             PROVE  SecretsStep
  BY <1>2 DEF Next
<1> DEFINE k == call[c].key
           r == call[c].release
<1>3. CASE Begin(c)
  BY <1>1, <1>3 DEF Begin
<1>4. CASE Die(c)
  BY <1>1, <1>4 DEF Die
<1>5. CASE CreateIndex(c)
  BY <1>1, <1>5, CreateIndexDoes DEF SecretsStep
<1>6. CASE CreateChunk(c)
  BY <1>1, <1>6, CreateChunkDoes DEF SecretsStep
<1>7. CASE DeleteOldChunks(c)
  BY <1>1, <1>7, DeleteOldChunksDoes DEF SecretsStep, ChunksGo
<1>8. CASE UpdateIndex(c)
  BY <1>8, UpdateIndexDoes DEF SecretsStep
<1>9. CASE DeleteAll(c)
  BY <1>1, <1>9, DeleteAllDoes DEF SecretsStep, ChunksGo
<1>10. CASE GetIndex(c) \/ ListIndices(c) \/ GetChunk(c) \/ Decoded(c)
  BY <1>1, <1>10 DEF GetIndex, ListIndices, GetChunk, Decoded
<1> QED
  BY <1>3, <1>4, <1>5, <1>6, <1>7, <1>8, <1>9, <1>10 DEF Request

-----------------------------------------------------------------------------
(* The reads                                                               *)

(* While a call goes on its client forgets nothing of what it might have   *)
(* seen, and is asked for no more than it had to see.                      *)
LEMMA Remembered ==
    ASSUME RecordsFit, Remember, NEW c \in Clients
    PROVE  /\ call'[c] # Nil => held[c] \subseteq held'[c] /\ Contents' \subseteq held'[c]
           /\ call'[c] # Nil /\ call[c] # Nil => kept'[c] \subseteq kept[c]
           /\ \A e \in past : e[1] \notin sure' => e \in past'
BY DEF Remember

LEMMA ReadingKept ==
    ASSUME SecretsFit, SecretsTyped, SecretsFit', SecretsTyped', RecordsFit, RecordsFit',
           Remember, SecretsStep,
           NEW c \in Clients, call[c] # Nil, call'[c] = call[c],
           c = Writer => UNCHANGED index,
           NEW w \in Locals, Reading(c, w)
    PROVE  Reading(c, w)'
<1>1. held[c] \subseteq held'[c] /\ kept'[c] \subseteq kept[c]
  BY Remembered
<1>2. PICK k \in Keys, r \in Releases : Underway(c, k, r, w)
  BY DEF Reading
<1>3. Underway(c, k, r, w)'
  <2>1. PICK m : m = Len(w.names)
    OBVIOUS
  <2>2. m \in 0..Len(Parts[r]) - 1
    <3>1. w.names \in Seq(ChunkNames)
      BY DEF Locals
    <3>2. m \in Nat /\ m < Len(Parts[r])
      BY <1>2, <2>1, <3>1 DEF Underway
    <3> QED
      BY <3>2, PartCount
  <2>3. Seen(c, k, r, m)
    BY <1>2, <2>1 DEF Underway
  <2>4. Seen(c, k, r, m)'
    BY <1>1, <2>2, <2>3, SeenKept
  <2> QED
    BY <1>2, <2>1, <2>4 DEF Underway, Asked
<1>4. ASSUME NEW t \in w.todo
      PROVE  \E l \in Keys, q \in Releases : Waiting(c, l, q, t)'
  <2>1. PICK l \in Keys, q \in Releases : Waiting(c, l, q, t)
    BY DEF Reading
  <2>2. PICK m : m = Len(Parts[q]) - 1
    OBVIOUS
  <2>3. m \in 0..Len(Parts[q]) - 1
    BY <2>2, PartCount
  <2>4. Seen(c, l, q, m)
    BY <2>1, <2>2 DEF Waiting
  <2>5. Seen(c, l, q, m)'
    BY <1>1, <2>3, <2>4, SeenKept
  <2>6. Waiting(c, l, q, t)'
    BY <2>1, <2>2, <2>5 DEF Waiting, Asked
  <2> QED
    BY <2>6
<1>5. w.found \subseteq held'[c]
  BY <1>1 DEF Reading
<1>6. \A e \in w.found : \E l \in Keys, q \in Releases :
         e = <<l, Encoding[q]>> /\ Asked(l, q, call'[c])
  BY DEF Reading
<1>7. call'[c].kind # "list" => w.todo = {} /\ w.found = {}
  BY DEF Reading
<1>8. ASSUME call'[c].kind = "list", NEW l \in Keys, NEW q \in Releases,
             <<l, Encoding[q]>> \in kept'[c], Asked(l, q, call'[c])
      PROVE  Found(<<l, Encoding[q]>>, w)
  BY <1>1, <1>8 DEF Reading
<1>9. c = Writer => index'[call'[c].key] = w.secret
  BY DEF Reading
<1> QED
  BY <1>3, <1>4, <1>5, <1>6, <1>7, <1>8, <1>9 DEF Reading

LEMMA DeletingKept ==
    ASSUME RecordsFit, Remember, call'[Writer] # Nil,
           NEW k \in Keys, k \notin sure', index'[k] = index[k] \/ index'[k] = Nil,
           NEW found, Deleting(k, found)
    PROVE  Deleting(k, found)'
<1>1. held[Writer] \subseteq held'[Writer]
  BY Remembered, WriterIsClient
<1>2. \E r \in Releases :
         found = {<<k, Encoding[r]>>} /\ <<k, Encoding[r]>> \in held'[Writer]
  BY <1>1 DEF Deleting
<1>3. ASSUME NEW r \in Releases, IsOf(k, r)' PROVE <<k, Encoding[r]>> \in past'
  <2>1. IsOf(k, r)
    BY <1>3 DEF IsOf
  <2>2. <<k, Encoding[r]>> \in past
    BY <2>1 DEF Deleting
  <2> QED
    BY <2>2 DEF Remember
<1> QED
  BY <1>2, <1>3 DEF Deleting

(* A step of one client, and what it leaves it with.                       *)
LEMMA ReadsKept ==
    ASSUME IInv, IInv', RInv, Remember, SecretsStep,
           call[Writer] = Nil \/ sure \subseteq sure', NEW c \in Clients,
           \A d \in Clients : d # c =>
              pc'[d] = pc[d] /\ call'[d] = call[d] /\ work'[d] = work[d],
           c # Writer => UNCHANGED index,
           \A w \in Locals : pc'[c] = "getChunks" /\ work'[c] = w => Reading(c, w)',
           \A k \in Keys, w \in Locals :
              /\ c = Writer /\ pc'[Writer] = "deleteAll"
              /\ work'[Writer] = w /\ call'[Writer].key = k
              => Deleting(k, w.found)'
    PROVE  RInv'
<1>1. RecordsFit'
  BY RecordsKept DEF RInv
<1>2. RecordsFit /\ SecretsFit /\ SecretsTyped /\ SecretsFit' /\ SecretsTyped'
  BY DEF RInv, IInv, Typing, SecretsTyped
<1>3. ASSUME NEW d \in Clients, NEW w \in Locals,
             pc'[d] = "getChunks", work'[d] = w, d # c
      PROVE  Reading(d, w)'
  <2>1. pc[d] = "getChunks" /\ work[d] = w /\ call'[d] = call[d] /\ call[d] # Nil
    BY <1>3 DEF IInv, CallsFit
  <2>2. Reading(d, w)
    BY <2>1 DEF RInv, ReadsFit
  <2>3. d = Writer => UNCHANGED index
    BY <1>3
  <2> QED
    BY <1>1, <1>2, <2>1, <2>2, <2>3, ReadingKept
<1>4. ASSUME NEW k \in Keys, NEW w \in Locals, c # Writer,
             pc'[Writer] = "deleteAll", work'[Writer] = w, call'[Writer].key = k
      PROVE  Deleting(k, w.found)'
  <2>1. pc[Writer] = "deleteAll" /\ work[Writer] = w /\ call[Writer].key = k
        /\ call'[Writer] = call[Writer] /\ call[Writer] # Nil
    BY <1>4, WriterIsClient DEF IInv, CallsFit
  <2>2. Deleting(k, w.found)
    BY <2>1 DEF RInv, ReadsFit
  <2>3. k \notin sure'
    BY <1>4, <2>1 DEF IInv, SureFits
  <2> QED
    BY <1>2, <1>4, <2>1, <2>2, <2>3, DeletingKept
<1>5. \A d \in Clients, w \in Locals : pc'[d] = "getChunks" /\ work'[d] = w => Reading(d, w)'
  BY <1>3
<1>6. \A k \in Keys, w \in Locals :
         pc'[Writer] = "deleteAll" /\ work'[Writer] = w /\ call'[Writer].key = k
            => Deleting(k, w.found)'
  BY <1>4
<1> QED
  BY <1>1, <1>5, <1>6 DEF RInv, ReadsFit

(* An index secret as it is stored.                                        *)
LEMMA StoredWaits ==
    SecretsFit /\ SecretsTyped =>
        \A c \in Clients, k \in Keys, r \in Releases, s \in Secrets :
            IsOf(k, r) /\ s = index[k] /\ Contents \subseteq held[c] /\ Asked(k, r, call[c])
                => Waiting(c, k, r, s)
<1> SUFFICES ASSUME SecretsFit, SecretsTyped,
                    NEW c \in Clients, NEW k \in Keys, NEW r \in Releases, NEW s \in Secrets,
                    IsOf(k, r), s = index[k], Contents \subseteq held[c],
                    Asked(k, r, call[c])
             PROVE  Waiting(c, k, r, s)
  OBVIOUS
<1> DEFINE n == Len(Parts[r])
<1>1. n \in Nat \ {0} /\ n - (n - 1) + 1 = 2
  BY PartCount
<1>2. s = IndexSecret(k, r, s.uid)
  BY DEF IsOf
<1>3. CASE \A i \in 2..n : There(k, r, i)
  <2>1. Holds(k, r)
    BY <1>3, HoldsMeans
  <2>2. <<k, Encoding[r]>> \in held[c]
    BY <2>1, ContentsMember
  <2> QED
    BY <1>2, <2>2 DEF Waiting, Seen
<1>4. CASE ~\A i \in 2..n : There(k, r, i)
  <2>1. \E i \in n - (n - 1) + 1 .. n : ~There(k, r, i)
    BY <1>1, <1>4
  <2> QED
    BY <1>2, <2>1 DEF Waiting, Seen
<1> QED
  BY <1>3, <1>4

LEMMA StoredWaitsThen ==
    (SecretsFit /\ SecretsTyped =>
        \A c \in Clients, k \in Keys, r \in Releases, s \in Secrets :
            IsOf(k, r) /\ s = index[k] /\ Contents \subseteq held[c] /\ Asked(k, r, call[c])
                => Waiting(c, k, r, s))'
BY StoredWaits, PTL

(* The index secret is decoded, and the chunks are still to be read.       *)
LEMMA DecodeBegins ==
    \A c \in Clients, k \in Keys, r \in Releases, w \in Locals :
        Waiting(c, k, r, w.secret) /\ w.secret # Nil
            /\ w.names = w.secret.extraChunks /\ w.read = w.secret.chunk
            => Underway(c, k, r, w)
<1> SUFFICES ASSUME NEW c \in Clients, NEW k \in Keys, NEW r \in Releases, NEW w \in Locals,
                    Waiting(c, k, r, w.secret), w.secret # Nil,
                    w.names = w.secret.extraChunks, w.read = w.secret.chunk
             PROVE  Underway(c, k, r, w)
  OBVIOUS
<1> DEFINE n == Len(Parts[r])
<1>1. n \in Nat \ {0} /\ n - (n - 1) = 1
  BY PartCount
<1>2. w.secret.uid \in Nat
  BY DEF Locals, Secrets
<1>3. w.secret = IndexSecret(k, r, w.secret.uid)
  BY DEF Waiting
<1>4. w.secret.chunk = Parts[r][1] /\ w.secret.extraChunks = Names(ExtraChunks(k, r))
  BY <1>2, <1>3, IndexSecretIs
<1>5. /\ Len(w.names) = n - 1
      /\ \A i \in 1..n - 1 : w.names[i] = <<k, Parts[r][i + 1]>>
  BY <1>4, NamesAre
<1>6. \A i \in 1..Len(w.names) : w.names[i] = <<k, Parts[r][n - Len(w.names) + i]>>
  <2>1. SUFFICES ASSUME NEW i \in 1..n - 1
                 PROVE  n - Len(w.names) + i = i + 1
    BY <1>5
  <2> QED
    BY <1>1, <1>5
<1>7. w.read = SubSeq(Encoding[r], 1, End(r, n - Len(w.names)))
  <2>1. n - Len(w.names) = 1
    BY <1>1, <1>5
  <2> QED
    BY <1>4, <2>1, FirstPart
<1>8. Seen(c, k, r, Len(w.names)) /\ Asked(k, r, call[c])
  BY <1>5 DEF Waiting
<1>9. Len(w.names) < n
  BY <1>1, <1>5
<1> QED
  BY <1>3, <1>6, <1>7, <1>8, <1>9 DEF Underway

LEMMA DecodeBeginsThen ==
    (\A c \in Clients, k \in Keys, r \in Releases, w \in Locals :
        Waiting(c, k, r, w.secret) /\ w.secret # Nil
            /\ w.names = w.secret.extraChunks /\ w.read = w.secret.chunk
            => Underway(c, k, r, w))'
BY DecodeBegins, PTL

-----------------------------------------------------------------------------
(* The steps of a client                                                   *)

LEMMA StepRemembers ==
    ASSUME NEW c, Begin(c) \/ Request(c) \/ Die(c)
    PROVE  Remember
BY DEF Begin, Die, Request, CreateIndex, CreateChunk, DeleteOldChunks, UpdateIndex,
       GetIndex, ListIndices, GetChunk, Decoded, DeleteAll

LEMMA IndexIsWriters ==
    ASSUME IInv, NEW c \in Clients, Begin(c) \/ Request(c) \/ Die(c), c # Writer
    PROVE  UNCHANGED index
<1>1. CASE Begin(c) \/ Die(c) \/ GetIndex(c) \/ ListIndices(c) \/ GetChunk(c) \/ Decoded(c)
  BY <1>1 DEF Begin, Die, GetIndex, ListIndices, GetChunk, Decoded, secrets
<1>2. ~CreateIndex(c) /\ ~CreateChunk(c) /\ ~DeleteOldChunks(c) /\ ~UpdateIndex(c)
      /\ ~DeleteAll(c)
  <2>1. pc[c] # "idle" => /\ FitsAt(pc[c], call[c].kind)
                          /\ ~Changes(call[c].kind)
    BY CallOf
  <2> QED
    BY <2>1 DEF CreateIndex, CreateChunk, DeleteOldChunks, UpdateIndex, DeleteAll,
                FitsAt, Changes
<1> QED
  BY <1>1, <1>2 DEF Request

LEMMA SureGrows ==
    ASSUME IInv, NEW c \in Clients, Begin(c) \/ Request(c) \/ Die(c)
    PROVE  call[Writer] = Nil \/ sure \subseteq sure'
<1>1. ASSUME NEW answer, Succeed(c, answer) PROVE sure \subseteq sure'
  BY <1>1 DEF Succeed
<1>2. ASSUME NEW step, NEW w, GoTo(c, step, w) PROVE sure \subseteq sure'
  BY <1>2 DEF GoTo
<1>3. Fail(c) => sure \subseteq sure'
  BY DEF Fail
<1>4. ASSUME NEW why, Refuse(c, why) PROVE sure \subseteq sure'
  BY <1>4 DEF Refuse
<1>5. ASSUME NEW secret, NEW extra, StoreIndex(c, secret, extra) PROVE sure \subseteq sure'
  BY <1>1, <1>2, <1>3, <1>5 DEF StoreIndex
<1>6. ASSUME NEW secret, NEW todo, NEW found, Decode(c, secret, todo, found)
      PROVE  sure \subseteq sure'
  BY <1>2, <1>3, <1>6 DEF Decode
<1>7. CASE Begin(c)
  <2>1. CASE c = Writer
    BY <1>7, <2>1 DEF Begin, IInv, CallsFit
  <2>2. CASE c # Writer
    BY <1>7, <2>2 DEF Begin
  <2> QED
    BY <2>1, <2>2
<1>8. CASE Die(c)
  BY <1>3, <1>8 DEF Die
<1>9. CASE CreateIndex(c)
  BY <1>3, <1>4, <1>5, <1>9 DEF CreateIndex
<1>10. CASE CreateChunk(c)
  BY <1>1, <1>2, <1>3, <1>10 DEF CreateChunk
<1>11. CASE DeleteOldChunks(c)
  BY <1>2, <1>3, <1>11 DEF DeleteOldChunks
<1>12. CASE UpdateIndex(c)
  BY <1>5, <1>12 DEF UpdateIndex
<1>13. CASE GetIndex(c)
  BY <1>2, <1>4, <1>6, <1>13 DEF GetIndex
<1>14. CASE ListIndices(c)
  BY <1>1, <1>4, <1>6, <1>14 DEF ListIndices
<1>15. CASE GetChunk(c)
  BY <1>2, <1>3, <1>15 DEF GetChunk
<1>16. CASE Decoded(c)
  BY <1>1, <1>2, <1>6, <1>16 DEF Decoded
<1>17. CASE DeleteAll(c)
  BY <1>1, <1>17 DEF DeleteAll
<1> QED
  BY <1>7, <1>8, <1>9, <1>10, <1>11, <1>12, <1>13, <1>14, <1>15, <1>16, <1>17 DEF Request

(* What a step of a client has to show.                                    *)
LEMMA StepKeepsReads ==
    ASSUME IInv, IInv', RInv, NEW c \in Clients, Begin(c) \/ Request(c) \/ Die(c),
           \A w \in Locals : pc'[c] = "getChunks" /\ work'[c] = w => Reading(c, w)',
           \A k \in Keys, w \in Locals :
              /\ c = Writer /\ pc'[Writer] = "deleteAll"
              /\ work'[Writer] = w /\ call'[Writer].key = k
              => Deleting(k, w.found)'
    PROVE  RInv'
<1>1. Next
  BY DEF Next
<1>2. SecretsStep
  BY <1>1, SecretsChange
<1>3. Remember
  BY StepRemembers
<1>4. call[Writer] = Nil \/ sure \subseteq sure'
  BY SureGrows
<1>5. \A d \in Clients : d # c =>
         pc'[d] = pc[d] /\ call'[d] = call[d] /\ work'[d] = work[d]
  BY OwnStep
<1>6. c # Writer => UNCHANGED index
  BY IndexIsWriters
<1> QED
  BY <1>2, <1>3, <1>4, <1>5, <1>6, ReadsKept

(* A step that leaves its client with nothing to read.                     *)
LEMMA StepsNotReading ==
    ASSUME IInv, IInv', RInv, NEW c \in Clients, Begin(c) \/ Request(c) \/ Die(c),
           pc'[c] \notin {"getChunks", "deleteAll"}
    PROVE  RInv'
BY StepKeepsReads

LEMMA AfterGoTo ==
    ASSUME IInv, NEW c \in Clients, NEW step, NEW w, GoTo(c, step, w)
    PROVE  pc'[c] = step /\ work'[c] = w /\ UNCHANGED <<call, sure>>
BY DEF GoTo, IInv, Typing

LEMMA AfterReturn ==
    ASSUME IInv, NEW c \in Clients, NEW answer, Return(c, answer)
    PROVE  pc'[c] = "idle"
BY DEF Return, IInv, Typing

LEMMA WritesDo ==
    ASSUME IInv, NEW c \in Clients, NEW last, Writes(c, last)
    PROVE  pc'[c] \in {"idle", "createChunks"}
BY AfterGoTo, AfterReturn DEF Writes, Fail, Succeed

LEMMA WritersKeepReads ==
    ASSUME IInv, IInv', RInv, NEW c \in Clients,
           CreateIndex(c) \/ CreateChunk(c) \/ DeleteOldChunks(c) \/ UpdateIndex(c)
    PROVE  RInv'
<1> SUFFICES pc'[c] \notin {"getChunks", "deleteAll"}
  BY StepsNotReading DEF Request
<1>1. PICK k, r : k = call[c].key /\ r = call[c].release
  OBVIOUS
<1>2. CASE CreateIndex(c)
  BY <1>1, <1>2, CreateIndexDoes, WritesDo, AfterReturn DEF Fail, Refuse
<1>3. CASE CreateChunk(c)
  BY <1>1, <1>3, CreateChunkDoes, WritesDo, AfterReturn DEF Fail
<1>4. CASE DeleteOldChunks(c)
  <2>1. pc[c] = "deleteChunks"
    BY <1>4 DEF DeleteOldChunks
  <2> QED
    BY <1>1, <1>4, <2>1, DeleteOldChunksDoes, AfterGoTo, AfterReturn DEF Fail
<1>5. CASE UpdateIndex(c)
  BY <1>1, <1>5, UpdateIndexDoes, WritesDo
<1> QED
  BY <1>2, <1>3, <1>4, <1>5

LEMMA CallsKeepReads ==
    ASSUME IInv, IInv', RInv, NEW c \in Clients, Begin(c) \/ Die(c)
    PROVE  RInv'
<1> SUFFICES pc'[c] \notin {"getChunks", "deleteAll"}
  BY StepsNotReading
<1>1. CASE Begin(c)
  BY <1>1 DEF Begin, IInv, Typing
<1>2. CASE Die(c)
  BY <1>2, AfterReturn DEF Die, Fail
<1> QED
  BY <1>1, <1>2

LEMMA DeleteAllKeepsReads ==
    ASSUME IInv, IInv', RInv, NEW c \in Clients, DeleteAll(c)
    PROVE  RInv'
<1>1. PICK k : k = call[c].key
  OBVIOUS
<1>2. /\ c = Writer /\ call[c] # Nil /\ k \in Keys
      /\ \/ IndexDropped(k) /\ UNCHANGED <<pc, call, work, reply, sure>>
         \/ ChunksGo(k) /\ UNCHANGED <<pc, call, work, reply, sure>>
         \/ /\ UNCHANGED secrets /\ index[k] = Nil
            /\ Succeed(c, work[c].found)
  BY <1>1, DeleteAllDoes
<1>3. CASE Succeed(c, work[c].found)
  BY <1>3, AfterReturn, StepsNotReading DEF Succeed, Request
<1>4. CASE /\ IndexDropped(k) \/ ChunksGo(k)
           /\ UNCHANGED <<pc, call, work, reply, sure>>
  <2>1. pc[c] = "deleteAll" /\ Remember
    BY DEF DeleteAll
  <2>2. index'[k] = index[k] \/ index'[k] = Nil
    BY <1>2, <1>4 DEF IndexDropped, ChunksGo, Shrunk, IInv, Typing
  <2>3. k \notin sure'
    BY <1>1, <1>2, <1>4 DEF IInv, SureFits
  <2>4. ASSUME NEW l \in Keys, NEW w \in Locals, work'[Writer] = w, call'[Writer].key = l
        PROVE  Deleting(l, w.found)'
    <3>1. l = k /\ work[Writer] = w /\ call[Writer].key = l /\ call'[Writer] # Nil
      BY <1>1, <1>2, <1>4, <2>4
    <3>2. Deleting(l, w.found)
      BY <1>2, <2>1, <3>1 DEF RInv, ReadsFit
    <3> QED
      BY <2>1, <2>2, <2>3, <3>1, <3>2, DeletingKept DEF RInv
  <2>5. pc'[c] # "getChunks"
    BY <1>4, <2>1
  <2> QED
    BY <1>2, <2>4, <2>5, StepKeepsReads DEF Request
<1> QED
  BY <1>2, <1>3, <1>4

LEMMA CollectKeepsReads ==
    ASSUME IInv, IInv', RInv, Collect
    PROVE  RInv'
<1>1. Remember /\ UNCHANGED <<index, pc, call, work, sure>>
  BY DEF Collect
<1>2. SecretsStep
  BY DEF Collect, SecretsStep, Shrunk
<1>3. RecordsFit'
  BY <1>1, RecordsKept DEF RInv
<1>4. RecordsFit /\ SecretsFit /\ SecretsTyped /\ SecretsFit' /\ SecretsTyped'
  BY DEF RInv, IInv, Typing, SecretsTyped
<1>5. ASSUME NEW w \in Locals, pc'[Writer] = "getChunks", work'[Writer] = w
      PROVE  Reading(Writer, w)'
  <2>1. Reading(Writer, w) /\ call[Writer] # Nil
    BY <1>1, <1>5, WriterIsClient DEF RInv, ReadsFit, IInv, CallsFit
  <2> QED
    BY <1>1, <1>2, <1>3, <1>4, <2>1, ReadingKept, WriterIsClient
<1>6. ASSUME NEW k \in Keys, NEW w \in Locals,
             pc'[Writer] = "deleteAll", work'[Writer] = w, call'[Writer].key = k
      PROVE  Deleting(k, w.found)'
  <2>1. Deleting(k, w.found) /\ call'[Writer] # Nil /\ k \notin sure'
    BY <1>1, <1>6, WriterIsClient DEF RInv, ReadsFit, IInv, CallsFit, SureFits
  <2> QED
    BY <1>1, <1>4, <2>1, DeletingKept
<1> QED
  BY <1>1, <1>2, <1>5, <1>6, ReadsKept, WriterIsClient

-----------------------------------------------------------------------------
(* The steps that read                                                     *)

(* What a client has when it has read the last chunk.                      *)
LEMMA ReadWhole ==
    ASSUME NEW c \in Clients, NEW k \in Keys, NEW r \in Releases, NEW w \in Locals,
           Underway(c, k, r, w), w.names = <<>>, w.secret # Nil
    PROVE  /\ w.read = Encoding[r]
           /\ w.secret.key = k
           /\ <<k, Encoding[r]>> \in held[c]
           /\ Asked(k, r, call[c])
<1>1. Len(w.names) = 0 /\ Len(Parts[r]) \in Nat
  BY PartCount
<1>2. Len(Parts[r]) - Len(w.names) = Len(Parts[r]) /\ Len(w.names) = 0
  BY <1>1
<1>3. w.read = Encoding[r]
  BY <1>2, LastPart DEF Underway
<1>4. w.secret.key = k
  <2>1. w.secret.uid \in Nat
    BY DEF Locals, Secrets
  <2> QED
    BY <2>1, IndexSecretIs DEF Underway
<1>5. Seen(c, k, r, 0)
  BY <1>2 DEF Underway
<1>6. <<k, Encoding[r]>> \in held[c]
  BY <1>1, <1>5 DEF Seen
<1> QED
  BY <1>3, <1>4, <1>6 DEF Underway

(* An index secret that is stored is that of a release.                    *)
LEMMA IndexIsOf ==
    ASSUME SecretsFit, NEW k \in Keys, index[k] # Nil
    PROVE  /\ index[k] \in Secrets /\ index[k].key = k
           /\ \E r \in Releases : IsOf(k, r) /\ index[k].label = Label[r]
<1>1. PICK r \in Releases : index[k] = IndexSecret(k, r, index[k].uid) /\ index[k].uid \in Nat
  BY DEF SecretsFit
<1> QED
  BY <1>1, IndexSecretIs DEF IsOf

(* A client that begins to decode has the locals that Decode gives it.     *)
LEMMA DecodeDoes ==
    ASSUME IInv, NEW c \in Clients, NEW secret \in Secrets, NEW todo \in SUBSET Secrets,
           NEW found \in SUBSET ChunkNames, Decode(c, secret, todo, found),
           pc'[c] = "getChunks", NEW w \in Locals, work'[c] = w
    PROVE  /\ w.secret = secret /\ w.names = secret.extraChunks /\ w.read = secret.chunk
           /\ w.todo = todo /\ w.found = found
           /\ UNCHANGED <<call, sure>>
<1>1. ~Fail(c)
  BY AfterReturn DEF Fail
<1>2. PICK v : /\ v = [NoWork EXCEPT !.secret = secret, !.names = secret.extraChunks,
                                     !.read = secret.chunk, !.todo = todo, !.found = found]
               /\ GoTo(c, "getChunks", v)
  BY <1>1 DEF Decode
<1>3. w = v /\ UNCHANGED <<call, sure>>
  BY <1>2, AfterGoTo
<1> QED
  BY <1>2, <1>3 DEF NoWork

LEMMA DecodeGoesOn ==
    ASSUME IInv, NEW c \in Clients, NEW secret, NEW todo, NEW found,
           Decode(c, secret, todo, found)
    PROVE  pc'[c] \in {"idle", "getChunks"}
BY AfterGoTo, AfterReturn DEF Decode, Fail

LEMMA GetIndexKeepsReads ==
    ASSUME IInv, IInv', RInv, NEW c \in Clients, GetIndex(c)
    PROVE  RInv'
<1>1. pc[c] = "getIndex" /\ UNCHANGED secrets /\ Remember
  BY DEF GetIndex
<1>2. PICK k \in Keys : k = call[c].key
  BY <1>1, CallOf DEF FitsAt
<1>3. /\ call[c] # Nil /\ call[c].kind \in {"get", "update", "delete"}
  BY <1>1, CallOf DEF FitsAt
<1>4. CASE index[k] = Nil
  BY <1>2, <1>4, AfterReturn, StepsNotReading DEF GetIndex, Refuse, Request
<1>5. CASE index[k] # Nil /\ call[c].kind = "update"
  <2>1. GoTo(c, "deleteChunks", NoWork)
    BY <1>2, <1>5 DEF GetIndex
  <2> QED
    BY <2>1, AfterGoTo, StepsNotReading DEF Request
<1>6. CASE index[k] # Nil /\ call[c].kind # "update"
  <2>1. PICK secret \in Secrets, r \in Releases : secret = index[k] /\ IsOf(k, r)
    BY <1>6, IndexIsOf DEF IInv
  <2>2. Decode(c, secret, {}, {})
    BY <1>2, <1>6, <2>1 DEF GetIndex
  <2>3. pc'[c] \in {"idle", "getChunks"}
    BY <2>2, DecodeGoesOn
  <2>4. ASSUME NEW w \in Locals, pc'[c] = "getChunks", work'[c] = w
        PROVE  Reading(c, w)'
    <3>1. /\ w.secret = secret /\ w.names = secret.extraChunks /\ w.read = secret.chunk
          /\ w.todo = {} /\ w.found = {} /\ UNCHANGED <<call, sure>>
      BY <2>2, <2>4, DecodeDoes
    <3>2. secret # Nil /\ index'[k] = secret /\ IsOf(k, r)'
      BY <1>1, <1>6, <2>1 DEF secrets, IsOf
    <3>3. Contents' \subseteq held'[c]
      BY <1>1, <1>3, <3>1, Remembered DEF RInv
    <3>4. Asked(k, r, call'[c])
      BY <1>2, <1>3, <3>1 DEF Asked
    <3>5. SecretsFit' /\ SecretsTyped'
      BY DEF IInv, Typing, SecretsTyped
    <3>6. Waiting(c, k, r, secret)'
      BY <3>2, <3>3, <3>4, <3>5, StoredWaitsThen
    <3>7. Underway(c, k, r, w)'
      BY <3>1, <3>2, <3>6, DecodeBeginsThen
    <3>8. call'[c].kind # "list" /\ index'[call'[c].key] = w.secret
      BY <1>2, <1>3, <3>1, <3>2
    <3> QED
      BY <3>1, <3>7, <3>8 DEF Reading
  <2> QED
    BY <2>3, <2>4, StepKeepsReads DEF Request
<1> QED
  BY <1>4, <1>5, <1>6

LEMMA ListedAre ==
    ASSUME SecretsFit, NEW c \in Clients, call[c].kind = "list"
    PROVE  /\ Listed(call[c].label) \subseteq Secrets
           /\ \A s \in Listed(call[c].label) : \E k \in Keys, r \in Releases :
                 s = index[k] /\ IsOf(k, r) /\ Asked(k, r, call[c])
           /\ \A k \in Keys, r \in Releases :
                 IsOf(k, r) /\ Asked(k, r, call[c]) => index[k] \in Listed(call[c].label)
<1>1. ASSUME NEW s \in Listed(call[c].label)
      PROVE  /\ s \in Secrets
             /\ \E k \in Keys, r \in Releases :
                   s = index[k] /\ IsOf(k, r) /\ Asked(k, r, call[c])
  <2>1. PICK k \in Keys : s = index[k] /\ index[k] # Nil
                          /\ call[c].label \in {Nil, index[k].label}
    BY DEF Listed
  <2>2. PICK r \in Releases : IsOf(k, r) /\ index[k].label = Label[r]
    BY <2>1, IndexIsOf
  <2>3. s \in Secrets /\ Asked(k, r, call[c])
    BY <2>1, <2>2, IndexIsOf DEF Asked
  <2> QED
    BY <2>1, <2>2, <2>3
<1>2. ASSUME NEW k \in Keys, NEW r \in Releases, IsOf(k, r), Asked(k, r, call[c])
      PROVE  index[k] \in Listed(call[c].label)
  <2>1. PICK q \in Releases : IsOf(k, q) /\ index[k].label = Label[q]
    BY <1>2, IndexIsOf DEF IsOf
  <2>2. q = r
    BY <1>2, <2>1, OneRelease
  <2> QED
    BY <1>2, <2>1, <2>2 DEF Listed, Asked, IsOf
<1> QED
  BY <1>1, <1>2

LEMMA ListIndicesKeepsReads ==
    ASSUME IInv, IInv', RInv, NEW c \in Clients, ListIndices(c)
    PROVE  RInv'
<1>1. pc[c] = "listIndices" /\ UNCHANGED secrets /\ Remember
  BY DEF ListIndices
<1>2. call[c] # Nil /\ call[c].kind = "list" /\ c # Writer
  BY <1>1, CallOf DEF FitsAt, Changes
<1>3. SecretsFit /\ SecretsTyped /\ SecretsFit' /\ SecretsTyped'
  BY DEF IInv, Typing, SecretsTyped
<1> DEFINE listed == Listed(call[c].label)
<1>4. listed \subseteq Secrets
  BY <1>2, <1>3, ListedAre
<1>5. CASE listed = {}
  BY <1>5, AfterReturn, StepsNotReading
     DEF ListIndices, Listed, Succeed, Refuse, Request
<1>6. ASSUME NEW first \in listed, Decode(c, first, listed \ {first}, {})
      PROVE  RInv'
  <2>1. pc'[c] \in {"idle", "getChunks"}
    BY <1>6, DecodeGoesOn
  <2>2. ASSUME NEW w \in Locals, pc'[c] = "getChunks", work'[c] = w
        PROVE  Reading(c, w)'
    <3>1. /\ w.secret = first /\ w.names = first.extraChunks /\ w.read = first.chunk
          /\ w.todo = listed \ {first} /\ w.found = {} /\ UNCHANGED <<call, sure>>
      BY <1>4, <1>6, <2>2, DecodeDoes
    <3>2. Contents' \subseteq held'[c]
      BY <1>1, <1>2, <3>1, Remembered DEF RInv
    <3>3. ASSUME NEW s \in listed
          PROVE  s # Nil /\ \E k \in Keys, r \in Releases : Waiting(c, k, r, s)'
      <4>1. PICK k \in Keys, r \in Releases :
               s = index[k] /\ IsOf(k, r) /\ Asked(k, r, call[c])
        BY <1>2, <1>3, ListedAre
      <4>2. s = index'[k] /\ IsOf(k, r)' /\ Asked(k, r, call'[c]) /\ s # Nil
        BY <1>1, <3>1, <4>1 DEF IsOf, secrets
      <4>3. Waiting(c, k, r, s)'
        BY <1>3, <1>4, <3>2, <4>2, StoredWaitsThen
      <4> QED
        BY <4>2, <4>3
    <3>4. PICK k \in Keys, r \in Releases : Waiting(c, k, r, w.secret)'
      BY <1>6, <3>1, <3>3
    <3>5. Underway(c, k, r, w)'
      BY <1>6, <3>1, <3>3, <3>4, DecodeBeginsThen
    <3>6. \A t \in w.todo : \E l \in Keys, q \in Releases : Waiting(c, l, q, t)'
      BY <3>1, <3>3
    <3>7. ASSUME NEW l \in Keys, NEW q \in Releases,
                 <<l, Encoding[q]>> \in kept'[c], Asked(l, q, call'[c])
          PROVE  Found(<<l, Encoding[q]>>, w)
      <4>1. <<l, Encoding[q]>> \in Contents'
        <5>1. RecordsFit'
          BY <1>1, <3>1, RecordsKept DEF RInv
        <5> QED
          BY <1>2, <3>1, <3>7, <5>1 DEF RecordsFit
      <4>2. Holds(l, q)'
        BY <4>1, ContentsMemberThen, DriverAssumption
      <4>3. IsOf(l, q)'
        BY <1>3, <4>2, HoldsThen
      <4>4. IsOf(l, q) /\ index[l] = IndexSecret(l, q, index[l].uid)
        BY <1>1, <4>3 DEF IsOf, secrets
      <4>5. index[l] \in listed
        BY <1>2, <1>3, <3>1, <3>7, <4>4, ListedAre
      <4> QED
        BY <3>1, <4>4, <4>5 DEF Found
    <3>8. call'[c].kind = "list"
      BY <1>2, <3>1
    <3> QED
      BY <1>2, <3>1, <3>5, <3>6, <3>7, <3>8 DEF Reading
  <2> QED
    BY <1>2, <2>1, <2>2, StepKeepsReads DEF Request
<1> QED
  BY <1>5, <1>6 DEF ListIndices, Listed

LEMMA ChunkRead ==
    ASSUME IInv, NEW c \in Clients, NEW k \in Keys, NEW r \in Releases,
           NEW w \in Locals, Underway(c, k, r, w), w.names # <<>>, Stored(Head(w.names)),
           NEW v \in Locals, v.secret = w.secret, v.names = Tail(w.names),
           v.read = w.read \o DataOf(Head(w.names))
    PROVE  Underway(c, k, r, v)
<1> DEFINE n == Len(Parts[r])
<1>1. PICK m : m = Len(w.names)
  OBVIOUS
<1>2. w.names \in Seq(ChunkNames)
  BY DEF Locals
<1>3. n \in Nat \ {0} /\ m \in Nat /\ m # 0 /\ m < n
  BY <1>1, <1>2, EmptyHasNone, PartCount DEF Underway
<1>4. PICK p : p = n - m
  OBVIOUS
<1>5. p \in 1..n - 1 /\ p + 1 \in 2..n /\ n - (m - 1) = p + 1
  BY <1>3, <1>4
<1>6. /\ Tail(w.names) \in Seq(ChunkNames)
      /\ Len(v.names) = m - 1
      /\ \A j \in 1..m - 1 : v.names[j] = w.names[j + 1]
  BY <1>1, <1>2, <1>3, HeadTailProperties
<1>7. Head(w.names) = <<k, Parts[r][p + 1]>>
  <2>1. Head(w.names) = w.names[1]
    BY <1>2, HeadIsFirst
  <2>2. 1 \in 1..m /\ n - m + 1 = p + 1
    BY <1>3, <1>4
  <2>3. w.names[1] = <<k, Parts[r][n - m + 1]>>
    BY <1>1, <2>2 DEF Underway
  <2> QED
    BY <2>1, <2>2, <2>3
<1>8. There(k, r, p + 1) /\ DataOf(Head(w.names)) = Parts[r][p + 1]
  BY <1>7, StoredIs DEF There, IInv
<1>9. \A j \in 1..m - 1 : v.names[j] = <<k, Parts[r][n - (m - 1) + j]>>
  <2>1. SUFFICES ASSUME NEW j \in 1..m - 1
                 PROVE  v.names[j] = <<k, Parts[r][n - (m - 1) + j]>>
    OBVIOUS
  <2>2. j + 1 \in 1..m /\ n - (m - 1) + j = n - m + (j + 1)
    <3> HIDE DEF n
    <3> QED
      BY <1>3
  <2>3. w.names[j + 1] = <<k, Parts[r][n - m + (j + 1)]>>
    BY <1>1, <2>2 DEF Underway
  <2> QED
    BY <1>6, <2>2, <2>3
<1>10. v.read = SubSeq(Encoding[r], 1, End(r, p + 1))
  <2>1. w.read = SubSeq(Encoding[r], 1, End(r, p))
    BY <1>1, <1>4 DEF Underway
  <2> QED
    BY <1>5, <1>8, <2>1, NextPart
<1>11. Seen(c, k, r, m - 1)
  <2>1. Seen(c, k, r, m)
    BY <1>1 DEF Underway
  <2>2. ASSUME NEW i \in n - m + 1 .. n, ~There(k, r, i)
        PROVE  i \in n - (m - 1) + 1 .. n
    <3>1. i # p + 1
      BY <1>8, <2>2
    <3> HIDE DEF n
    <3>2. i \in Int /\ i >= n - m + 1 /\ i <= n /\ i # n - m + 1
      BY <1>3, <1>4, <3>1
    <3> QED
      BY <1>3, <3>2
  <2> QED
    BY <2>1, <2>2 DEF Seen
<1>12. m - 1 < n
  BY <1>3
<1> QED
  BY <1>5, <1>6, <1>9, <1>10, <1>11, <1>12 DEF Underway

(* The client that makes a step is reading.                                *)
LEMMA InReading ==
    ASSUME IInv, RInv, NEW c \in Clients, pc[c] = "getChunks"
    PROVE  \E w \in Locals : /\ work[c] = w /\ w.secret # Nil /\ Reading(c, w)
                             /\ call[c] # Nil
                             /\ call[c].kind \in {"get", "delete", "list"}
                             /\ call[c].kind = "delete" <=> c = Writer
                             /\ call[c].kind # "list" => call[c].key \in Keys
<1>1. PICK w \in Locals : work[c] = w
  BY CallOf
<1>2. Reading(c, w)
  BY <1>1 DEF RInv, ReadsFit
<1>3. w.secret # Nil
  BY <1>1 DEF IInv, CallsFit
<1> QED
  BY <1>1, <1>2, <1>3, CallOf DEF FitsAt, Changes

LEMMA GetChunkKeepsReads ==
    ASSUME IInv, IInv', RInv, NEW c \in Clients, GetChunk(c)
    PROVE  RInv'
<1>1. pc[c] = "getChunks" /\ UNCHANGED secrets /\ Remember
  BY DEF GetChunk
<1>2. PICK w \in Locals : work[c] = w /\ Reading(c, w) /\ call[c] # Nil
  BY <1>1, InReading
<1>3. w.names # <<>>
  BY <1>2 DEF GetChunk
<1>4. CASE Fail(c)
  BY <1>4, AfterReturn, StepsNotReading DEF Fail, Request
<1>5. CASE ~Fail(c)
  <2>1. PICK v : v = [w EXCEPT !.names = Tail(w.names),
                               !.read = w.read \o DataOf(Head(w.names))]
    OBVIOUS
  <2>2. Stored(Head(w.names)) /\ GoTo(c, "getChunks", v)
    BY <1>2, <1>5, <2>1 DEF GetChunk
  <2>3. pc'[c] = "getChunks" /\ work'[c] = v /\ UNCHANGED <<call, sure>>
    BY <2>2, AfterGoTo
  <2>4. v \in Locals
    BY <2>3 DEF IInv, Typing
  <2>5. /\ v.secret = w.secret /\ v.names = Tail(w.names)
        /\ v.read = w.read \o DataOf(Head(w.names))
        /\ v.todo = w.todo /\ v.found = w.found
    BY <2>1 DEF Locals
  <2>6. PICK k \in Keys, r \in Releases : Underway(c, k, r, w)
    BY <1>2 DEF Reading
  <2>7. Underway(c, k, r, v)
    BY <1>3, <2>2, <2>4, <2>5, <2>6, ChunkRead
  <2>8. Reading(c, v)
    BY <1>2, <2>5, <2>7 DEF Reading, Found
  <2>9. RecordsFit'
    BY <1>1, <2>3, RecordsKept DEF RInv
  <2>10. /\ RecordsFit /\ SecretsFit /\ SecretsTyped /\ SecretsFit' /\ SecretsTyped'
         /\ SecretsStep
    BY <1>1 DEF RInv, IInv, Typing, SecretsTyped, SecretsStep, Shrunk, secrets
  <2>11. Reading(c, v)'
    BY <1>1, <1>2, <2>3, <2>4, <2>8, <2>9, <2>10, ReadingKept DEF secrets
  <2>12. \A x \in Locals : work'[c] = x => Reading(c, x)'
    BY <2>3, <2>11
  <2> QED
    BY <2>3, <2>12, StepKeepsReads DEF Request
<1> QED
  BY <1>4, <1>5

(* What a call has found when the present release, r for k, is complete:   *)
(* what was there as a whole, and is asked for.                            *)
FoundWhole(c, w, found, k, r) ==
    /\ w.secret = IndexSecret(k, r, w.secret.uid) /\ w.secret.uid \in Nat
    /\ found = w.found \cup {<<k, Encoding[r]>>}
    /\ Asked(k, r, call[c])
    /\ found \subseteq held[c]
    /\ \A e \in found : \E l \in Keys, q \in Releases :
          e = <<l, Encoding[q]>> /\ Asked(l, q, call[c])
    /\ call[c].kind # "list" => found = {<<k, Encoding[r]>>}
    /\ call[c].kind = "list" =>
          \A l \in Keys, q \in Releases :
             <<l, Encoding[q]>> \in kept[c] /\ Asked(l, q, call[c])
                => \/ <<l, Encoding[q]>> \in found
                   \/ \E s \in w.todo : s = IndexSecret(l, q, s.uid)

LEMMA FoundNow ==
    ASSUME IInv, RInv, NEW c \in Clients, NEW w \in Locals, w.secret # Nil,
           Reading(c, w), w.names = <<>>,
           NEW found, found = w.found \cup {<<w.secret.key, w.read>>}
    PROVE  \E k \in Keys, r \in Releases : FoundWhole(c, w, found, k, r)
<1>1. PICK k \in Keys, r \in Releases : Underway(c, k, r, w)
  BY DEF Reading
<1>2. /\ w.read = Encoding[r] /\ w.secret.key = k
      /\ <<k, Encoding[r]>> \in held[c] /\ Asked(k, r, call[c])
  BY <1>1, ReadWhole
<1>3. w.secret = IndexSecret(k, r, w.secret.uid) /\ w.secret.uid \in Nat
  BY <1>1 DEF Underway, Locals, Secrets
<1>4. found = w.found \cup {<<k, Encoding[r]>>}
  BY <1>2
<1>5. found \subseteq held[c]
  BY <1>2, <1>4 DEF Reading
<1>6. \A e \in found : \E l \in Keys, q \in Releases :
         e = <<l, Encoding[q]>> /\ Asked(l, q, call[c])
  BY <1>2, <1>4 DEF Reading
<1>7. call[c].kind # "list" => found = {<<k, Encoding[r]>>}
  BY <1>4 DEF Reading
<1>8. ASSUME call[c].kind = "list", NEW l \in Keys, NEW q \in Releases,
             <<l, Encoding[q]>> \in kept[c], Asked(l, q, call[c])
      PROVE  \/ <<l, Encoding[q]>> \in found
             \/ \E s \in w.todo : s = IndexSecret(l, q, s.uid)
  <2>1. Found(<<l, Encoding[q]>>, w)
    BY <1>8 DEF Reading
  <2>2. CASE <<l, Encoding[q]>> \in w.found
    BY <1>4, <2>2
  <2>3. ASSUME NEW s \in {w.secret} \cup w.todo, NEW a \in Keys, NEW b \in Releases,
               s = IndexSecret(a, b, s.uid), <<l, Encoding[q]>> = <<a, Encoding[b]>>
        PROVE  \/ <<l, Encoding[q]>> \in found
               \/ \E t \in w.todo : t = IndexSecret(l, q, t.uid)
    <3>1. a = l /\ b = q
      BY <2>3, DriverAssumption
    <3>2. CASE s = w.secret
      <4>1. k = a /\ r = b
        BY <1>3, <2>3, <3>2, SecretTells
      <4> QED
        BY <1>4, <3>1, <4>1
    <3>3. CASE s \in w.todo
      BY <2>3, <3>1, <3>3
    <3> QED
      BY <3>2, <3>3
  <2> QED
    BY <2>1, <2>2, <2>3 DEF Found
<1> QED
  BY <1>2, <1>3, <1>4, <1>5, <1>6, <1>7, <1>8 DEF FoundWhole

LEMMA DecodedKeepsReads ==
    ASSUME IInv, IInv', RInv, NEW c \in Clients, Decoded(c)
    PROVE  RInv'
<1>1. pc[c] = "getChunks" /\ UNCHANGED secrets /\ Remember
  BY DEF Decoded
<1>2. PICK w \in Locals : /\ work[c] = w /\ w.secret # Nil /\ Reading(c, w)
                          /\ call[c] # Nil /\ (call[c].kind = "delete" <=> c = Writer)
                          /\ (call[c].kind # "list" => call[c].key \in Keys)
  BY <1>1, InReading
<1>3. w.names = <<>>
  BY <1>2 DEF Decoded
<1>4. PICK found : found = w.found \cup {<<w.secret.key, w.read>>}
  OBVIOUS
<1>5. PICK k \in Keys, r \in Releases : FoundWhole(c, w, found, k, r)
  BY <1>2, <1>3, <1>4, FoundNow
<1>6. /\ RecordsFit /\ SecretsFit /\ SecretsTyped /\ SecretsFit' /\ SecretsTyped'
      /\ SecretsStep
  BY <1>1 DEF RInv, IInv, Typing, SecretsTyped, SecretsStep, Shrunk, secrets
<1>7. CASE Succeed(c, found)
  BY <1>7, AfterReturn, StepsNotReading DEF Succeed, Request
<1>8. ASSUME NEW next \in w.todo, Decode(c, next, w.todo \ {next}, found)
      PROVE  RInv'
  <2>1. pc'[c] \in {"idle", "getChunks"}
    BY <1>8, DecodeGoesOn
  <2>2. call[c].kind = "list" /\ c # Writer
    BY <1>2, <1>8 DEF Reading
  <2>3. ASSUME NEW v \in Locals, pc'[c] = "getChunks", work'[c] = v
        PROVE  Reading(c, v)'
    <3>1. w.todo \subseteq Secrets /\ found \subseteq ChunkNames
      <4>1. w.todo \subseteq Secrets
        BY DEF Locals
      <4>2. \A q \in Releases : Encoding[q] \in Seq(Bytes)
        BY DriverAssumption
      <4> QED
        BY <1>5, <4>1, <4>2 DEF FoundWhole, ChunkNames
    <3>2. /\ v.secret = next /\ v.names = next.extraChunks /\ v.read = next.chunk
          /\ v.todo = w.todo \ {next} /\ v.found = found /\ UNCHANGED <<call, sure>>
      BY <1>8, <2>3, <3>1, DecodeDoes
    <3>3. RecordsFit'
      BY <1>1, <3>2, RecordsKept DEF RInv
    <3>4. held[c] \subseteq held'[c] /\ kept'[c] \subseteq kept[c]
      BY <1>1, <1>2, <1>6, <3>2, Remembered
    <3>5. ASSUME NEW t \in w.todo
          PROVE  t # Nil /\ \E l \in Keys, q \in Releases : Waiting(c, l, q, t)'
      <4>1. PICK l \in Keys, q \in Releases : Waiting(c, l, q, t)
        BY <1>2 DEF Reading
      <4>2. PICK m : m = Len(Parts[q]) - 1
        OBVIOUS
      <4>3. m \in 0..Len(Parts[q]) - 1
        BY <4>2, PartCount
      <4>4. Seen(c, l, q, m)
        BY <4>1, <4>2 DEF Waiting
      <4>5. Seen(c, l, q, m)'
        BY <1>2, <1>6, <3>2, <3>3, <3>4, <4>3, <4>4, SeenKept
      <4>6. Waiting(c, l, q, t)'
        BY <3>2, <4>1, <4>2, <4>5 DEF Waiting, Asked
      <4>7. t # Nil
        BY <3>1, NilAssumption DEF Secrets, ChunkNames
      <4> QED
        BY <4>6, <4>7
    <3>6. \E l \in Keys, q \in Releases : Underway(c, l, q, v)'
      <4>1. next # Nil
        BY <1>8, <3>5
      <4>2. PICK l \in Keys, q \in Releases : Waiting(c, l, q, v.secret)'
        BY <1>8, <3>2, <3>5
      <4> QED
        BY <3>2, <4>1, <4>2, DecodeBeginsThen
    <3>7. \A t \in v.todo : \E l \in Keys, q \in Releases : Waiting(c, l, q, t)'
      BY <3>2, <3>5
    <3>8. v.found \subseteq held'[c]
      BY <1>5, <3>2, <3>4 DEF FoundWhole
    <3>9. \A e \in v.found : \E l \in Keys, q \in Releases :
             e = <<l, Encoding[q]>> /\ Asked(l, q, call'[c])
      BY <1>5, <3>2 DEF FoundWhole
    <3>10. ASSUME NEW l \in Keys, NEW q \in Releases,
                  <<l, Encoding[q]>> \in kept'[c], Asked(l, q, call'[c])
           PROVE  Found(<<l, Encoding[q]>>, v)
      <4>1. \/ <<l, Encoding[q]>> \in found
            \/ \E s \in w.todo : s = IndexSecret(l, q, s.uid)
        BY <1>5, <2>2, <3>2, <3>4, <3>10 DEF FoundWhole
      <4>2. CASE <<l, Encoding[q]>> \in found
        BY <3>2, <4>2 DEF Found
      <4>3. ASSUME NEW s \in w.todo, s = IndexSecret(l, q, s.uid)
            PROVE  Found(<<l, Encoding[q]>>, v)
        <5>1. s \in {v.secret} \cup v.todo
          BY <3>2
        <5> QED
          BY <4>3, <5>1 DEF Found
      <4> QED
        BY <4>1, <4>2, <4>3
    <3>11. call'[c].kind = "list"
      BY <2>2, <3>2
    <3> QED
      BY <2>2, <3>6, <3>7, <3>8, <3>9, <3>10, <3>11 DEF Reading
  <2> QED
    BY <2>1, <2>2, <2>3, StepKeepsReads DEF Request
<1>9. ASSUME call[c].kind = "delete", GoTo(c, "deleteAll", [w EXCEPT !.found = found])
      PROVE  RInv'
  <2>1. PICK v : v = [w EXCEPT !.found = found]
    OBVIOUS
  <2>2. pc'[c] = "deleteAll" /\ work'[c] = v /\ UNCHANGED <<call, sure>> /\ c = Writer
    BY <1>2, <1>9, <2>1, AfterGoTo
  <2>3. v.found = found
    BY <2>1 DEF Locals
  <2>4. k = call[c].key /\ k \notin sure
    BY <1>2, <1>5, <1>9, <2>2 DEF FoundWhole, Asked, IInv, SureFits
  <2>5. index[k] = w.secret
    BY <1>2, <2>2, <2>4 DEF Reading
  <2>6. found = {<<k, Encoding[r]>>} /\ <<k, Encoding[r]>> \in held[c]
    BY <1>5, <1>9 DEF FoundWhole
  <2>7. <<k, Encoding[r]>> \in past
    BY <1>6, <2>2, <2>4, <2>6 DEF RecordsFit
  <2>8. IsOf(k, r)
    BY <1>2, <1>5, <2>5 DEF FoundWhole, IsOf
  <2>9. Deleting(k, found)
    <3>1. \A q \in Releases : IsOf(k, q) => q = r
      BY <1>6, <2>8, OneRelease
    <3> QED
      BY <2>2, <2>6, <2>7, <3>1 DEF Deleting
  <2>10. Deleting(k, found)'
    BY <1>1, <1>2, <1>6, <2>2, <2>4, <2>9, DeletingKept DEF secrets
  <2>11. \A l \in Keys, x \in Locals :
            work'[Writer] = x /\ call'[Writer].key = l => Deleting(l, x.found)'
    BY <2>2, <2>3, <2>4, <2>10
  <2> QED
    BY <2>2, <2>11, StepKeepsReads DEF Request
<1> QED
  BY <1>2, <1>4, <1>7, <1>8, <1>9 DEF Decoded

-----------------------------------------------------------------------------
(* The invariant                                                           *)

LEMMA RecordsStart == Init => RInv
<1> SUFFICES ASSUME Init PROVE RInv
  OBVIOUS
<1>1. Contents = {}
  <2>1. \A k \in Keys, r \in Releases : ~Holds(k, r)
    BY DEF Init, Holds
  <2> QED
    BY <2>1 DEF Contents
<1>2. RecordsFit
  BY <1>1, WriterIsClient DEF Init, RecordsFit
<1>3. ReadsFit
  BY WriterIsClient DEF Init, ReadsFit
<1> QED
  BY <1>2, <1>3 DEF RInv

LEMMA RecordsIdle ==
    ASSUME RInv, UNCHANGED vars
    PROVE  RInv'
<1>1. UNCHANGED <<index, chunks, pc, call, work, sure, past, held, kept>>
  BY DEF vars, secrets
<1>2. RecordsFit'
  <2>1. Contents' = Contents
    BY <1>1 DEF Contents, Holds, Stored, DataOf
  <2> QED
    BY <1>1, <2>1 DEF RInv, RecordsFit
<1>3. ASSUME NEW c \in Clients, NEW k \in Keys, NEW r \in Releases
      PROVE  /\ \A m : Seen(c, k, r, m)' <=> Seen(c, k, r, m)
             /\ Asked(k, r, call[c])' <=> Asked(k, r, call[c])
             /\ IsOf(k, r)' <=> IsOf(k, r)
  <2>1. IsOf(k, r)' <=> IsOf(k, r)
    BY <1>1 DEF IsOf
  <2>2. \A i : There(k, r, i)' <=> There(k, r, i)
    BY <1>1 DEF There, Stored
  <2>3. \A m : Seen(c, k, r, m)' <=> Seen(c, k, r, m)
    BY <1>1, <2>1, <2>2 DEF Seen
  <2> QED
    BY <1>1, <2>1, <2>3 DEF Asked
<1>4. ASSUME NEW c \in Clients, NEW w \in Locals, Reading(c, w)
      PROVE  Reading(c, w)'
  <2>1. PICK k \in Keys, r \in Releases : Underway(c, k, r, w)
    BY <1>4 DEF Reading
  <2>2. Underway(c, k, r, w)'
    BY <1>1, <1>3, <2>1 DEF Underway
  <2>3. \A t \in w.todo : \E l \in Keys, q \in Releases : Waiting(c, l, q, t)'
    <3>1. ASSUME NEW t, NEW l \in Keys, NEW q \in Releases, Waiting(c, l, q, t)
          PROVE  Waiting(c, l, q, t)'
      BY <1>1, <1>3, <3>1 DEF Waiting
    <3> QED
      BY <1>4, <3>1 DEF Reading
  <2> QED
    BY <1>1, <1>3, <1>4, <2>2, <2>3 DEF Reading, Asked
<1>5. ASSUME NEW k \in Keys, NEW found, Deleting(k, found) PROVE Deleting(k, found)'
  BY <1>1, <1>3, <1>5 DEF Deleting, IsOf
<1>6. ReadsFit'
  BY <1>1, <1>4, <1>5 DEF RInv, ReadsFit
<1> QED
  BY <1>2, <1>6 DEF RInv

LEMMA RecordsStep == IInv /\ IInv' /\ RInv /\ [Next]_vars => RInv'
<1> SUFFICES ASSUME IInv, IInv', RInv, [Next]_vars PROVE RInv'
  OBVIOUS
<1>1. ASSUME NEW c \in Clients, Request(c)
      PROVE  RInv'
  BY <1>1, WritersKeepReads, GetIndexKeepsReads, ListIndicesKeepsReads,
     GetChunkKeepsReads, DecodedKeepsReads, DeleteAllKeepsReads DEF Request
<1> QED
  BY <1>1, CallsKeepReads, CollectKeepsReads, RecordsIdle DEF Next

(* In every reachable state a release that is being read was in the store  *)
(* as a whole during the call, or a chunk that is still to be read is      *)
(* missing; and what a Delete deletes was there as a whole.                *)
THEOREM ReadInvariance == Spec => []RInv
BY Invariance, RecordsStart, RecordsStep, PTL DEF Spec

-----------------------------------------------------------------------------
(* The values of the store, and how they change                            *)

(* What a key held that still has its index, and of whose chunks some may  *)
(* have gone.                                                              *)
LEMMA ValueNear ==
    ASSUME SecretsFit, SecretsTyped, SecretsFit', SecretsTyped',
           NEW k \in Keys, index'[k] = index[k],
           \A x : Stored(<<k, x>>)' => Stored(<<k, x>>)
    PROVE  /\ StoreValue(k)' \in {StoreValue(k), Torn}
           /\ StoreValue(k)' # StoreValue(k) => StoreValue(k) \in Values
<1>1. ASSUME NEW r \in Releases PROVE Holds(k, r)' => Holds(k, r)
  <2>1. IsOf(k, r)' <=> IsOf(k, r)
    BY DEF IsOf
  <2>2. \A i : There(k, r, i)' => There(k, r, i)
    BY DEF There
  <2> QED
    BY <2>1, <2>2, HoldsMeans, HoldsThen
<1>2. CASE index[k] = Nil
  BY <1>2, ValueIs, ValueThen
<1>3. CASE \E r \in Releases : Holds(k, r)'
  BY <1>1, <1>3, ValueIs, ValueThen
<1>4. CASE index[k] # Nil /\ \A r \in Releases : ~Holds(k, r)'
  <2>1. StoreValue(k)' = Torn
    BY <1>4, ValueThen DEF Values
  <2>2. StoreValue(k) \in Values \/ StoreValue(k) = Torn
    BY <1>4, ValueIs
  <2> QED
    BY <2>1, <2>2
<1> QED
  BY <1>2, <1>3, <1>4

LEMMA ValueKept ==
    ASSUME SecretsFit, SecretsTyped, SecretsFit', SecretsTyped',
           NEW k \in Keys, index'[k] = index[k],
           \A x : Stored(<<k, x>>)' <=> Stored(<<k, x>>)
    PROVE  StoreValue(k)' = StoreValue(k)
<1>1. ASSUME NEW r \in Releases PROVE Holds(k, r) => Holds(k, r)'
  <2>1. IsOf(k, r)' <=> IsOf(k, r)
    BY DEF IsOf
  <2>2. \A i : There(k, r, i)' <=> There(k, r, i)
    BY DEF There
  <2> QED
    BY <2>1, <2>2, HoldsMeans, HoldsThen
<1>2. StoreValue(k)' \in {StoreValue(k), Torn}
      /\ (StoreValue(k)' # StoreValue(k) => StoreValue(k) \in Values)
  BY ValueNear
<1>3. ASSUME StoreValue(k) \in Values PROVE StoreValue(k)' = StoreValue(k)
  <2>1. PICK r \in Releases : StoreValue(k) = Encoding[r]
    BY <1>3 DEF Values
  <2>2. Holds(k, r)'
    BY <1>1, <2>1, ValueIs
  <2> QED
    BY <2>1, <2>2, ValueThen
<1> QED
  BY <1>2, <1>3

(* Only one key changes.                                                   *)
LEMMA StoreChanges ==
    ASSUME NEW k \in Keys,
           \A l \in Keys : l # k => StoreValue(l)' = StoreValue(l)
    PROVE  Store' = [Store EXCEPT ![k] = StoreValue(k)']
<1> PICK v : v = StoreValue(k)'
  OBVIOUS
<1>1. \A l \in Keys : StoreValue(l)' = IF l = k THEN v ELSE StoreValue(l)
  OBVIOUS
<1> QED
  BY <1>1 DEF Store

LEMMA StoreKept ==
    ASSUME UNCHANGED <<index, chunks>>
    PROVE  Store' = Store
<1>1. \A k \in Keys : StoreValue(k)' = StoreValue(k)
  BY DEF StoreValue, Holds, Stored, DataOf
<1> QED
  BY <1>1 DEF Store

-----------------------------------------------------------------------------
(* The calls as the store sees them                                        *)

LEMMA AbstractIs ==
    ASSUME NEW k \in Calls
    PROVE  /\ AbstractCall(k) \in Storage!Call /\ AbstractCall(k) # Nil
           /\ AbstractCall(k).kind = k.kind
           /\ k.kind # "list" => AbstractCall(k).key = k.key
           /\ k.kind \in {"create", "update"} => AbstractCall(k).value = Encoding[k.release]
           /\ k.kind = "list" => AbstractCall(k).wanted =
                 {Encoding[r] : r \in {x \in Releases : k.label \in {Nil, Label[x]}}}
<1>1. k # Nil
  BY NilAssumption
<1>2. CASE k \in [kind : {"create", "update"}, key : Keys, release : Releases]
  <2>1. AbstractCall(k) = [kind |-> k.kind, key |-> k.key, value |-> Encoding[k.release]]
    BY <1>1, <1>2 DEF AbstractCall
  <2>2. AbstractCall(k) \in Storage!Call
    BY <1>2, <2>1 DEF Storage!Call
  <2> QED
    BY <1>2, <2>1, <2>2, NilAssumption
<1>3. CASE k \in [kind : {"get", "delete"}, key : Keys]
  <2>1. AbstractCall(k) = k
    BY <1>1, <1>3 DEF AbstractCall
  <2>2. k \in Storage!Call
    BY <1>3 DEF Storage!Call
  <2> QED
    BY <1>1, <1>3, <2>1, <2>2
<1>4. CASE k \in [kind : {"list"}, label : Labels \cup {Nil}]
  <2> DEFINE wanted == {Encoding[r] : r \in {x \in Releases : k.label \in {Nil, Label[x]}}}
  <2>1. AbstractCall(k) = [kind |-> "list", wanted |-> wanted]
    BY <1>1, <1>4 DEF AbstractCall
  <2>2. wanted \subseteq {Encoding[r] : r \in Releases}
    OBVIOUS
  <2>3. AbstractCall(k) \in Storage!Call
    BY <2>1, <2>2 DEF Storage!Call
  <2>4. k.kind = "list"
    BY <1>4
  <2>5. AbstractCall(k) # Nil
    BY <2>3, NilAssumption
  <2> HIDE DEF wanted
  <2>6. AbstractCall(k).kind = "list" /\ AbstractCall(k).wanted = wanted
    BY <2>1
  <2> QED
    BY <2>3, <2>4, <2>5, <2>6 DEF wanted
<1> QED
  BY <1>2, <1>3, <1>4 DEF Calls

LEMMA AbstractNil ==
    \A k \in Calls \cup {Nil} : AbstractCall(k) = Nil <=> k = Nil
BY AbstractIs, NilAssumption DEF AbstractCall

LEMMA PendingIs ==
    ASSUME NEW c \in Clients
    PROVE  /\ Pending[c] = AbstractCall(call[c])
           /\ Pending'[c] = AbstractCall(call'[c])
BY DEF Pending

LEMMA PendingEnds ==
    ASSUME IInv, NEW c \in Clients, NEW answer, Return(c, answer)
    PROVE  Pending' = [Pending EXCEPT ![c] = Nil] /\ reply' = [reply EXCEPT ![c] = answer]
<1>1. AbstractCall(Nil) = Nil
  BY DEF AbstractCall
<1>2. call' = [call EXCEPT ![c] = Nil] /\ call \in [Clients -> Calls \cup {Nil}]
  BY DEF Return, IInv, Typing
<1>3. \A d \in Clients : AbstractCall(call'[d]) = IF d = c THEN Nil ELSE AbstractCall(call[d])
  BY <1>1, <1>2
<1>4. Pending' = [Pending EXCEPT ![c] = Nil]
  BY <1>3 DEF Pending
<1> QED
  BY <1>4 DEF Return

LEMMA RememberMaps ==
    ASSUME IInv, IInv', Remember
    PROVE  Storage!Remember
<1>1. Contents' = Storage!Contents(Store)'
  BY ContentsThen DEF IInv, Typing, SecretsTyped
<1>2. \A c \in Clients : (AbstractCall(call[c]) = Nil <=> call[c] = Nil)
                         /\ (AbstractCall(call'[c]) = Nil <=> call'[c] = Nil)
  BY AbstractNil DEF IInv, Typing
<1>3. /\ past' = Storage!Contents(Store)' \cup {e \in past : e[1] \notin sure'}
      /\ held' = [c \in Clients |->
                     IF AbstractCall(call'[c]) = Nil THEN {} ELSE held[c] \cup past']
  BY <1>1, <1>2 DEF Remember
<1>4. kept' = [c \in Clients |->
                  CASE AbstractCall(call'[c]) = Nil -> {}
                    [] AbstractCall(call'[c]) # Nil /\ AbstractCall(call[c]) = Nil
                         -> Storage!Contents(Store)'
                    [] OTHER -> kept[c] \cap Storage!Contents(Store)']
  BY <1>1, <1>2 DEF Remember
<1> QED
  BY <1>3, <1>4 DEF Storage!Remember, Store

-----------------------------------------------------------------------------
(* What a call may do to the store                                         *)

Effect(c) == Store' \in Storage!Outcomes(c) /\ Storage!Permitted(c)

LEMMA NoEffect ==
    ASSUME NEW c \in Clients, Store' = Store
    PROVE  Effect(c)
BY DEF Effect, Storage!Outcomes, Storage!Permitted, Store

(* A write that has an effect.                                             *)
LEMMA WriteEffect ==
    ASSUME IInv, NEW c \in Clients, call[c] # Nil, call[c].kind \in {"create", "update"},
           NEW k \in Keys, k = call[c].key, NEW r \in Releases, r = call[c].release,
           NEW v \in {Encoding[r], Torn}, Store' = [Store EXCEPT ![k] = v],
           call[c].kind = "update" => Store[k] # Nil,
           call[c].kind = "create" /\ Store' # Store =>
              Store[k] = Nil \/ (Store[k] = Torn /\ v = Encoding[r])
    PROVE  Effect(c)
<1>1. PICK a : a = AbstractCall(call[c])
  OBVIOUS
<1>2. call[c] \in Calls
  BY DEF IInv, Typing
<1>3. a.kind = call[c].kind /\ a.key = k /\ a.value = Encoding[r]
  BY <1>1, <1>2, AbstractIs
<1>4. Store'[k] = v
  BY DEF Store
<1>5. Store' \in Storage!Outcomes(c)
  <2>1. CASE a.kind = "create"
    BY <1>1, <1>3, <2>1, ZenonT(60) DEF Storage!Outcomes, Store
  <2>2. CASE a.kind = "update"
    BY <1>1, <1>3, <2>2, ZenonT(60) DEF Storage!Outcomes, Store
  <2> QED
    BY <1>3, <2>1, <2>2
<1>6. Storage!Permitted(c)
  BY <1>1, <1>3, <1>4 DEF Storage!Permitted, Store
<1> QED
  BY <1>5, <1>6 DEF Effect

(* A Delete that has one.                                                  *)
LEMMA DeleteEffect ==
    ASSUME IInv, NEW c \in Clients, call[c] # Nil, call[c].kind = "delete",
           NEW k \in Keys, k = call[c].key,
           NEW r \in Releases, <<k, Encoding[r]>> \in held[c],
           NEW v \in {Nil, Torn}, Store' = [Store EXCEPT ![k] = v]
    PROVE  Effect(c)
<1>1. PICK a : a = AbstractCall(call[c])
  OBVIOUS
<1>2. call[c] \in Calls
  BY DEF IInv, Typing
<1>3. a.kind = "delete" /\ a.key = k
  BY <1>1, <1>2, AbstractIs
<1>4. Store' \in Storage!Outcomes(c)
  BY <1>1, <1>3 DEF Storage!Outcomes, Store
<1>5. Storage!Permitted(c)
  BY <1>1, <1>3 DEF Storage!Permitted
<1> QED
  BY <1>4, <1>5 DEF Effect

LEMMA IndexPutEffect ==
    ASSUME IInv, IInv', NEW c \in Clients, call[c] # Nil,
           call[c].kind \in {"create", "update"},
           NEW k \in Keys, k = call[c].key, NEW r \in Releases, r = call[c].release,
           call[c].kind = "create" <=> index[k] = Nil, IndexPut(k, r)
    PROVE  Effect(c) /\ (Len(Parts[r]) = 1 => StoreValue(k)' = Encoding[r])
<1>1. SecretsFit /\ SecretsTyped /\ SecretsFit' /\ SecretsTyped'
  BY DEF IInv, Typing, SecretsTyped
<1>2. PICK u \in Nat : index' = [index EXCEPT ![k] = IndexSecret(k, r, u)] /\ chunks' = chunks
  BY DEF IndexPut
<1>3. IsOf(k, r)'
  <2>1. index'[k] = IndexSecret(k, r, u)
    BY <1>1, <1>2 DEF SecretsTyped
  <2>2. index'[k] # Nil /\ index'[k].uid = u
    BY <2>1, IndexSecretIs
  <2> QED
    BY <2>1, <2>2 DEF IsOf
<1>4. StoreValue(k)' \in {Encoding[r], Torn}
  <2>1. \A q \in Releases : Holds(k, q)' => q = r
    BY <1>1, <1>3, HoldsThen, OneReleaseThen
  <2>2. StoreValue(k)' # Nil
    BY <1>1, <1>3, ValueThen DEF IsOf
  <2> QED
    BY <1>1, <2>1, <2>2, ValueThen DEF Values
<1>5. ASSUME NEW l \in Keys, l # k PROVE StoreValue(l)' = StoreValue(l)
  <2>1. index'[l] = index[l]
    BY <1>1, <1>2, <1>5 DEF SecretsTyped
  <2>2. \A x : Stored(<<l, x>>)' <=> Stored(<<l, x>>)
    BY <1>2 DEF Stored
  <2> QED
    BY <1>1, <2>1, <2>2, ValueKept
<1>6. Store' = [Store EXCEPT ![k] = StoreValue(k)']
  BY <1>5, StoreChanges
<1>7. Store[k] = Nil <=> index[k] = Nil
  BY <1>1, ValueIs DEF Store
<1>8. PICK v \in {Encoding[r], Torn} : v = StoreValue(k)'
  BY <1>4
<1>9. Effect(c)
  <2>1. Store' = [Store EXCEPT ![k] = v]
    BY <1>6, <1>8
  <2>2. call[c].kind = "update" => Store[k] # Nil
    BY <1>7
  <2>3. call[c].kind = "create" /\ Store' # Store =>
           Store[k] = Nil \/ (Store[k] = Torn /\ v = Encoding[r])
    BY <1>7
  <2> QED
    BY <2>1, <2>2, <2>3, WriteEffect
<1>10. ASSUME Len(Parts[r]) = 1 PROVE StoreValue(k)' = Encoding[r]
  <2>1. \A i \in 2..Len(Parts[r]) : FALSE
    BY <1>10
  <2>2. Holds(k, r)'
    BY <1>1, <1>3, <2>1, HoldsThen
  <2> QED
    BY <1>1, <2>2, ValueThen
<1> QED
  BY <1>9, <1>10

LEMMA ChunkPutEffect ==
    ASSUME IInv, IInv', NEW c \in Clients, call[c] # Nil,
           call[c].kind \in {"create", "update"},
           NEW k \in Keys, k = call[c].key, NEW r \in Releases, r = call[c].release,
           NEW i \in 2..Len(Parts[r]), ChunkPut(k, r, i)
    PROVE  Effect(c) /\ (i = Len(Parts[r]) => StoreValue(k)' = Encoding[r])
<1>1. SecretsFit /\ SecretsTyped /\ SecretsFit' /\ SecretsTyped'
  BY DEF IInv, Typing, SecretsTyped
<1>2. /\ IsOf(k, r) /\ index' = index
      /\ \A l, x : Stored(<<l, x>>)' <=> Stored(<<l, x>>) \/ <<l, x>> = <<k, Parts[r][i]>>
  BY DEF ChunkPut, Stored
<1>3. IsOf(k, r)'
  BY <1>2 DEF IsOf
<1>4. StoreValue(k)' \in {Encoding[r], Torn} /\ StoreValue(k) \in {Encoding[r], Torn}
  <2>1. \A q \in Releases : Holds(k, q)' => q = r
    BY <1>1, <1>3, HoldsThen, OneReleaseThen
  <2>2. \A q \in Releases : Holds(k, q) => q = r
    BY <1>1, <1>2, HoldsMeans, OneRelease
  <2>3. StoreValue(k)' # Nil /\ StoreValue(k) # Nil
    BY <1>1, <1>2, <1>3, ValueIs, ValueThen DEF IsOf
  <2>4. StoreValue(k)' \in {Encoding[r], Torn}
    BY <1>1, <2>1, <2>3, ValueThen DEF Values
  <2>5. StoreValue(k) \in {Encoding[r], Torn}
    BY <1>1, <2>2, <2>3, ValueIs DEF Values
  <2> QED
    BY <2>4, <2>5
<1>5. ASSUME NEW l \in Keys, l # k PROVE StoreValue(l)' = StoreValue(l)
  <2>1. index'[l] = index[l] /\ \A x : Stored(<<l, x>>)' <=> Stored(<<l, x>>)
    BY <1>2, <1>5
  <2> QED
    BY <1>1, <2>1, ValueKept
<1>6. Store' = [Store EXCEPT ![k] = StoreValue(k)']
  BY <1>5, StoreChanges
<1>7. StoreValue(k) = Encoding[r] => StoreValue(k)' = Encoding[r]
  <2>1. SUFFICES ASSUME Holds(k, r) PROVE Holds(k, r)'
    BY <1>1, ValueIs, ValueThen
  <2>2. \A j \in 2..Len(Parts[r]) : There(k, r, j)'
    BY <1>1, <1>2, <2>1, HoldsMeans DEF There
  <2> QED
    BY <1>1, <1>3, <2>2, HoldsThen
<1>8. PICK v \in {Encoding[r], Torn} : v = StoreValue(k)'
  BY <1>4
<1>9. Effect(c)
  <2>1. Store' = [Store EXCEPT ![k] = v]
    BY <1>6, <1>8
  <2>2. Store[k] = StoreValue(k) /\ Store[k] # Nil
    BY <1>1, <1>2, ValueIs DEF Store, IsOf
  <2>3. Store' # Store => v # Store[k]
    BY <2>1 DEF Store
  <2>4. Store' # Store => Store[k] = Torn /\ v = Encoding[r]
    BY <1>4, <1>7, <1>8, <2>2, <2>3
  <2> QED
    BY <2>1, <2>2, <2>4, WriteEffect
<1>10. ASSUME i = Len(Parts[r]) PROVE StoreValue(k)' = Encoding[r]
  <2>1. ASSUME NEW j \in 2..Len(Parts[r]) PROVE There(k, r, j)'
    <3>1. j \in 2..i - 1 \/ j = i
      BY <1>10, PartCount
    <3>2. There(k, r, j) \/ j = i
      BY <3>1 DEF ChunkPut
    <3> QED
      BY <1>2, <3>2 DEF There
  <2>2. Holds(k, r)'
    BY <1>1, <1>3, <2>1, HoldsThen
  <2> QED
    BY <1>1, <2>2, ValueThen
<1> QED
  BY <1>9, <1>10

(* The chunks of one key go.                                               *)
LEMMA ChunksGoValues ==
    ASSUME IInv, IInv', NEW k \in Keys, ChunksGo(k)
    PROVE  /\ Store' = [Store EXCEPT ![k] = StoreValue(k)']
           /\ StoreValue(k)' \in {StoreValue(k), Torn}
           /\ StoreValue(k)' # StoreValue(k) => StoreValue(k) \in Values
<1>1. SecretsFit /\ SecretsTyped /\ SecretsFit' /\ SecretsTyped'
  BY DEF IInv, Typing, SecretsTyped
<1>2. /\ index' = index
      /\ \A l, x : Stored(<<l, x>>)' => Stored(<<l, x>>)
      /\ \A l, x : l # k => (Stored(<<l, x>>)' <=> Stored(<<l, x>>))
  <2>1. index' = index /\ \A l, x : Stored(<<l, x>>)' => Stored(<<l, x>>)
    BY DEF ChunksGo, Shrunk, Stored
  <2>2. ASSUME NEW l, NEW x, l # k, NEW s \in chunks, s.name = <<l, x>>
        PROVE  s \in chunks'
    <3>1. s.key # k
      BY <1>1, <2>2 DEF SecretsFit
    <3> QED
      BY <2>2, <3>1 DEF ChunksGo
  <2>3. \A l, x : l # k => (Stored(<<l, x>>) => Stored(<<l, x>>)')
    BY <2>2 DEF Stored
  <2> QED
    BY <2>1, <2>3
<1>3. ASSUME NEW l \in Keys, l # k PROVE StoreValue(l)' = StoreValue(l)
  <2>1. index'[l] = index[l] /\ \A x : Stored(<<l, x>>)' <=> Stored(<<l, x>>)
    BY <1>2, <1>3
  <2> QED
    BY <1>1, <2>1, ValueKept
<1>4. /\ StoreValue(k)' \in {StoreValue(k), Torn}
      /\ StoreValue(k)' # StoreValue(k) => StoreValue(k) \in Values
  BY <1>1, <1>2, ValueNear
<1> QED
  BY <1>3, <1>4, StoreChanges

LEMMA StoreSame ==
    ASSUME NEW k \in Keys, Store' = [Store EXCEPT ![k] = StoreValue(k)'],
           StoreValue(k)' = StoreValue(k)
    PROVE  Store' = Store
BY DEF Store

LEMMA ChunksGoEffect ==
    ASSUME IInv, IInv', NEW c \in Clients, call[c] # Nil,
           NEW k \in Keys, k = call[c].key, ChunksGo(k),
           \/ call[c].kind = "update" /\ index[k] # Nil
           \/ /\ call[c].kind = "delete"
              /\ \E r \in Releases : <<k, Encoding[r]>> \in held[c]
    PROVE  Effect(c)
<1>1. /\ Store' = [Store EXCEPT ![k] = StoreValue(k)']
      /\ StoreValue(k)' \in {StoreValue(k), Torn}
  BY ChunksGoValues
<1>2. CASE StoreValue(k)' = StoreValue(k)
  BY <1>1, <1>2, StoreSame, NoEffect
<1>3. CASE StoreValue(k)' # StoreValue(k)
  <2>1. Store' = [Store EXCEPT ![k] = Torn]
    BY <1>1, <1>3
  <2>2. CASE call[c].kind = "update" /\ index[k] # Nil
    <3>1. Store[k] # Nil
      BY <2>2, ValueIs DEF Store, IInv, Typing, SecretsTyped
    <3>2. PICK r \in Releases : r = call[c].release
      BY <2>2, CallKinds DEF IInv, Typing
    <3> QED
      BY <2>1, <2>2, <3>1, <3>2, WriteEffect
  <2>3. CASE /\ call[c].kind = "delete"
             /\ \E r \in Releases : <<k, Encoding[r]>> \in held[c]
    BY <2>1, <2>3, DeleteEffect
  <2> QED
    BY <2>2, <2>3
<1> QED
  BY <1>2, <1>3

LEMMA IndexDroppedEffect ==
    ASSUME IInv, IInv', NEW c \in Clients, call[c] # Nil, call[c].kind = "delete",
           NEW k \in Keys, k = call[c].key, IndexDropped(k),
           NEW r \in Releases, <<k, Encoding[r]>> \in held[c]
    PROVE  Effect(c)
<1>1. SecretsFit /\ SecretsTyped /\ SecretsFit' /\ SecretsTyped'
  BY DEF IInv, Typing, SecretsTyped
<1>2. index' = [index EXCEPT ![k] = Nil] /\ chunks' = chunks
  BY DEF IndexDropped
<1>3. ASSUME NEW l \in Keys, l # k PROVE StoreValue(l)' = StoreValue(l)
  <2>1. index'[l] = index[l]
    BY <1>1, <1>2, <1>3 DEF SecretsTyped
  <2>2. \A x : Stored(<<l, x>>)' <=> Stored(<<l, x>>)
    BY <1>2 DEF Stored
  <2> QED
    BY <1>1, <2>1, <2>2, ValueKept
<1>4. StoreValue(k)' = Nil
  <2>1. index'[k] = Nil
    BY <1>1, <1>2 DEF SecretsTyped
  <2> QED
    BY <1>1, <2>1, ValueThen
<1>5. Store' = [Store EXCEPT ![k] = Nil]
  BY <1>3, <1>4, StoreChanges
<1> QED
  BY <1>5, DeleteEffect

-----------------------------------------------------------------------------
(* A client in a call has no reply yet                                     *)

Awaited == \A c \in Clients : call[c] # Nil => reply[c] = Nil

LEMMA AwaitedStep == IInv /\ Awaited /\ [Next]_vars => Awaited'
<1> SUFFICES ASSUME IInv, Awaited, [Next]_vars PROVE Awaited'
  OBVIOUS
<1>1. call \in [Clients -> Calls \cup {Nil}] /\ reply \in [Clients -> Replies \cup {Nil}]
  BY DEF IInv, Typing
<1>2. ASSUME UNCHANGED <<call, reply>> PROVE Awaited'
  BY <1>2 DEF Awaited
<1>3. CASE UNCHANGED vars \/ Collect
  BY <1>2, <1>3 DEF vars, Collect
<1> SUFFICES ASSUME NEW d \in Clients, Begin(d) \/ Request(d) \/ Die(d) PROVE Awaited'
  BY <1>3 DEF Next
<1>4. ASSUME NEW answer, Return(d, answer) PROVE Awaited'
  BY <1>1, <1>4 DEF Return, Awaited
<1>5. ASSUME NEW step, NEW w, GoTo(d, step, w) PROVE Awaited'
  BY <1>2, <1>5 DEF GoTo
<1>6. ASSUME NEW secret, NEW extra, StoreIndex(d, secret, extra)
      PROVE  Awaited'
  BY <1>4, <1>5, <1>6 DEF StoreIndex, Succeed, Fail
<1>7. ASSUME NEW secret, NEW todo, NEW found, Decode(d, secret, todo, found)
      PROVE  Awaited'
  BY <1>4, <1>5, <1>7 DEF Decode, Fail
<1>8. CASE Begin(d)
  <2>1. /\ reply' = [reply EXCEPT ![d] = Nil]
        /\ \A c \in Clients : c # d => call'[c] = call[c]
    BY <1>1, <1>8 DEF Begin
  <2> QED
    BY <1>1, <2>1 DEF Awaited
<1>9. CASE Die(d)
  BY <1>4, <1>9 DEF Die, Fail
<1>10. CASE CreateIndex(d)
  BY <1>4, <1>6, <1>10 DEF CreateIndex, Fail, Refuse
<1>11. CASE CreateChunk(d)
  BY <1>4, <1>5, <1>11 DEF CreateChunk, Fail, Succeed
<1>12. CASE DeleteOldChunks(d)
  BY <1>2, <1>4, <1>5, <1>12 DEF DeleteOldChunks, Fail
<1>13. CASE UpdateIndex(d)
  BY <1>6, <1>13 DEF UpdateIndex
<1>14. CASE GetIndex(d)
  BY <1>4, <1>5, <1>7, <1>14 DEF GetIndex, Refuse
<1>15. CASE ListIndices(d)
  BY <1>4, <1>7, <1>15 DEF ListIndices, Succeed, Refuse
<1>16. CASE GetChunk(d)
  BY <1>4, <1>5, <1>16 DEF GetChunk, Fail
<1>17. CASE Decoded(d)
  BY <1>4, <1>5, <1>7, <1>17 DEF Decoded, Succeed
<1>18. CASE DeleteAll(d)
  BY <1>2, <1>4, <1>18 DEF DeleteAll, Succeed
<1> QED
  BY <1>8, <1>9, <1>10, <1>11, <1>12, <1>13, <1>14, <1>15, <1>16, <1>17, <1>18 DEF Request

LEMMA RepliesAwaited == Spec => []Awaited
<1>1. Init => Awaited
  BY DEF Init, Awaited
<1> QED
  BY <1>1, AwaitedStep, Invariance, PTL DEF Spec

-----------------------------------------------------------------------------
(* How a step ends, as the store sees it                                   *)

LEMMA MapWork ==
    ASSUME IInv, NEW c \in Clients, call[c] # Nil, Effect(c), UNCHANGED <<call, reply, sure>>
    PROVE  Storage!Work(c)
<1>1. AbstractCall(call[c]) # Nil
  BY AbstractNil DEF IInv, Typing
<1>2. Store' \in Storage!Outcomes(c) /\ Storage!Permitted(c)
  BY DEF Effect
<1> QED
  BY <1>1, <1>2 DEF Storage!Work, Store

LEMMA MapFail ==
    ASSUME IInv, Awaited, NEW c \in Clients, call[c] # Nil, Effect(c), Fail(c)
    PROVE  Storage!Fail(c)
<1>1. AbstractCall(call[c]) # Nil
  BY AbstractNil DEF IInv, Typing
<1>2. Store' \in Storage!Outcomes(c) /\ Storage!Permitted(c)
  BY DEF Effect
<1>3. Pending' = [Pending EXCEPT ![c] = Nil] /\ UNCHANGED sure
  BY PendingEnds DEF Fail
<1>4. reply' = reply
  <2>1. reply' = [reply EXCEPT ![c] = reply[c]]
    BY DEF Fail, Return, Awaited
  <2>2. reply \in [Clients -> Replies \cup {Nil}]
    BY DEF IInv, Typing
  <2> QED
    BY <2>1, <2>2
<1> QED
  BY <1>1, <1>2, <1>3, <1>4 DEF Storage!Fail, Store, Pending

LEMMA MapSucceed ==
    ASSUME IInv, NEW c \in Clients, call[c] # Nil, Effect(c),
           NEW answer \in SUBSET held[c], Succeed(c, answer),
           \A k \in Keys : k = call[c].key =>
              /\ call[c].kind \in {"create", "update"} =>
                    StoreValue(k)' = Encoding[call[c].release]
              /\ call[c].kind = "delete" => StoreValue(k)' = Nil,
           call[c].kind \in {"get", "delete"} =>
              \E r \in Releases : answer = {<<call[c].key, Encoding[r]>>},
           call[c].kind = "list" =>
              /\ \A e \in answer : \E l \in Keys, q \in Releases :
                    e = <<l, Encoding[q]>> /\ Asked(l, q, call[c])
              /\ \A l \in Keys, q \in Releases :
                    <<l, Encoding[q]>> \in kept[c] /\ Asked(l, q, call[c])
                       => <<l, Encoding[q]>> \in answer
    PROVE  Storage!Succeed(c)
<1>1. PICK a : a = AbstractCall(call[c])
  OBVIOUS
<1>2. call[c] \in Calls /\ a # Nil
  BY <1>1, AbstractNil DEF IInv, Typing
<1>3. /\ a.kind = call[c].kind
      /\ a.kind # "list" => a.key = call[c].key /\ a.key \in Keys
      /\ a.kind \in {"create", "update"} => a.value = Encoding[call[c].release]
      /\ a.kind = "list" => a.wanted =
            {Encoding[r] : r \in {x \in Releases : call[c].label \in {Nil, Label[x]}}}
  BY <1>1, <1>2, AbstractIs, CallKinds
<1>4. Store' \in Storage!Outcomes(c) /\ Storage!Permitted(c)
  BY DEF Effect
<1>5. Pending[c] = a /\ Pending' = [Pending EXCEPT ![c] = Nil]
      /\ reply' = [reply EXCEPT ![c] = <<"ok", answer>>]
  BY <1>1, PendingEnds, PendingIs DEF Succeed
<1>6. /\ a.kind \in {"create", "update"} => Store'[a.key] = a.value
      /\ a.kind = "delete" => Store'[a.key] = Nil
  <2> SUFFICES ASSUME a.kind # "list"
               PROVE  /\ a.kind \in {"create", "update"} => Store'[a.key] = a.value
                      /\ a.kind = "delete" => Store'[a.key] = Nil
    OBVIOUS
  <2>1. PICK k \in Keys : k = call[c].key /\ k = a.key
    BY <1>3
  <2>2. Store'[k] = StoreValue(k)'
    BY DEF Store
  <2> QED
    BY <1>3, <2>1, <2>2
<1>7. sure' = IF Storage!Changes(a) THEN sure \cup {a.key} ELSE sure
  BY <1>3 DEF Succeed, Changes, Storage!Changes
<1>8. a.kind \in {"get", "delete"} =>
         \E v \in {Encoding[r] : r \in Releases} : answer = {<<a.key, v>>}
  BY <1>3
<1>9. a.kind = "list" => /\ answer \subseteq Keys \X a.wanted
                         /\ kept[c] \cap (Keys \X a.wanted) \subseteq answer
  <2> SUFFICES ASSUME a.kind = "list"
               PROVE  /\ answer \subseteq Keys \X a.wanted
                      /\ kept[c] \cap (Keys \X a.wanted) \subseteq answer
    OBVIOUS
  <2>1. ASSUME NEW l \in Keys, NEW q \in Releases, Asked(l, q, call[c])
        PROVE  <<l, Encoding[q]>> \in Keys \X a.wanted
    BY <1>3, <2>1 DEF Asked
  <2>2. ASSUME NEW e \in Keys \X a.wanted
        PROVE  \E l \in Keys, q \in Releases : e = <<l, Encoding[q]>> /\ Asked(l, q, call[c])
    <3>1. PICK l \in Keys, v \in a.wanted : e = <<l, v>>
      OBVIOUS
    <3>2. PICK q \in Releases : v = Encoding[q] /\ call[c].label \in {Nil, Label[q]}
      BY <1>3
    <3>3. Asked(l, q, call[c])
      BY <1>3, <3>2 DEF Asked
    <3> QED
      BY <3>1, <3>2, <3>3
  <2>3. answer \subseteq Keys \X a.wanted
    BY <1>3, <2>1
  <2>4. kept[c] \cap (Keys \X a.wanted) \subseteq answer
    BY <1>3, <2>2
  <2> QED
    BY <2>3, <2>4
<1> QED
  BY <1>1, <1>2, <1>4, <1>5, <1>6, <1>7, <1>8, <1>9
     DEF Storage!Succeed, Store, Pending

LEMMA MapRefuse ==
    ASSUME IInv, NEW c \in Clients, call[c] # Nil, Store' = Store, NEW why, Refuse(c, why),
           \/ /\ call[c].kind \in {"get", "update", "delete"} /\ why = "notFound"
              /\ index[call[c].key] = Nil
           \/ /\ call[c].kind = "list" /\ why = "notFound"
              /\ \A l \in Keys, q \in Releases :
                    ~(<<l, Encoding[q]>> \in kept[c] /\ Asked(l, q, call[c]))
           \/ /\ call[c].kind = "create" /\ why = "exists"
              /\ index[call[c].key] # Nil
    PROVE  Storage!Refuse(c)
<1>1. PICK a : a = AbstractCall(call[c])
  OBVIOUS
<1>2. call[c] \in Calls /\ a # Nil
  BY <1>1, AbstractNil DEF IInv, Typing
<1>3. /\ a.kind = call[c].kind
      /\ a.kind # "list" => a.key = call[c].key /\ a.key \in Keys
      /\ a.kind = "list" => a.wanted =
            {Encoding[r] : r \in {x \in Releases : call[c].label \in {Nil, Label[x]}}}
  BY <1>1, <1>2, AbstractIs, CallKinds
<1>4. /\ Pending[c] = a /\ Pending' = [Pending EXCEPT ![c] = Nil] /\ UNCHANGED sure
      /\ reply' = [reply EXCEPT ![c] = <<why, {}>>]
  BY <1>1, PendingEnds, PendingIs DEF Refuse
<1>5. \A k \in Keys : Store[k] = Nil <=> index[k] = Nil
  BY ValueIs DEF Store, IInv, Typing, SecretsTyped
<1>6. CASE /\ call[c].kind \in {"get", "update", "delete"} /\ why = "notFound"
           /\ index[call[c].key] = Nil
  <2>1. a.kind \in {"get", "update", "delete"} /\ Store[a.key] = Nil
    BY <1>3, <1>5, <1>6
  <2> QED
    BY <1>1, <1>2, <1>4, <1>6, <2>1 DEF Storage!Refuse, Store, Pending
<1>7. CASE /\ call[c].kind = "list" /\ why = "notFound"
           /\ \A l \in Keys, q \in Releases :
                 ~(<<l, Encoding[q]>> \in kept[c] /\ Asked(l, q, call[c]))
  <2>1. ASSUME NEW e \in Keys \X a.wanted PROVE e \notin kept[c]
    <3>1. PICK l \in Keys, v \in a.wanted : e = <<l, v>>
      OBVIOUS
    <3>2. PICK q \in Releases : v = Encoding[q] /\ call[c].label \in {Nil, Label[q]}
      BY <1>3, <1>7
    <3>3. Asked(l, q, call[c])
      BY <1>7, <3>2 DEF Asked
    <3> QED
      BY <1>7, <3>1, <3>2, <3>3
  <2>2. a.kind = "list" /\ kept[c] \cap (Keys \X a.wanted) = {}
    BY <1>3, <1>7, <2>1
  <2> QED
    BY <1>1, <1>2, <1>4, <1>7, <2>2 DEF Storage!Refuse, Store, Pending
<1>8. CASE /\ call[c].kind = "create" /\ why = "exists"
           /\ index[call[c].key] # Nil
  <2>1. a.kind = "create" /\ Store[a.key] # Nil
    BY <1>3, <1>5, <1>8
  <2> QED
    BY <1>1, <1>2, <1>4, <1>8, <2>1 DEF Storage!Refuse, Store, Pending
<1> QED
  BY <1>6, <1>7, <1>8

LEMMA MapWrites ==
    ASSUME IInv, Awaited, NEW c \in Clients, call[c] # Nil,
           call[c].kind \in {"create", "update"}, Effect(c), NEW last, Writes(c, last),
           \A k \in Keys : last /\ k = call[c].key =>
              StoreValue(k)' = Encoding[call[c].release]
    PROVE  Storage!Work(c) \/ Storage!Fail(c) \/ Storage!Succeed(c)
<1>1. CASE Fail(c)
  BY <1>1, MapFail
<1>2. CASE last /\ Succeed(c, {})
  BY <1>2, MapSucceed
<1>3. CASE \E w : GoTo(c, "createChunks", w)
  BY <1>3, MapWork DEF GoTo
<1> QED
  BY <1>1, <1>2, <1>3 DEF Writes

-----------------------------------------------------------------------------
(* Every step of a client is one that the store allows                     *)

ClientStep(c) ==
    \/ Storage!Invoke(c) \/ Storage!Work(c) \/ Storage!Fail(c)
    \/ Storage!Succeed(c) \/ Storage!Refuse(c)

LEMMA Quiet ==
    ASSUME NEW c \in Clients, UNCHANGED secrets
    PROVE  Store' = Store /\ Effect(c)
BY StoreKept, NoEffect DEF secrets

LEMMA QuietFail ==
    ASSUME IInv, Awaited, NEW c \in Clients, call[c] # Nil, UNCHANGED secrets, Fail(c)
    PROVE  ClientStep(c)
BY Quiet, MapFail DEF ClientStep

LEMMA QuietGoTo ==
    ASSUME IInv, NEW c \in Clients, call[c] # Nil, UNCHANGED secrets,
           NEW step, NEW w, GoTo(c, step, w)
    PROVE  ClientStep(c)
BY Quiet, MapWork DEF ClientStep, GoTo

LEMMA QuietDecode ==
    ASSUME IInv, Awaited, NEW c \in Clients, call[c] # Nil, UNCHANGED secrets,
           NEW secret, NEW todo, NEW found, Decode(c, secret, todo, found)
    PROVE  ClientStep(c)
BY QuietFail, QuietGoTo DEF Decode

LEMMA BeginMaps ==
    ASSUME IInv, NEW c \in Clients, Begin(c)
    PROVE  ClientStep(c)
<1>1. call[c] = Nil /\ call \in [Clients -> Calls \cup {Nil}]
  BY DEF Begin, IInv, CallsFit, Typing
<1>2. PICK k \in Calls : /\ call' = [call EXCEPT ![c] = k]
                         /\ sure' = IF Changes(k.kind) THEN sure \ {k.key} ELSE sure
  BY DEF Begin
<1>3. Store' = Store /\ reply' = [reply EXCEPT ![c] = Nil]
  BY Quiet DEF Begin
<1>4. PICK a : a = AbstractCall(k)
  OBVIOUS
<1>5. /\ a \in Storage!Call /\ a # Nil /\ a.kind = k.kind
      /\ a.kind # "list" => a.key = k.key
  BY <1>4, AbstractIs
<1>6. Pending[c] = Nil /\ Pending' = [Pending EXCEPT ![c] = a] /\ Pending'[c] # Nil
  <2>1. \A d \in Clients : AbstractCall(call'[d]) = IF d = c THEN a ELSE AbstractCall(call[d])
    BY <1>1, <1>2, <1>4
  <2>2. Pending' = [Pending EXCEPT ![c] = a]
    BY <2>1 DEF Pending
  <2>3. Pending[c] = Nil
    BY <1>1 DEF Pending, AbstractCall
  <2>4. Pending'[c] = a
    BY <2>1 DEF Pending
  <2> QED
    BY <1>5, <2>2, <2>3, <2>4
<1>7. sure' = IF Storage!Changes(a) THEN sure \ {a.key} ELSE sure
  BY <1>2, <1>5 DEF Changes, Storage!Changes
<1>8. Storage!Invoke(c)
  BY <1>3, <1>5, <1>6, <1>7 DEF Storage!Invoke, Store, Pending
<1> QED
  BY <1>8 DEF ClientStep

LEMMA DieMaps ==
    ASSUME IInv, Awaited, NEW c \in Clients, Die(c)
    PROVE  ClientStep(c)
<1>1. call[c] # Nil /\ UNCHANGED secrets /\ Fail(c)
  BY CallOf DEF Die
<1> QED
  BY <1>1, QuietFail

LEMMA CreateIndexMaps ==
    ASSUME IInv, IInv', Awaited, NEW c \in Clients, CreateIndex(c)
    PROVE  ClientStep(c)
<1>1. PICK k, r : k = call[c].key /\ r = call[c].release
  OBVIOUS
<1>2. /\ call[c].kind = "create" /\ call[c] # Nil
      /\ k \in Keys /\ r \in Releases
      /\ \/ UNCHANGED secrets /\ Fail(c)
         \/ UNCHANGED secrets /\ Refuse(c, "exists") /\ index[k] # Nil
         \/ index[k] = Nil /\ IndexPut(k, r) /\ Writes(c, Len(Parts[r]) = 1)
  BY <1>1, CreateIndexDoes
<1>3. CASE UNCHANGED secrets /\ Fail(c)
  BY <1>2, <1>3, QuietFail
<1>4. CASE UNCHANGED secrets /\ Refuse(c, "exists") /\ index[k] # Nil
  BY <1>1, <1>2, <1>4, Quiet, MapRefuse DEF ClientStep
<1>5. CASE index[k] = Nil /\ IndexPut(k, r) /\ Writes(c, Len(Parts[r]) = 1)
  <2>1. Effect(c) /\ (Len(Parts[r]) = 1 => StoreValue(k)' = Encoding[r])
    BY <1>1, <1>2, <1>5, IndexPutEffect
  <2>2. \A l \in Keys : Len(Parts[r]) = 1 /\ l = call[c].key =>
           StoreValue(l)' = Encoding[call[c].release]
    BY <1>1, <2>1
  <2> QED
    BY <1>2, <1>5, <2>1, <2>2, MapWrites DEF ClientStep
<1> QED
  BY <1>2, <1>3, <1>4, <1>5

LEMMA UpdateIndexMaps ==
    ASSUME IInv, IInv', Awaited, NEW c \in Clients, UpdateIndex(c)
    PROVE  ClientStep(c)
<1>1. PICK k, r : k = call[c].key /\ r = call[c].release
  OBVIOUS
<1>2. /\ call[c].kind = "update" /\ call[c] # Nil
      /\ k \in Keys /\ r \in Releases /\ index[k] # Nil
      /\ IndexPut(k, r) /\ Writes(c, Len(Parts[r]) = 1)
  BY <1>1, UpdateIndexDoes
<1>3. Effect(c) /\ (Len(Parts[r]) = 1 => StoreValue(k)' = Encoding[r])
  BY <1>1, <1>2, IndexPutEffect
<1>4. \A l \in Keys : Len(Parts[r]) = 1 /\ l = call[c].key =>
         StoreValue(l)' = Encoding[call[c].release]
  BY <1>1, <1>3
<1> QED
  BY <1>2, <1>3, <1>4, MapWrites DEF ClientStep

LEMMA CreateChunkMaps ==
    ASSUME IInv, IInv', Awaited, NEW c \in Clients, CreateChunk(c)
    PROVE  ClientStep(c)
<1>1. PICK k, r : k = call[c].key /\ r = call[c].release
  OBVIOUS
<1>2. /\ call[c].kind \in {"create", "update"} /\ call[c] # Nil
      /\ k \in Keys /\ r \in Releases
      /\ \/ UNCHANGED secrets /\ Fail(c)
         \/ \E i \in 2..Len(Parts[r]) :
               ChunkPut(k, r, i) /\ Writes(c, i = Len(Parts[r]))
  BY <1>1, CreateChunkDoes
<1>3. CASE UNCHANGED secrets /\ Fail(c)
  BY <1>2, <1>3, QuietFail
<1>4. ASSUME NEW i \in 2..Len(Parts[r]), ChunkPut(k, r, i), Writes(c, i = Len(Parts[r]))
      PROVE  ClientStep(c)
  <2>1. Effect(c) /\ (i = Len(Parts[r]) => StoreValue(k)' = Encoding[r])
    BY <1>1, <1>2, <1>4, ChunkPutEffect
  <2>2. \A l \in Keys : i = Len(Parts[r]) /\ l = call[c].key =>
           StoreValue(l)' = Encoding[call[c].release]
    BY <1>1, <2>1
  <2> QED
    BY <1>2, <1>4, <2>1, <2>2, MapWrites DEF ClientStep
<1> QED
  BY <1>2, <1>3, <1>4

LEMMA DeleteOldChunksMaps ==
    ASSUME IInv, IInv', Awaited, NEW c \in Clients, DeleteOldChunks(c)
    PROVE  ClientStep(c)
<1>1. PICK k : k = call[c].key
  OBVIOUS
<1>2. /\ call[c].kind = "update" /\ call[c] # Nil
      /\ k \in Keys /\ index[k] # Nil
      /\ \/ ChunksGo(k) /\ UNCHANGED <<pc, call, work, reply, sure>>
         \/ UNCHANGED secrets /\ (Fail(c) \/ \E w : GoTo(c, "updateIndex", w))
  BY <1>1, DeleteOldChunksDoes
<1>3. CASE ChunksGo(k) /\ UNCHANGED <<pc, call, work, reply, sure>>
  <2>1. Effect(c)
    BY <1>1, <1>2, <1>3, ChunksGoEffect
  <2> QED
    BY <1>2, <1>3, <2>1, MapWork DEF ClientStep
<1>4. CASE UNCHANGED secrets /\ (Fail(c) \/ \E w : GoTo(c, "updateIndex", w))
  BY <1>2, <1>4, QuietFail, QuietGoTo
<1> QED
  BY <1>2, <1>3, <1>4

LEMMA GetIndexMaps ==
    ASSUME IInv, Awaited, NEW c \in Clients, GetIndex(c)
    PROVE  ClientStep(c)
<1>1. pc[c] = "getIndex" /\ UNCHANGED secrets
  BY DEF GetIndex
<1>2. /\ call[c] # Nil /\ call[c].kind \in {"get", "update", "delete"}
      /\ call[c].key \in Keys
  BY <1>1, CallOf DEF FitsAt
<1>3. CASE index[call[c].key] = Nil
  <2>1. Refuse(c, "notFound")
    BY <1>3 DEF GetIndex
  <2> QED
    BY <1>1, <1>2, <1>3, <2>1, Quiet, MapRefuse DEF ClientStep
<1>4. CASE index[call[c].key] # Nil
  BY <1>1, <1>2, <1>4, QuietGoTo, QuietDecode DEF GetIndex
<1> QED
  BY <1>3, <1>4

(* Where no index secret is listed, no release that is asked for has been  *)
(* there all the time.                                                     *)
LEMMA ListIndicesMaps ==
    ASSUME IInv, RInv, Awaited, NEW c \in Clients, ListIndices(c)
    PROVE  ClientStep(c)
<1>1. pc[c] = "listIndices" /\ UNCHANGED secrets
  BY DEF ListIndices
<1>2. call[c] # Nil /\ call[c].kind = "list"
  BY <1>1, CallOf DEF FitsAt
<1>3. SecretsFit /\ SecretsTyped
  BY DEF IInv, Typing, SecretsTyped
<1>4. CASE Listed(call[c].label) = {}
  <2>1. ASSUME NEW l \in Keys, NEW q \in Releases,
               <<l, Encoding[q]>> \in kept[c], Asked(l, q, call[c])
        PROVE  FALSE
    <3>1. <<l, Encoding[q]>> \in Contents
      BY <1>2, <2>1 DEF RInv, RecordsFit
    <3>2. Holds(l, q)
      BY <3>1, ContentsMember, DriverAssumption
    <3>3. IsOf(l, q)
      BY <1>3, <3>2, HoldsMeans
    <3> QED
      BY <1>2, <1>3, <1>4, <2>1, <3>3, ListedAre
  <2>2. CASE Succeed(c, {})
    BY <1>1, <1>2, <2>1, <2>2, Quiet, MapSucceed DEF ClientStep
  <2>3. CASE Refuse(c, "notFound")
    BY <1>1, <1>2, <2>1, <2>3, Quiet, MapRefuse DEF ClientStep
  <2> QED
    BY <1>4, <2>2, <2>3 DEF ListIndices, Listed
<1>5. CASE Listed(call[c].label) # {}
  BY <1>1, <1>2, <1>5, QuietDecode DEF ListIndices, Listed
<1> QED
  BY <1>4, <1>5

LEMMA GetChunkMaps ==
    ASSUME IInv, Awaited, NEW c \in Clients, GetChunk(c)
    PROVE  ClientStep(c)
<1>1. pc[c] = "getChunks" /\ UNCHANGED secrets
  BY DEF GetChunk
<1>2. call[c] # Nil
  BY <1>1, CallOf
<1> QED
  BY <1>1, <1>2, QuietFail, QuietGoTo DEF GetChunk

LEMMA DecodedMaps ==
    ASSUME IInv, RInv, Awaited, NEW c \in Clients, Decoded(c)
    PROVE  ClientStep(c)
<1>1. pc[c] = "getChunks" /\ UNCHANGED secrets
  BY DEF Decoded
<1>2. PICK w \in Locals : /\ work[c] = w /\ w.secret # Nil /\ Reading(c, w)
                          /\ call[c] # Nil /\ call[c].kind \in {"get", "delete", "list"}
                          /\ (call[c].kind # "list" => call[c].key \in Keys)
  BY <1>1, InReading
<1>3. w.names = <<>>
  BY <1>2 DEF Decoded
<1>4. PICK found : found = w.found \cup {<<w.secret.key, w.read>>}
  OBVIOUS
<1>5. PICK k \in Keys, r \in Releases : FoundWhole(c, w, found, k, r)
  BY <1>2, <1>3, <1>4, FoundNow
<1>6. CASE w.todo = {} /\ call[c].kind # "delete" /\ Succeed(c, found)
  <2>1. found \in SUBSET held[c]
    BY <1>5 DEF FoundWhole
  <2>2. call[c].kind = "get" => \E q \in Releases : found = {<<call[c].key, Encoding[q]>>}
    BY <1>5 DEF FoundWhole, Asked
  <2>3. call[c].kind = "list" =>
           /\ \A e \in found : \E l \in Keys, q \in Releases :
                 e = <<l, Encoding[q]>> /\ Asked(l, q, call[c])
           /\ \A l \in Keys, q \in Releases :
                 <<l, Encoding[q]>> \in kept[c] /\ Asked(l, q, call[c])
                    => <<l, Encoding[q]>> \in found
    BY <1>5, <1>6 DEF FoundWhole
  <2> QED
    BY <1>1, <1>2, <1>6, <2>1, <2>2, <2>3, Quiet, MapSucceed DEF ClientStep
<1>7. CASE \E next \in w.todo : Decode(c, next, w.todo \ {next}, found)
  BY <1>1, <1>2, <1>7, QuietDecode
<1>8. CASE \E v : GoTo(c, "deleteAll", v)
  BY <1>1, <1>2, <1>8, QuietGoTo
<1> QED
  BY <1>2, <1>4, <1>6, <1>7, <1>8 DEF Decoded

LEMMA DeleteAllMaps ==
    ASSUME IInv, IInv', RInv, NEW c \in Clients, DeleteAll(c)
    PROVE  ClientStep(c)
<1>1. PICK k : k = call[c].key
  OBVIOUS
<1>2. /\ c = Writer /\ call[c].kind = "delete" /\ call[c] # Nil
      /\ k \in Keys /\ Deleting(k, work[c].found)
      /\ \/ IndexDropped(k) /\ UNCHANGED <<pc, call, work, reply, sure>>
         \/ ChunksGo(k) /\ UNCHANGED <<pc, call, work, reply, sure>>
         \/ /\ UNCHANGED secrets /\ index[k] = Nil
            /\ Succeed(c, work[c].found)
  BY <1>1, DeleteAllDoes
<1>3. PICK r \in Releases : /\ work[c].found = {<<k, Encoding[r]>>}
                            /\ <<k, Encoding[r]>> \in held[c]
  BY <1>2 DEF Deleting
<1>4. CASE IndexDropped(k) /\ UNCHANGED <<pc, call, work, reply, sure>>
  <2>1. Effect(c)
    BY <1>1, <1>2, <1>3, <1>4, IndexDroppedEffect
  <2> QED
    BY <1>2, <1>4, <2>1, MapWork DEF ClientStep
<1>5. CASE ChunksGo(k) /\ UNCHANGED <<pc, call, work, reply, sure>>
  <2>1. Effect(c)
    BY <1>1, <1>2, <1>3, <1>5, ChunksGoEffect
  <2> QED
    BY <1>2, <1>5, <2>1, MapWork DEF ClientStep
<1>6. CASE UNCHANGED secrets /\ index[k] = Nil /\ Succeed(c, work[c].found)
  <2>1. SecretsFit' /\ SecretsTyped' /\ index'[k] = Nil
    BY <1>6 DEF IInv, Typing, SecretsTyped, secrets
  <2>2. StoreValue(k)' = Nil
    BY <1>2, <2>1, ValueThen
  <2>3. \A l \in Keys : l = call[c].key => StoreValue(l)' = Nil
    BY <1>1, <2>2
  <2>4. work[c].found \in SUBSET held[c]
    BY <1>3
  <2>5. \E q \in Releases : work[c].found = {<<call[c].key, Encoding[q]>>}
    BY <1>1, <1>3
  <2> QED
    BY <1>2, <1>6, <2>3, <2>4, <2>5, Quiet, MapSucceed DEF ClientStep
<1> QED
  BY <1>2, <1>4, <1>5, <1>6

-----------------------------------------------------------------------------
(* The refinement                                                          *)

(* The names that an index secret has for the chunks after the first.      *)
LEMMA NameOfPart ==
    ASSUME SecretsFit, NEW k \in Keys, NEW r \in Releases, IsOf(k, r),
           NEW i \in 2..Len(Parts[r])
    PROVE  /\ i - 1 \in 1..Len(index[k].extraChunks)
           /\ index[k].extraChunks[i - 1] = <<k, Parts[r][i]>>
<1>1. PICK u \in Nat : index[k] = IndexSecret(k, r, u)
  BY DEF IsOf, SecretsFit
<1>2. /\ Len(Parts[r]) \in Nat \ {0}
      /\ Len(index[k].extraChunks) = Len(Parts[r]) - 1
      /\ \A j \in 1..Len(Parts[r]) - 1 :
            index[k].extraChunks[j] = <<k, Parts[r][j + 1]>>
  BY <1>1, StoredNames
<1>3. i - 1 \in 1..Len(Parts[r]) - 1 /\ (i - 1) + 1 = i
  BY <1>2
<1> QED
  BY <1>2, <1>3

(* What Kubernetes collects is part of no release whose last write was     *)
(* acknowledged.                                                           *)
LEMMA CollectMaps ==
    ASSUME IInv, IInv', RInv, Collect
    PROVE  Storage!Decay \/ (Store' = Store /\ UNCHANGED <<call, reply, sure>>)
<1>1. SecretsFit /\ SecretsTyped /\ SecretsFit' /\ SecretsTyped'
  BY DEF IInv, Typing, SecretsTyped
<1>2. PICK s \in Orphans : chunks' = chunks \ {s}
  BY DEF Collect
<1>3. s \in chunks /\ UNCHANGED <<index, call, reply, sure>>
  BY DEF Collect, Orphans
<1>4. PICK k \in Keys : k = s.key
  BY <1>1, <1>3 DEF SecretsTyped
<1>5. ChunksGo(k)
  BY <1>2, <1>3, <1>4 DEF ChunksGo, Shrunk
<1>6. /\ Store' = [Store EXCEPT ![k] = StoreValue(k)']
      /\ StoreValue(k)' \in {StoreValue(k), Torn}
      /\ StoreValue(k)' # StoreValue(k) => StoreValue(k) \in Values
  BY <1>5, ChunksGoValues
<1>7. CASE StoreValue(k)' = StoreValue(k)
  BY <1>3, <1>6, <1>7, StoreSame
<1>8. CASE StoreValue(k)' # StoreValue(k)
  <2>1. StoreValue(k) \in Values /\ Store' = [Store EXCEPT ![k] = Torn]
    BY <1>6, <1>8
  <2>2. PICK r \in Releases : StoreValue(k) = Encoding[r]
    BY <2>1 DEF Values
  <2>3. Holds(k, r)
    BY <1>1, <2>2, ValueIs
  <2>4. IsOf(k, r) /\ \A i \in 2..Len(Parts[r]) : There(k, r, i)
    BY <1>1, <2>3, HoldsMeans
  <2>5. k \notin sure
    <3> SUFFICES ASSUME k \in sure PROVE FALSE
      OBVIOUS
    <3>1. Complete(k)
      BY <2>4 DEF IInv, SureFits, IsOf
    <3>2. ASSUME NEW i \in 2..Len(Parts[r]) PROVE There(k, r, i)'
      <4>1. /\ i - 1 \in 1..Len(index[k].extraChunks)
            /\ index[k].extraChunks[i - 1] = <<k, Parts[r][i]>>
        BY <1>1, <2>4, NameOfPart
      <4>2. PICK t \in chunks : t.name = <<k, Parts[r][i]>> /\ t.owner = index[k].uid
        BY <3>1, <4>1 DEF Complete
      <4>3. t # s
        BY <2>4, <4>2, <1>2 DEF Orphans, IsOf
      <4> QED
        BY <1>2, <4>2, <4>3 DEF There, Stored
    <3>3. IsOf(k, r)'
      BY <1>3, <2>4 DEF IsOf
    <3>4. Holds(k, r)'
      BY <1>1, <3>2, <3>3, HoldsThen
    <3>5. StoreValue(k)' = Encoding[r]
      BY <1>1, <3>4, ValueThen
    <3> QED
      BY <1>8, <2>2, <3>5
  <2>6. Store[k] \in Values
    BY <2>1 DEF Store
  <2>7. Pending' = Pending
    BY <1>3 DEF Pending
  <2>8. Storage!Decay
    BY <1>3, <2>1, <2>5, <2>6, <2>7 DEF Storage!Decay, Store, Pending, Values
  <2> QED
    BY <2>8
<1> QED
  BY <1>6, <1>7, <1>8

LEMMA StoreStarts == Init => Storage!Init
<1> SUFFICES ASSUME Init PROVE Storage!Init
  OBVIOUS
<1>1. Store = [k \in Keys |-> Nil]
  BY DEF Init, Store, StoreValue
<1>2. Pending = [c \in Clients |-> Nil]
  BY DEF Init, Pending, AbstractCall
<1> QED
  BY <1>1, <1>2 DEF Init, Storage!Init, Store, Pending

LEMMA StepMaps ==
    IInv /\ IInv' /\ RInv /\ Awaited /\ [Next]_vars => [Storage!Next]_(Storage!vars)
<1> SUFFICES ASSUME IInv, IInv', RInv, Awaited, [Next]_vars
             PROVE  [Storage!Next]_(Storage!vars)
  OBVIOUS
<1>1. ASSUME NEW c \in Clients, Begin(c) \/ Request(c) \/ Die(c)
      PROVE  Storage!Next
  <2>1. ClientStep(c)
    BY <1>1, BeginMaps, DieMaps, CreateIndexMaps, UpdateIndexMaps, CreateChunkMaps,
       DeleteOldChunksMaps, GetIndexMaps, ListIndicesMaps, GetChunkMaps, DecodedMaps,
       DeleteAllMaps DEF Request
  <2>2. Storage!Remember
    BY <1>1, StepRemembers, RememberMaps
  <2> QED
    BY <2>1, <2>2 DEF Storage!Next, ClientStep
<1>2. ASSUME Store' = Store, UNCHANGED <<call, reply, sure, past, held, kept>>
      PROVE  UNCHANGED Storage!vars
  <2>1. Pending' = Pending
    BY <1>2 DEF Pending
  <2> QED
    BY <1>2, <2>1 DEF Storage!vars, Store, Pending
<1>3. CASE Collect
  <2>1. Remember
    BY <1>3 DEF Collect
  <2>2. CASE Storage!Decay
    BY <2>1, <2>2, RememberMaps DEF Storage!Next
  <2>3. CASE Store' = Store /\ UNCHANGED <<call, reply, sure>>
    <3>1. Contents' = Contents
      <4>1. Contents = Storage!Contents(Store) /\ Contents' = Storage!Contents(Store)'
        BY ContentsAre, ContentsThen DEF IInv, Typing, SecretsTyped
      <4> QED
        BY <2>3, <4>1 DEF Storage!Contents
    <3>2. UNCHANGED <<past, held, kept>>
      BY <2>1, <2>3, <3>1, NothingNew DEF RInv
    <3> QED
      BY <1>2, <2>3, <3>2
  <2> QED
    BY <1>3, <2>2, <2>3, CollectMaps
<1>4. CASE UNCHANGED vars
  <2>1. Store' = Store /\ UNCHANGED <<call, reply, sure, past, held, kept>>
    BY <1>4, StoreKept DEF vars, secrets
  <2> QED
    BY <1>2, <2>1
<1> QED
  BY <1>1, <1>3, <1>4 DEF Next

(* The driver of chunked.go is the storage its users may rely on: whatever *)
(* is lost, whenever a client dies or garbage is collected, and for any    *)
(* releases and chunk size, each of its steps is one that ReleaseStore     *)
(* allows, or changes nothing there.                                       *)
THEOREM DriverImplementsStore == Spec => ImplementsReleaseStore
BY StoreStarts, StepMaps, Invariance, ReadInvariance, RepliesAwaited, PTL
   DEF Spec, ImplementsReleaseStore, Storage!Spec

=============================================================================
