--------------------------- MODULE ChunkedSecrets ---------------------------
(***************************************************************************)
(* pkg/storage/chunked.go: a Helm storage driver that keeps a release in   *)
(* an index secret, which holds the first chunk of the encoded release and *)
(* the names of the others, and one secret for each of the other chunks.   *)
(* No two releases end in the same chunk: the last one holds the end of    *)
(* the compressed data and its checksum.                                   *)
(*                                                                         *)
(* A driver call is cut at every request to the API server.  One client    *)
(* writes, as Helm's storage does under the operator's single worker, and  *)
(* the readers' calls go on meanwhile; a read of the worker itself is a    *)
(* reader's call that falls between two writes.  A request can be lost, or *)
(* only its reply, and a client can die in a call.                         *)
(***************************************************************************)
EXTENDS Naturals, Sequences, FiniteSets

CONSTANTS
    Readers, Writer,    \* the clients of the storage
    Keys, Nil, Torn,
    Releases,
    Encoding,           \* the gzipped JSON of a release, as a sequence of bytes
    Label,              \* what an index secret's labels say of the release
    ChunkSize, MaxReadChunks, MaxWriteChunks,   \* ChunkedSecretsConfig
    MaxWrites, MaxReads,    \* bound: calls of the storage
    MaxFaults           \* bound: lost requests and replies, deaths of clients

Bytes == UNION {{Encoding[r][i] : i \in 1..Len(Encoding[r])} : r \in Releases}

ASSUME DriverAssumption ==
    /\ Writer \notin Readers
    /\ \A r \in Releases : Encoding[r] \in Seq(Bytes) \ {<<>>}
    /\ \A r, s \in Releases : Encoding[r] = Encoding[s] => r = s
    /\ ChunkSize \in Nat \ {0}
    /\ MaxReadChunks \in Nat /\ MaxWriteChunks \in Nat
    /\ MaxWrites \in Nat /\ MaxReads \in Nat /\ MaxFaults \in Nat

Clients == Readers \cup {Writer}
Labels == {Label[r] : r \in Releases}

VARIABLES
    index,      \* the index secret of each key, or Nil
    chunks,     \* the chunk secrets
    born,       \* how many index secrets have been created
    pc,         \* the request each client makes next
    call,       \* the driver call it is in, or Nil
    work,       \* the locals of that call
    reply,      \* the reply to its last call
    sure,       \* history: the keys whose last write was acknowledged
    past,       \* history: what keys hold, and what one whose last write was
                \* not acknowledged has held since one was
    held,       \* history: what was, during the call, in past
    kept,       \* history: what they held at every moment of it
    writes, reads, faults

secrets == <<index, chunks, born>>
calls   == <<writes, reads>>
budget  == <<calls, faults>>
vars    == <<secrets, pc, call, work, reply, sure, past, held, kept, budget>>

-----------------------------------------------------------------------------
(* Encoding                                                                *)

(* Mutant: a chunk is named by its position.                               *)
ChunkNameByPosition(key, i, data) == <<key, i>>

(* A chunk is named by the hash of its data.                               *)
ChunkName(key, i, data) == <<key, data>>

(* The loop of encodeReleaseAsChunks.                                      *)
Split(data) ==
    LET n == (Len(data) + ChunkSize - 1) \div ChunkSize
        end(i) == IF i = n THEN Len(data) ELSE i * ChunkSize
    IN  [i \in 1..n |-> SubSeq(data, (i - 1) * ChunkSize + 1, end(i))]

Parts == [r \in Releases |-> Split(Encoding[r])]

(* What compression is relied on for: after its first chunk a release has  *)
(* no chunk twice, and its last chunk is in no other release.              *)
ASSUME CompressionAssumption ==
    \A r, s \in Releases :
        \A i \in 2..Len(Parts[r]), j \in 2..Len(Parts[s]) :
            /\ Parts[r][i] = Parts[s][j]
            /\ r = s \/ i = Len(Parts[r])
            => r = s /\ i = j

TooLarge(n, max) == max > 0 /\ n > max

(* The chunks after the first, with their names.                           *)
ExtraChunks(key, r) ==
    LET parts == Parts[r]
    IN  [i \in 1..Len(parts) - 1 |->
            [name |-> ChunkName(key, i + 1, parts[i + 1]), data |-> parts[i + 1]]]

Names(extra) == [i \in 1..Len(extra) |-> extra[i].name]

IndexSecret(key, r, uid) ==
    [key |-> key, uid |-> uid, label |-> Label[r],
     chunk |-> Parts[r][1], extraChunks |-> Names(ExtraChunks(key, r))]

(* Mutant: a chunk has no owner reference.                                 *)
ChunkSecretUnowned(key, uid, extra) ==
    [name |-> extra.name, data |-> extra.data, key |-> key, owner |-> Nil]

ChunkSecret(key, uid, extra) ==
    [name |-> extra.name, data |-> extra.data, key |-> key, owner |-> uid]

-----------------------------------------------------------------------------
(* What a key holds, for somebody who could read it all at once.           *)

Stored(name) == \E s \in chunks : s.name = name
DataOf(name) == (CHOOSE s \in chunks : s.name = name).data

Holds(key, r) ==
    /\ index[key] # Nil
    /\ LET parts == Parts[r]
       IN  /\ index[key].chunk = parts[1]
           /\ Len(index[key].extraChunks) = Len(parts) - 1
           /\ \A i \in 1..Len(parts) - 1 :
                 /\ Stored(index[key].extraChunks[i])
                 /\ DataOf(index[key].extraChunks[i]) = parts[i + 1]

Contents == {<<e[1], Encoding[e[2]]>> :
                e \in {f \in Keys \X Releases : Holds(f[1], f[2])}}

-----------------------------------------------------------------------------
Calls == [kind : {"create", "update"}, key : Keys, release : Releases]
            \cup [kind : {"get", "delete"}, key : Keys]
            \cup [kind : {"list"}, label : Labels \cup {Nil}]

(* secret: the index secret at work; extra: the chunks to create; names:   *)
(* those to read; read: what has been read; todo: the index secrets still  *)
(* to decode; found: the releases decoded.                                 *)
NoWork == [secret |-> Nil, extra |-> <<>>, names |-> <<>>, read |-> <<>>,
           todo |-> {}, found |-> {}]

Init ==
    /\ index = [k \in Keys |-> Nil] /\ chunks = {} /\ born = 0
    /\ pc = [c \in Clients |-> "idle"]
    /\ call = [c \in Clients |-> Nil]
    /\ work = [c \in Clients |-> NoWork]
    /\ reply = [c \in Clients |-> Nil]
    /\ sure = {}
    /\ past = {}
    /\ held = [c \in Clients |-> {}]
    /\ kept = [c \in Clients |-> {}]
    /\ writes = 0 /\ reads = 0 /\ faults = 0

Changes(k) == k \in {"create", "update", "delete"}

Fault == faults < MaxFaults /\ faults' = faults + 1
NoFault == UNCHANGED faults

GoTo(c, step, w) ==
    /\ pc' = [pc EXCEPT ![c] = step]
    /\ work' = [work EXCEPT ![c] = w]
    /\ UNCHANGED <<call, reply, sure>>

Return(c, answer) ==
    /\ pc' = [pc EXCEPT ![c] = "idle"]
    /\ call' = [call EXCEPT ![c] = Nil]
    /\ work' = [work EXCEPT ![c] = NoWork]
    /\ reply' = [reply EXCEPT ![c] = answer]

Fail(c) == Return(c, Nil) /\ UNCHANGED sure
Refuse(c, why) == Return(c, <<why, {}>>) /\ UNCHANGED sure
Succeed(c, answer) ==
    /\ Return(c, <<"ok", answer>>)
    /\ sure' = IF Changes(call[c].kind) THEN sure \cup {call[c].key} ELSE sure

(* History: what each client might, and must, have seen in its call.       *)
Remember ==
    LET now == Contents' IN
    /\ past' = now \cup {e \in past : e[1] \notin sure'}
    /\ held' = [c \in Clients |-> IF call'[c] = Nil THEN {} ELSE held[c] \cup past']
    /\ kept' = [c \in Clients |->
                   CASE call'[c] = Nil -> {}
                     [] call'[c] # Nil /\ call[c] = Nil -> now
                     [] OTHER -> kept[c] \cap now]

(* A driver call begins.                                                   *)
Begin(c) ==
    /\ pc[c] = "idle"
    /\ \E k \in Calls :
          /\ \/ /\ Changes(k.kind) /\ c = Writer
                /\ writes < MaxWrites /\ writes' = writes + 1
                /\ UNCHANGED reads
             \/ /\ ~Changes(k.kind) /\ c # Writer
                /\ reads < MaxReads /\ reads' = reads + 1
                /\ UNCHANGED writes
          /\ call' = [call EXCEPT ![c] = k]
          /\ pc' = [pc EXCEPT ![c] = CASE k.kind = "create" -> "createIndex"
                                       [] k.kind = "list" -> "listIndices"
                                       [] OTHER -> "getIndex"]
          /\ sure' = IF Changes(k.kind) THEN sure \ {k.key} ELSE sure
    /\ reply' = [reply EXCEPT ![c] = Nil]
    /\ UNCHANGED <<secrets, work, faults>>
    /\ Remember

(* A request is lost, or the client dies.                                  *)
Die(c) ==
    /\ pc[c] # "idle"
    /\ Fault
    /\ Fail(c)
    /\ UNCHANGED <<secrets, calls>>
    /\ Remember

-----------------------------------------------------------------------------
(* Create and Update                                                       *)

(* The index is stored; its chunks follow.                                 *)
StoreIndex(c, secret, extra) ==
    /\ index' = [index EXCEPT ![secret.key] = secret]
    /\ \/ /\ NoFault
          /\ IF extra = <<>> THEN Succeed(c, {})
             ELSE GoTo(c, "createChunks",
                       [NoWork EXCEPT !.secret = secret, !.extra = extra])
       \/ Fault /\ Fail(c)                              \* lost reply
    /\ UNCHANGED <<chunks, calls>>

(* A release that is too large is refused before any request is made.      *)
CreateIndex(c) ==
    /\ pc[c] = "createIndex"
    /\ LET key == call[c].key
           r == call[c].release
       IN  \/ /\ TooLarge(Len(Parts[r]), MaxWriteChunks)
              /\ Fail(c)
              /\ UNCHANGED <<secrets, budget>>
           \/ /\ ~TooLarge(Len(Parts[r]), MaxWriteChunks)
              /\ index[key] # Nil
              /\ Refuse(c, "exists")
              /\ UNCHANGED <<secrets, budget>>
           \/ /\ ~TooLarge(Len(Parts[r]), MaxWriteChunks)
              /\ index[key] = Nil
              /\ born' = born + 1
              /\ StoreIndex(c, IndexSecret(key, r, born + 1), ExtraChunks(key, r))
    /\ Remember

(* The next chunk; that its secret exists already is an error.             *)
CreateChunk(c) ==
    /\ pc[c] = "createChunks"
    /\ LET w == work[c]
           extra == Head(w.extra)
           rest == Tail(w.extra)
       IN  \/ /\ Stored(extra.name)
              /\ Fail(c)
              /\ UNCHANGED <<secrets, budget>>
           \/ /\ ~Stored(extra.name)
              /\ chunks' = chunks \cup
                    {ChunkSecret(w.secret.key, w.secret.uid, extra)}
              /\ \/ /\ NoFault
                    /\ IF rest = <<>> THEN Succeed(c, {})
                       ELSE GoTo(c, "createChunks", [w EXCEPT !.extra = rest])
                 \/ Fault /\ Fail(c)                    \* lost reply
              /\ UNCHANGED <<index, born, calls>>
    /\ Remember

(* Mutant: the chunks of the old release are kept.                         *)
KeepOldChunks(c) ==
    /\ pc[c] = "deleteChunks"
    /\ IF TooLarge(Len(Parts[call[c].release]), MaxWriteChunks)
       THEN Fail(c) ELSE GoTo(c, "updateIndex", work[c])
    /\ UNCHANGED <<secrets, budget>>
    /\ Remember

(* DeleteCollection takes the chunks one by one; after it the new release  *)
(* is encoded, and only now found to be too large.                         *)
DeleteOldChunks(c) ==
    /\ pc[c] = "deleteChunks"
    /\ LET old == {s \in chunks : s.key = call[c].key}
           r == call[c].release
       IN  \/ /\ \E s \in old : chunks' = chunks \ {s}
              /\ UNCHANGED <<pc, call, work, reply, sure, budget>>
           \/ /\ old = {}
              /\ IF TooLarge(Len(Parts[r]), MaxWriteChunks)
                 THEN Fail(c) ELSE GoTo(c, "updateIndex", work[c])
              /\ UNCHANGED <<chunks, budget>>
    /\ UNCHANGED <<index, born>>
    /\ Remember

UpdateIndex(c) ==
    /\ pc[c] = "updateIndex"
    /\ LET key == call[c].key
           r == call[c].release
       IN  StoreIndex(c, IndexSecret(key, r, index[key].uid), ExtraChunks(key, r))
    /\ UNCHANGED born
    /\ Remember

-----------------------------------------------------------------------------
(* Get, Delete, List and Query                                             *)

(* decodeRelease begins with what the index secret holds.                  *)
Decode(c, secret, todo, found) ==
    IF TooLarge(1 + Len(secret.extraChunks), MaxReadChunks) THEN Fail(c)
    ELSE GoTo(c, "getChunks",
              [NoWork EXCEPT !.secret = secret, !.names = secret.extraChunks,
                             !.read = secret.chunk, !.todo = todo,
                             !.found = found])

GetIndex(c) ==
    /\ pc[c] = "getIndex"
    /\ LET secret == index[call[c].key] IN
       \/ /\ secret = Nil
          /\ Refuse(c, "notFound")
       \/ /\ secret # Nil /\ call[c].kind = "update"
          /\ GoTo(c, "deleteChunks", NoWork)
       \/ /\ secret # Nil /\ call[c].kind # "update"
          /\ Decode(c, secret, {}, {})
    /\ UNCHANGED <<secrets, budget>>
    /\ Remember

(* List asks for every index secret (label Nil), Query for those with a    *)
(* label.                                                                  *)
ListIndices(c) ==
    /\ pc[c] = "listIndices"
    /\ LET listed == {index[k] : k \in
              {k \in Keys : index[k] # Nil
                  /\ call[c].label \in {Nil, index[k].label}}}
       IN  \/ /\ listed = {}
              /\ IF call[c].label = Nil THEN Succeed(c, {})
                 ELSE Refuse(c, "notFound")
           \/ \E first \in listed : Decode(c, first, listed \ {first}, {})
    /\ UNCHANGED <<secrets, budget>>
    /\ Remember

GetChunk(c) ==
    /\ pc[c] = "getChunks"
    /\ LET w == work[c] IN
       /\ w.names # <<>>
       /\ \/ /\ ~Stored(Head(w.names))
             /\ Fail(c)
          \/ /\ Stored(Head(w.names))
             /\ GoTo(c, "getChunks",
                     [w EXCEPT !.names = Tail(w.names),
                               !.read = w.read \o DataOf(Head(w.names))])
    /\ UNCHANGED <<secrets, budget>>
    /\ Remember

(* Mutant: a list ends with its first release.                             *)
DecodedFirst(c) ==
    /\ pc[c] = "getChunks"
    /\ work[c].names = <<>>
    /\ LET w == work[c]
           found == {<<w.secret.key, w.read>>}
       IN  \/ call[c].kind # "delete" /\ Succeed(c, found)
           \/ call[c].kind = "delete" /\ GoTo(c, "deleteAll", [w EXCEPT !.found = found])
    /\ UNCHANGED <<secrets, budget>>
    /\ Remember

(* A release is complete: the next one, or what the call is about.  The    *)
(* decoder stops at the end of the JSON; that it needs every chunk for it  *)
(* is assumed, so no chunk may hold nothing but the end of gzip's trailer. *)
Decoded(c) ==
    /\ pc[c] = "getChunks"
    /\ work[c].names = <<>>
    /\ LET w == work[c]
           found == w.found \cup {<<w.secret.key, w.read>>}
       IN  \/ \E next \in w.todo : Decode(c, next, w.todo \ {next}, found)
           \/ /\ w.todo = {} /\ call[c].kind # "delete"
              /\ Succeed(c, found)
           \/ /\ w.todo = {} /\ call[c].kind = "delete"
              /\ GoTo(c, "deleteAll", [w EXCEPT !.found = found])
    /\ UNCHANGED <<secrets, budget>>
    /\ Remember

(* DeleteCollection takes index and chunks one by one, in any order.       *)
DeleteAll(c) ==
    /\ pc[c] = "deleteAll"
    /\ LET key == call[c].key
           old == {s \in chunks : s.key = key}
       IN  \/ /\ index[key] # Nil
              /\ index' = [index EXCEPT ![key] = Nil]
              /\ UNCHANGED <<chunks, pc, call, work, reply, sure>>
           \/ /\ \E s \in old : chunks' = chunks \ {s}
              /\ UNCHANGED <<index, pc, call, work, reply, sure>>
           \/ /\ index[key] = Nil /\ old = {}
              /\ Succeed(c, work[c].found)
              /\ UNCHANGED <<index, chunks>>
    /\ UNCHANGED <<born, budget>>
    /\ Remember

-----------------------------------------------------------------------------
(* Kubernetes collects a secret whose owner is gone.                       *)
Orphans ==
    {s \in chunks : s.owner # Nil
        /\ \A k \in Keys : index[k] = Nil \/ index[k].uid # s.owner}

Collect ==
    /\ \E s \in Orphans : chunks' = chunks \ {s}
    /\ UNCHANGED <<index, born, pc, call, work, reply, sure, budget>>
    /\ Remember

Request(c) ==
    \/ CreateIndex(c) \/ CreateChunk(c) \/ DeleteOldChunks(c) \/ UpdateIndex(c)
    \/ GetIndex(c) \/ ListIndices(c) \/ GetChunk(c) \/ Decoded(c) \/ DeleteAll(c)

Next ==
    \/ \E c \in Clients : Begin(c) \/ Request(c) \/ Die(c)
    \/ Collect

Spec == Init /\ [][Next]_vars

(* Kubernetes collects garbage; nobody has to call, or to end a call.      *)
FairSpec == Spec /\ WF_vars(Collect)

-----------------------------------------------------------------------------
(* The driver is the storage its users may rely on.                        *)

StoreValue(k) ==
    IF index[k] = Nil THEN Nil
    ELSE IF \E r \in Releases : Holds(k, r)
         THEN Encoding[CHOOSE r \in Releases : Holds(k, r)]
         ELSE Torn

AbstractCall(k) ==
    CASE k = Nil -> Nil
      [] k # Nil /\ k.kind \in {"create", "update"} ->
           [kind |-> k.kind, key |-> k.key, value |-> Encoding[k.release]]
      [] k # Nil /\ k.kind = "list" ->
           [kind |-> "list",
            wanted |-> {Encoding[r] : r \in
                          {x \in Releases : k.label \in {Nil, Label[x]}}}]
      [] OTHER -> k

Storage == INSTANCE ReleaseStore WITH
    Values <- {Encoding[r] : r \in Releases},
    store <- [k \in Keys |-> StoreValue(k)],
    pending <- [c \in Clients |-> AbstractCall(call[c])]

(* No call, secret, reply or value is taken for Nil or Torn.               *)
ASSUME NilAssumption ==
    /\ Nil \notin Calls /\ Nil \notin Storage!Call
    /\ Nil \notin [key : Keys, uid : Nat, label : Labels, chunk : Seq(Bytes),
                   extraChunks : Seq(Keys \X Seq(Bytes))]
    /\ Nil \notin {"ok", "notFound", "exists"} \X SUBSET (Keys \X Seq(Bytes))
    /\ \A r \in Releases : Encoding[r] # Nil /\ Encoding[r] # Torn
    /\ Nil # Torn

(* Whatever is lost, and whenever a client dies: a read returns what the   *)
(* store held as a whole while it was made, or had held since the last     *)
(* acknowledged write of the key; an acknowledged write stays as it was    *)
(* written, not found and exists are true, and a key changes only by a     *)
(* call made for it.                                                       *)
ImplementsReleaseStore == Storage!Spec

TypeOK ==
    /\ \A k \in Keys : index[k] # Nil =>
          /\ index[k].key = k
          /\ index[k].uid \in 1..born
          /\ index[k].label \in Labels
          /\ index[k].chunk \in Seq(Bytes)
    /\ \A s \in chunks : s.key \in Keys /\ s.owner \in 1..born /\ s.data \in Seq(Bytes)
    /\ \A s, t \in chunks : s.name = t.name => s = t
    /\ \A c \in Clients :
          /\ call[c] \in Calls \cup {Nil}
          /\ call[c] = Nil <=> pc[c] = "idle"
    /\ sure \subseteq Keys

(* No chunk is left behind: one that is owned by an index secret is named  *)
(* by it, so that reading, updating or deleting the release reaches it.    *)
NoLeakedChunk ==
    \A s \in chunks : \A k \in Keys :
        index[k] # Nil /\ index[k].uid = s.owner
            => \E i \in 1..Len(index[k].extraChunks) :
                  index[k].extraChunks[i] = s.name

(* An update repairs what a failed call has torn: where no request fails,  *)
(* it fails itself only if there is no such release, or its new form is    *)
(* too large; chunks that were left behind are not in its way.  Delete has *)
(* no such promise: it decodes the release first.                          *)
UpdateRepairs ==
    [][\A c \in Clients :
         /\ call[c] # Nil /\ call[c].kind = "update"
         /\ call'[c] = Nil /\ faults' = faults
         => \/ reply'[c] # Nil /\ reply'[c][1] \in {"ok", "notFound"}
            \/ TooLarge(Len(Parts[call[c].release]), MaxWriteChunks)]_vars

(* Chunks whose index is gone do not stay, even if nobody calls again.     *)
OrphansAreCollected ==
    \A k \in Keys : []<>(index[k] = Nil => \A s \in chunks : s.key # k)
=============================================================================
