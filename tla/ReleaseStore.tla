---------------------------- MODULE ReleaseStore ----------------------------
(***************************************************************************)
(* What the users of pkg/storage's release storage may rely on.            *)
(*                                                                         *)
(* A key holds nothing, a stored value, or a torn one: a write that does   *)
(* not come to its end may leave the key torn, and only an Update mends    *)
(* it, as Delete has to read what it deletes.  But a value that is read    *)
(* was in the store, as a whole, at a moment during the call, or before it *)
(* with no acknowledged write of the key since then; a list that is        *)
(* returned misses nothing that stayed; a write that was acknowledged      *)
(* stays; and a key changes only by a call that was made for it, except    *)
(* that an unacknowledged value may still decay.                           *)
(***************************************************************************)
CONSTANTS Clients,  \* the users of the storage
          Keys,     \* keys of releases
          Values,   \* encoded releases
          Nil, Torn

VARIABLES store,    \* what each key holds
          sure,     \* the keys whose last write was acknowledged
          pending,  \* the call each client is in, or Nil
          reply,    \* the reply to its last call
          past,     \* what keys hold, and what one whose last write was not
                    \* acknowledged has held since one was
          held,     \* what has been in past since it began
          kept      \* what they held at every moment since then

vars == <<store, sure, pending, reply, past, held, kept>>

Call == [kind : {"create", "update"}, key : Keys, value : Values]
            \cup [kind : {"get", "delete"}, key : Keys] \cup [kind : {"list"}, wanted : SUBSET Values]

Contents(s) == {e \in Keys \X Values : s[e[1]] = e[2]}

Changes(call) == call.kind \in {"create", "update", "delete"}

Init ==
    /\ store = [k \in Keys |-> Nil]
    /\ sure = {}
    /\ pending = [c \in Clients |-> Nil]
    /\ reply = [c \in Clients |-> Nil]
    /\ past = {}
    /\ held = [c \in Clients |-> {}]
    /\ kept = [c \in Clients |-> {}]

(* Every client remembers what it might have seen, and must have seen.     *)
Remember ==
    LET now == Contents(store') IN
    /\ past' = now \cup {e \in past : e[1] \notin sure'}
    /\ held' = [c \in Clients |->
                   IF pending'[c] = Nil THEN {} ELSE held[c] \cup past']
    /\ kept' = [c \in Clients |->
                   CASE pending'[c] = Nil -> {}
                     [] pending'[c] # Nil /\ pending[c] = Nil -> now
                     [] OTHER -> kept[c] \cap now]

Invoke(c) ==
    /\ pending[c] = Nil /\ pending'[c] # Nil
    /\ \E call \in Call :
          /\ pending' = [pending EXCEPT ![c] = call]
          /\ sure' = IF Changes(call) THEN sure \ {call.key} ELSE sure
    /\ reply' = [reply EXCEPT ![c] = Nil]
    /\ UNCHANGED store

(* What the store may become by a call under way.                          *)
Outcomes(c) ==
    LET call == pending[c]
    IN  {store} \cup
        {[store EXCEPT ![call.key] = v] :
            v \in CASE call.kind = "create" -> {call.value, Torn}
                    [] call.kind = "update" /\ store[call.key] # Nil ->
                         {call.value, Torn}
                    [] call.kind = "delete"
                         /\ \E x \in Values : <<call.key, x>> \in held[c] ->
                         {Nil, Torn}
                    [] OTHER -> {}}

(* A create finds nothing, or what itself has begun to store.              *)
Permitted(c) ==
    LET call == pending[c]
    IN  call.kind = "create" /\ store' # store
          => \/ store[call.key] = Nil
             \/ store[call.key] = Torn /\ store'[call.key] = call.value

Work(c) ==
    /\ pending[c] # Nil
    /\ UNCHANGED <<sure, pending, reply>>
    /\ store' \in Outcomes(c)
    /\ Permitted(c)

(* A call that fails, or whose client dies, may have had its effect.       *)
Fail(c) ==
    /\ pending[c] # Nil
    /\ pending' = [pending EXCEPT ![c] = Nil]
    /\ UNCHANGED <<sure, reply>>
    /\ store' \in Outcomes(c)
    /\ Permitted(c)

Succeed(c) ==
    /\ pending[c] # Nil
    /\ pending' = [pending EXCEPT ![c] = Nil]
    /\ store' \in Outcomes(c)
    /\ Permitted(c)
    /\ LET call == pending[c] IN
       /\ call.kind \in {"create", "update"} => store'[call.key] = call.value
       /\ call.kind = "delete" => store'[call.key] = Nil
       /\ sure' = IF Changes(call) THEN sure \cup {call.key} ELSE sure
       /\ \E answer \in SUBSET held[c] :
             /\ call.kind \in {"get", "delete"}
                   => \E v \in Values : answer = {<<call.key, v>>}
             /\ call.kind = "list"
                   => /\ answer \subseteq Keys \X call.wanted
                      /\ kept[c] \cap (Keys \X call.wanted) \subseteq answer
             /\ reply' = [reply EXCEPT ![c] = <<"ok", answer>>]

(* Not found means that there is nothing, and exists that there is.        *)
Refuse(c) ==
    /\ pending[c] # Nil
    /\ pending' = [pending EXCEPT ![c] = Nil]
    /\ UNCHANGED <<store, sure>>
    /\ LET call == pending[c] IN
       \/ /\ call.kind \in {"get", "update", "delete"}
          /\ store[call.key] = Nil
          /\ reply' = [reply EXCEPT ![c] = <<"notFound", {}>>]
       \/ /\ call.kind = "list"
          /\ kept[c] \cap (Keys \X call.wanted) = {}
          /\ reply' = [reply EXCEPT ![c] = <<"notFound", {}>>]
       \/ /\ call.kind = "create"
          /\ store[call.key] # Nil
          /\ reply' = [reply EXCEPT ![c] = <<"exists", {}>>]

Decay ==
    /\ UNCHANGED <<sure, pending, reply>>
    /\ \E k \in Keys \ sure :
          store[k] \in Values /\ store' = [store EXCEPT ![k] = Torn]

Next ==
    /\ \/ \E c \in Clients :
             Invoke(c) \/ Work(c) \/ Fail(c) \/ Succeed(c) \/ Refuse(c)
       \/ Decay
    /\ Remember

Spec == Init /\ [][Next]_vars
=============================================================================
