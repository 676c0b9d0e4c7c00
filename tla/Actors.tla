-------------------------------- MODULE Actors --------------------------------
(***************************************************************************)
(* Rows of ap_actors and ap_keys: local actors and their key pairs, stubs  *)
(* of remote actors that sent an activity, and the documents of actors     *)
(* that an application fetches and hands to ap_upsert_remote_actor         *)
(* (src/actors.rs, resolve_actor_id in src/activities.rs).                 *)
(*                                                                         *)
(* An actor publishes several documents in the course of time, with        *)
(* another profile or another key.  They are fetched and stored in any     *)
(* order, any number of times: the code compares neither their age nor the *)
(* key id they name with those of other actors.  What holds of an actor's  *)
(* key therefore depends on who else names its id: the claims below say    *)
(* so, and nothing is assumed of it.                                       *)
(***************************************************************************)
EXTENDS FiniteSets

CONSTANTS
    Locals,     \* URIs of actors that may be created here
    Remotes,    \* URIs of actors of other servers
    Documents,  \* [uri, handle, key, version]: documents actors publish
    LocalKey,   \* LocalKey[u]: the key pair generated for local actor u
    StubHandle, \* StubHandle[u]: last segment of the URI, and its domain
    NoHandle, NoKey, NoDocument

Uris    == Locals \union Remotes
Handles == {d.handle : d \in Documents} \union {StubHandle[u] : u \in Remotes}
Keys    == ({d.key : d \in Documents} \ {NoKey}) \union {LocalKey[u] : u \in Locals}

ASSUME DocumentsAssumption ==
    /\ Locals \intersect Remotes = {}
    /\ \A d \in Documents : d.uri \in Uris
    /\ NoKey \notin {LocalKey[u] : u \in Locals}
    /\ NoHandle \notin Handles
    /\ NoDocument \notin Documents

VARIABLES
    actors,   \* URIs with a row in ap_actors
    handle,   \* username and domain of the row; NoHandle: no row, or a NULL domain
    profile,  \* the document the other columns of the row are from
    key,      \* key_id and public_key_pem of the actor's row in ap_keys
    private,  \* private_key_pem of that row is not NULL
    keyError  \* observation: an upsert failed to store the key

vars == <<actors, handle, profile, key, private, keyError>>

TypeOK ==
    /\ actors   \subseteq Uris
    /\ handle   \in [Uris -> Handles \union {NoHandle}]
    /\ profile  \in [Uris -> Documents \union {NoDocument}]
    /\ key      \in [Uris -> Keys \union {NoKey}]
    /\ private  \in [Uris -> BOOLEAN]
    /\ keyError \in BOOLEAN

Init ==
    /\ actors   = {}
    /\ handle   = [u \in Uris |-> NoHandle]
    /\ profile  = [u \in Uris |-> NoDocument]
    /\ key      = [u \in Uris |-> NoKey]
    /\ private  = [u \in Uris |-> FALSE]
    /\ keyError = FALSE

-----------------------------------------------------------------------------
HasKeyId(u, i) == key[u] # NoKey /\ key[u].id = i
KeyIdIsFree(i) == \A u \in Uris : ~HasKeyId(u, i)

(* ap_create_local_actor: the row, without domain, and its key pair.  URI  *)
(* and key_id are UNIQUE; UNIQUE(username, domain) does not bind a NULL    *)
(* domain.                                                                 *)
CreateLocal(u) ==
    /\ u \notin actors
    /\ KeyIdIsFree(LocalKey[u].id)
    /\ actors'  = actors \union {u}
    /\ key'     = [key EXCEPT ![u] = LocalKey[u]]
    /\ private' = [private EXCEPT ![u] = TRUE]
    /\ UNCHANGED <<handle, profile, keyError>>

(* WHERE domain IS NULL. *)
IsLocal(u) == u \in actors /\ handle[u] = NoHandle

HandleIsFree(h) == \A v \in Uris : handle[v] # h

(* resolve_actor_id for a sender without row. *)
Stub(u) ==
    /\ u \notin actors
    /\ HandleIsFree(StubHandle[u])
    /\ actors' = actors \union {u}
    /\ handle' = [handle EXCEPT ![u] = StubHandle[u]]
    /\ UNCHANGED <<profile, key, private, keyError>>

(* The row of a document: inserted, or found by its URI and updated.  The  *)
(* update leaves username and domain as they are.                          *)
StoreRow(d) ==
    /\ \/ d.uri \in actors /\ UNCHANGED handle
       \/ /\ d.uri \notin actors
          /\ HandleIsFree(d.handle)
          /\ handle' = [handle EXCEPT ![d.uri] = d.handle]
    /\ actors'  = actors \union {d.uri}
    /\ profile' = [profile EXCEPT ![d.uri] = d]

(* Either the key's id has a row, or the actor has none: actor_id and      *)
(* key_id are both UNIQUE, and the upsert is by key_id.                    *)
KeyFits(d) == ~KeyIdIsFree(d.key.id) \/ key[d.uri] = NoKey

(* Mutants of StoreKey: the upsert is by actor_id and keeps the old id; it *)
(* sets all columns of the row, private_key_pem to NULL.                   *)
StoreKeyByActor(d) ==
    /\ key' = IF d.key = NoKey THEN key
              ELSE IF key[d.uri] = NoKey THEN [key EXCEPT ![d.uri] = d.key]
              ELSE [key EXCEPT ![d.uri].pem = d.key.pem]
    /\ UNCHANGED private
StoreKeyAllColumns(d) ==
    /\ d.key # NoKey => KeyFits(d)
    /\ IF d.key = NoKey THEN UNCHANGED <<key, private>>
       ELSE /\ key' = [key EXCEPT ![d.uri] = d.key]
            /\ private' = [private EXCEPT ![d.uri] = FALSE]

(* INSERT INTO ap_keys ... ON CONFLICT (key_id) DO UPDATE SET              *)
(* public_key_pem, for a document with a key: whoever has the id gets the  *)
(* PEM, the document's actor a row only if nobody has.                     *)
StoreKey(d) ==
    /\ \/ d.key = NoKey /\ UNCHANGED key
       \/ /\ d.key # NoKey
          /\ KeyFits(d)
          /\ key' = [u \in Uris |->
                        IF \/ HasKeyId(u, d.key.id)
                           \/ u = d.uri /\ KeyIdIsFree(d.key.id)
                        THEN d.key ELSE key[u]]
    /\ UNCHANGED private

(* Mutant of UpsertRemote: an error of the second statement is ignored.    *)
UpsertKeepsRow(d) ==
    /\ StoreRow(d)
    /\ \/ StoreKey(d)
       \/ d.key # NoKey /\ ~KeyFits(d) /\ UNCHANGED <<key, private>>
    /\ UNCHANGED keyError

(* ap_upsert_remote_actor: both statements in one transaction. *)
UpsertRemote(d) ==
    /\ StoreRow(d)
    /\ StoreKey(d)
    /\ UNCHANGED keyError

(* The same when the key violates UNIQUE(actor_id): nothing is stored. *)
UpsertFails(d) ==
    /\ d.key # NoKey
    /\ ~KeyFits(d)
    /\ keyError' = TRUE
    /\ UNCHANGED <<actors, handle, profile, key, private>>

(* Nobody can show a generated key before it was generated. *)
IsPossible(d) == \A u \in Locals : d.key = LocalKey[u] => IsLocal(u)

Next ==
    \/ \E u \in Locals : CreateLocal(u)
    \/ \E u \in Remotes : Stub(u)
    \/ \E d \in Documents : IsPossible(d) /\ (UpsertRemote(d) \/ UpsertFails(d))

Spec == Init /\ [][Next]_vars

-----------------------------------------------------------------------------
(* The keys of an actor: those it publishes, and the one generated for it. *)
KeysOf(u) ==
    {d.key : d \in {e \in Documents : e.uri = u /\ e.key # NoKey}}
    \union (IF u \in Locals THEN {LocalKey[u]} ELSE {})
KeyIds(u) == {k.id : k \in KeysOf(u)}

(* Actors whose key ids nobody else publishes, as those with one key per   *)
(* actor; all actors of a server that shows one key for all are not.       *)
WithOwnIds == {u \in Uris : \A v \in Uris \ {u} : KeyIds(u) \intersect KeyIds(v) = {}}

(* The id of a stored key is one that its actor published, or that was     *)
(* made for it.  If nobody else publishes an id of that actor, id and PEM  *)
(* are such a pair: who looks its key up gets the right one, whatever      *)
(* documents were stored in between.  The code checks no document for the  *)
(* ids of others; without the condition the PEM may be another's.          *)
KeysAreOwn ==
    \A u \in Uris : key[u] # NoKey =>
        /\ key[u].id \in KeyIds(u)
        /\ u \in WithOwnIds => key[u] \in KeysOf(u)

(* Profile and key of a row are from the same document, if that has a key, *)
(* of an actor whose key ids nobody else publishes: an upsert that cannot  *)
(* store the key stores nothing.                                           *)
ProfileMatchesKey ==
    \A u \in WithOwnIds :
        profile[u] # NoDocument /\ profile[u].key # NoKey => key[u] = profile[u].key

(* Local actors whose key id no document, of any actor, shows with another *)
(* PEM.                                                                    *)
Undisputed ==
    {u \in Locals :
        \A d \in Documents : d.key # NoKey /\ d.key.id = LocalKey[u].id => d.key = LocalKey[u]}

(* A row without domain, and no other, has a private key, and the key id   *)
(* made for it: what ap_get_pending_deliveries joins with is there for     *)
(* every delivery of a local actor, also after its own document was stored *)
(* over its row.  The public key beside it is the one that fits as long as *)
(* no document shows that id with another PEM, which the code accepts.     *)
LocalsCanSign ==
    \A u \in Uris : IsLocal(u) \/ private[u] =>
        /\ u \in Locals
        /\ IsLocal(u) /\ private[u]
        /\ HasKeyId(u, LocalKey[u].id)
        /\ u \in Undisputed => key[u] = LocalKey[u]

-----------------------------------------------------------------------------
(* actors.rs, of ap_upsert_remote_actor: "stores/updates the public key if *)
(* present".                                                               *)
UpsertStoresKey == ~keyError
=============================================================================
