----------------------------- MODULE ActorsProofs -----------------------------
(***************************************************************************)
(* Proofs about Actors for any actors, documents and orders of fetching.   *)
(* Nothing is assumed of the key ids that documents name: what depends on  *)
(* them is the condition of a claim (WithOwnIds, Undisputed).              *)
(***************************************************************************)
EXTENDS Actors, TLAPS

(* Of two actors that both publish an id, neither has it alone. *)
LEMMA OwnIdHasOneActor ==
  ASSUME NEW u \in Uris, NEW v \in Uris, NEW i,
         i \in KeyIds(u), i \in KeyIds(v),
         u \in WithOwnIds \/ v \in WithOwnIds
  PROVE  u = v
  BY DEF WithOwnIds

LEMMA DocumentsKey ==
  ASSUME NEW d \in Documents, d.key # NoKey
  PROVE  /\ d.uri \in Uris
         /\ d.key \in Keys
         /\ d.key \in KeysOf(d.uri)
         /\ d.key.id \in KeyIds(d.uri)
<1>1. d.uri \in Uris /\ d.key \in Keys
      BY DocumentsAssumption DEF Keys
<1>2. d.key \in KeysOf(d.uri)
      BY DEF KeysOf
<1> QED
    BY <1>1, <1>2 DEF KeyIds

LEMMA GeneratedKey ==
  ASSUME NEW u \in Locals
  PROVE  /\ u \in Uris
         /\ LocalKey[u] \in Keys
         /\ LocalKey[u] # NoKey
         /\ LocalKey[u] \in KeysOf(u)
         /\ LocalKey[u].id \in KeyIds(u)
<1>1. u \in Uris /\ LocalKey[u] \in Keys /\ LocalKey[u] # NoKey
      BY DocumentsAssumption DEF Uris, Keys
<1>2. LocalKey[u] \in KeysOf(u)
      BY DEF KeysOf
<1> QED
    BY <1>1, <1>2 DEF KeyIds

(* What an upsert of a key does to a row: nothing, or the row has the id   *)
(* of the document's key and gets that key, or it is the document's        *)
(* actor's own and new, and nobody had the id.                             *)
LEMMA StoreKeyEffect ==
  ASSUME TypeOK, NEW d \in Documents, StoreKey(d), NEW u \in Uris
  PROVE  \/ key'[u] = key[u] /\ (d.key = NoKey \/ ~HasKeyId(u, d.key.id))
         \/ d.key # NoKey /\ key'[u] = d.key /\ HasKeyId(u, d.key.id)
         \/ /\ d.key # NoKey /\ key'[u] = d.key
            /\ u = d.uri /\ key[u] = NoKey /\ KeyIdIsFree(d.key.id)
<1>1. CASE d.key = NoKey
      BY <1>1 DEF StoreKey
<1>2. CASE d.key # NoKey
  <2>1. key'[u] = IF \/ HasKeyId(u, d.key.id)
                     \/ u = d.uri /\ KeyIdIsFree(d.key.id)
                  THEN d.key ELSE key[u]
        BY <1>2 DEF StoreKey
  <2>2. KeyIdIsFree(d.key.id) => key[d.uri] = NoKey
        BY <1>2 DEF StoreKey, KeyFits
  <2> QED
      BY <1>2, <2>1, <2>2
<1> QED
    BY <1>1, <1>2

(* A profile is of its actor, and a key or a profile is of a row. *)
ProfilesAreOwn ==
    \A u \in Uris :
        /\ profile[u] # NoDocument => profile[u].uri = u
        /\ u \notin actors =>
            profile[u] = NoDocument /\ key[u] = NoKey /\ handle[u] = NoHandle

IInv ==
    /\ TypeOK
    /\ KeysAreOwn
    /\ ProfilesAreOwn
    /\ ProfileMatchesKey
    /\ LocalsCanSign

LEMMA IInvInit == Init => IInv
  BY DEF Init, IInv, TypeOK, KeysAreOwn, ProfilesAreOwn, ProfileMatchesKey, LocalsCanSign,
         IsLocal, WithOwnIds

LEMMA CreateLocalKeeps ==
  ASSUME IInv, NEW u \in Locals, CreateLocal(u)
  PROVE  IInv'
<1>0. /\ u \in Uris /\ LocalKey[u] \in Keys /\ LocalKey[u] # NoKey
      /\ LocalKey[u] \in KeysOf(u) /\ LocalKey[u].id \in KeyIds(u)
      BY GeneratedKey
<1>1. TypeOK'
      BY <1>0 DEF IInv, CreateLocal, TypeOK
<1>2. KeysAreOwn'
      BY <1>0 DEF IInv, CreateLocal, TypeOK, KeysAreOwn
<1>3. ProfilesAreOwn'
      BY <1>0 DEF IInv, CreateLocal, TypeOK, ProfilesAreOwn
<1>4. ProfileMatchesKey'
      BY <1>0 DEF IInv, CreateLocal, TypeOK, ProfilesAreOwn, ProfileMatchesKey, WithOwnIds
<1>5. LocalsCanSign'
  <2> SUFFICES ASSUME NEW v \in Uris, IsLocal(v)' \/ private'[v]
               PROVE  /\ v \in Locals
                      /\ IsLocal(v)' /\ private'[v]
                      /\ HasKeyId(v, LocalKey[v].id)'
                      /\ v \in Undisputed => key'[v] = LocalKey[v]
      BY DEF LocalsCanSign
  <2>1. CASE v = u
    <3>1. handle[u] = NoHandle
          BY <1>0 DEF IInv, TypeOK, CreateLocal, ProfilesAreOwn
    <3> QED
        BY <1>0, <2>1, <3>1 DEF IInv, CreateLocal, TypeOK, IsLocal, HasKeyId
  <2>2. CASE v # u
    <3>1. /\ key'[v] = key[v] /\ private'[v] = private[v]
          /\ IsLocal(v)' <=> IsLocal(v)
          BY <1>0, <2>2 DEF IInv, CreateLocal, TypeOK, IsLocal
    <3> QED
        BY <3>1 DEF IInv, LocalsCanSign, HasKeyId
  <2> QED
      BY <2>1, <2>2
<1> QED
    BY <1>1, <1>2, <1>3, <1>4, <1>5 DEF IInv

LEMMA StubKeeps ==
  ASSUME IInv, NEW u \in Remotes, Stub(u)
  PROVE  IInv'
<1>0. u \in Uris /\ StubHandle[u] \in Handles /\ StubHandle[u] # NoHandle
      BY DocumentsAssumption DEF Uris, Handles
<1>1. TypeOK'
      BY <1>0 DEF IInv, Stub, TypeOK
<1>2. KeysAreOwn' /\ ProfilesAreOwn' /\ ProfileMatchesKey'
      BY DEF IInv, Stub, KeysAreOwn, ProfilesAreOwn, ProfileMatchesKey
<1>3. LocalsCanSign'
  <2> SUFFICES ASSUME NEW v \in Uris, IsLocal(v)' \/ private'[v]
               PROVE  /\ v \in Locals
                      /\ IsLocal(v)' /\ private'[v]
                      /\ HasKeyId(v, LocalKey[v].id)'
                      /\ v \in Undisputed => key'[v] = LocalKey[v]
      BY DEF LocalsCanSign
  <2>1. key' = key /\ private' = private
        BY DEF Stub
  <2>2. CASE v = u
    <3>1. ~IsLocal(u)'
          BY <1>0 DEF IInv, Stub, TypeOK, IsLocal
    <3>2. ~private[u]
          BY <1>0 DEF IInv, Stub, LocalsCanSign, IsLocal
    <3> QED
        BY <2>1, <2>2, <3>1, <3>2
  <2>3. CASE v # u
    <3>1. IsLocal(v)' <=> IsLocal(v)
          BY <1>0, <2>3 DEF IInv, Stub, TypeOK, IsLocal
    <3> QED
        BY <2>1, <3>1 DEF IInv, LocalsCanSign, HasKeyId
  <2> QED
      BY <2>2, <2>3
<1> QED
    BY <1>1, <1>2, <1>3 DEF IInv

LEMMA UpsertKeeps ==
  ASSUME IInv, NEW d \in Documents, UpsertRemote(d)
  PROVE  IInv'
<1>0. /\ d.uri \in Uris /\ d.handle \in Handles /\ d.handle # NoHandle /\ d # NoDocument
      /\ d.key # NoKey => d.key \in Keys
      BY DocumentsAssumption, DocumentsKey DEF Handles
<1>1. StoreKey(d) /\ private' = private
      BY DEF UpsertRemote, StoreKey
<1>2. /\ actors' = actors \union {d.uri}
      /\ profile' = [profile EXCEPT ![d.uri] = d]
      /\ \/ d.uri \in actors /\ handle' = handle
         \/ d.uri \notin actors /\ handle' = [handle EXCEPT ![d.uri] = d.handle]
      /\ keyError' = keyError
      BY DEF UpsertRemote, StoreRow
<1>3. TypeOK'
  <2>1. actors' \subseteq Uris /\ keyError' \in BOOLEAN /\ private' \in [Uris -> BOOLEAN]
        BY <1>0, <1>1, <1>2 DEF IInv, TypeOK
  <2>2. handle' \in [Uris -> Handles \union {NoHandle}]
        BY <1>0, <1>2 DEF IInv, TypeOK
  <2>3. profile' \in [Uris -> Documents \union {NoDocument}]
        BY <1>0, <1>2 DEF IInv, TypeOK
  <2>4. key' \in [Uris -> Keys \union {NoKey}]
        BY <1>0, <1>1 DEF IInv, TypeOK, StoreKey
  <2> QED
      BY <2>1, <2>2, <2>3, <2>4 DEF TypeOK
<1>4. KeysAreOwn'
  <2> SUFFICES ASSUME NEW u \in Uris, key'[u] # NoKey
               PROVE  /\ key'[u].id \in KeyIds(u)
                      /\ u \in WithOwnIds => key'[u] \in KeysOf(u)
      BY DEF KeysAreOwn
  <2>1. CASE key'[u] = key[u]
        BY <2>1 DEF IInv, KeysAreOwn
  <2>2. CASE d.key # NoKey /\ key'[u] = d.key /\ HasKeyId(u, d.key.id)
    <3>1. d.key.id \in KeyIds(u)
          BY <2>2 DEF IInv, KeysAreOwn, HasKeyId
    <3>2. u \in WithOwnIds => u = d.uri
          BY <2>2, <3>1, DocumentsKey, OwnIdHasOneActor
    <3> QED
        BY <2>2, <3>1, <3>2, DocumentsKey
  <2>3. CASE d.key # NoKey /\ key'[u] = d.key /\ u = d.uri
        BY <2>3, DocumentsKey
  <2> QED
      BY <1>1, <2>1, <2>2, <2>3, StoreKeyEffect DEF IInv
<1>5. ProfilesAreOwn'
  <2> SUFFICES ASSUME NEW u \in Uris
               PROVE  /\ profile'[u] # NoDocument => profile'[u].uri = u
                      /\ u \notin actors' =>
                            profile'[u] = NoDocument /\ key'[u] = NoKey /\ handle'[u] = NoHandle
      BY DEF ProfilesAreOwn
  <2>1. profile'[u] # NoDocument => profile'[u].uri = u
        BY <1>0, <1>2 DEF IInv, TypeOK, ProfilesAreOwn
  <2>2. ASSUME u \notin actors'
        PROVE  profile'[u] = NoDocument /\ key'[u] = NoKey /\ handle'[u] = NoHandle
    <3>1. /\ u # d.uri /\ key[u] = NoKey
          /\ profile'[u] = NoDocument /\ handle'[u] = NoHandle
          BY <1>0, <1>2, <2>2 DEF IInv, TypeOK, ProfilesAreOwn
    <3> QED
        BY <1>1, <3>1, StoreKeyEffect DEF IInv, HasKeyId
  <2> QED
      BY <2>1, <2>2
<1>6. ProfileMatchesKey'
  <2> SUFFICES ASSUME NEW u \in WithOwnIds, profile'[u] # NoDocument, profile'[u].key # NoKey
               PROVE  key'[u] = profile'[u].key
      BY DEF ProfileMatchesKey
  <2>0. u \in Uris
        BY DEF WithOwnIds
  (* Whoever has an id that u publishes is u. *)
  <2>a. ASSUME NEW v \in Uris, NEW i \in KeyIds(u), HasKeyId(v, i)
        PROVE  v = u
        BY <2>0, <2>a, OwnIdHasOneActor DEF IInv, KeysAreOwn, HasKeyId
  <2>1. CASE u = d.uri
    <3>1. profile'[u] = d /\ d.key # NoKey
          BY <1>0, <1>2, <2>1 DEF IInv, TypeOK
    <3>2. d.key.id \in KeyIds(u)
          BY <2>1, <3>1, DocumentsKey
    <3>3. \/ HasKeyId(u, d.key.id)
          \/ KeyIdIsFree(d.key.id)
          BY <2>a, <3>2 DEF KeyIdIsFree
    <3> QED
        BY <1>1, <2>0, <2>1, <3>1, <3>3 DEF StoreKey
  <2>2. CASE u # d.uri
    <3>1. profile'[u] = profile[u]
          BY <1>0, <1>2, <2>0, <2>2 DEF IInv, TypeOK
    <3>2. key[u] = profile[u].key
          BY <3>1 DEF IInv, ProfileMatchesKey
    <3>3. d.key # NoKey => ~HasKeyId(u, d.key.id)
          BY <2>0, <2>2, DocumentsKey, OwnIdHasOneActor DEF IInv, KeysAreOwn, HasKeyId
    <3> QED
        BY <1>1, <2>0, <2>2, <3>1, <3>2, <3>3, StoreKeyEffect DEF IInv
  <2> QED
      BY <2>1, <2>2
<1>7. LocalsCanSign'
  <2> SUFFICES ASSUME NEW u \in Uris, IsLocal(u)' \/ private'[u]
               PROVE  /\ u \in Locals
                      /\ IsLocal(u)' /\ private'[u]
                      /\ HasKeyId(u, LocalKey[u].id)'
                      /\ u \in Undisputed => key'[u] = LocalKey[u]
      BY DEF LocalsCanSign
  <2>1. IsLocal(u) \/ private[u]
        BY <1>0, <1>1, <1>2 DEF IInv, TypeOK, IsLocal
  <2>2. /\ u \in Locals
        /\ IsLocal(u) /\ private[u]
        /\ HasKeyId(u, LocalKey[u].id)
        /\ u \in Undisputed => key[u] = LocalKey[u]
        BY <2>1 DEF IInv, LocalsCanSign
  <2>3. IsLocal(u)' /\ private'[u]
        BY <1>0, <1>1, <1>2, <2>2 DEF IInv, TypeOK, IsLocal
  <2>4. CASE key'[u] = key[u]
        BY <2>2, <2>3, <2>4 DEF HasKeyId
  <2>5. CASE d.key # NoKey /\ key'[u] = d.key /\ HasKeyId(u, d.key.id)
    <3>1. d.key.id = LocalKey[u].id
          BY <2>2, <2>5 DEF HasKeyId
    <3>2. u \in Undisputed => d.key = LocalKey[u]
          BY <2>5, <3>1 DEF Undisputed
    <3> QED
        BY <2>2, <2>3, <2>5, <3>1, <3>2 DEF HasKeyId
  <2> QED
      BY <1>1, <2>2, <2>4, <2>5, StoreKeyEffect DEF IInv, HasKeyId
<1> QED
    BY <1>3, <1>4, <1>5, <1>6, <1>7 DEF IInv

LEMMA IInvNext == IInv /\ [Next]_vars => IInv'
<1> SUFFICES ASSUME IInv, [Next]_vars
             PROVE  IInv'
    OBVIOUS
<1>1. ASSUME NEW d \in Documents, UpsertFails(d)
      PROVE  IInv'
      BY <1>1 DEF UpsertFails, IInv, TypeOK, KeysAreOwn, ProfilesAreOwn, ProfileMatchesKey,
                  LocalsCanSign, IsLocal, HasKeyId
<1>2. CASE UNCHANGED vars
      BY <1>2 DEF vars, IInv, TypeOK, KeysAreOwn, ProfilesAreOwn, ProfileMatchesKey,
                  LocalsCanSign, IsLocal, HasKeyId
<1> QED
    BY <1>1, <1>2, CreateLocalKeeps, StubKeeps, UpsertKeeps DEF Next

THEOREM IInvHolds == Spec => []IInv
<1> QED
    BY IInvInit, IInvNext, PTL DEF Spec

(* Rows, handles, profiles and keys are of the right kind. *)
THEOREM TypeCorrect == Spec => []TypeOK
<1>1. IInv => TypeOK
      BY DEF IInv
<1> QED
    BY <1>1, IInvHolds, PTL

(* The id of a stored key is always one of its actor's, and id and PEM are *)
(* a pair that the actor published if nobody else publishes its ids.       *)
THEOREM KeysSafe == Spec => []KeysAreOwn
<1>1. IInv => KeysAreOwn
      BY DEF IInv
<1> QED
    BY <1>1, IInvHolds, PTL

(* Profile and key of an actor whose ids nobody else publishes never come  *)
(* from different documents that both have a key.                          *)
THEOREM ProfilesSafe == Spec => []ProfileMatchesKey
<1>1. IInv => ProfileMatchesKey
      BY DEF IInv
<1> QED
    BY <1>1, IInvHolds, PTL

(* Whatever is fetched, local actors keep their private key and its id; and*)
(* the public key, if no document shows that id with another PEM.          *)
THEOREM SigningSafe == Spec => []LocalsCanSign
<1>1. IInv => LocalsCanSign
      BY DEF IInv
<1> QED
    BY <1>1, IInvHolds, PTL
=============================================================================
