------------------------ MODULE HttpSignatureProofs ------------------------
(***************************************************************************)
(* Proofs about HttpSignature: requests leave the rows and keys of Actors  *)
(* alone; when a request is accepted; and what this server signs it        *)
(* accepts.  For any actors, documents, URLs, bodies and shapes of header, *)
(* lists of any length included.                                           *)
(***************************************************************************)
EXTENDS HttpSignature, ActorsProofs

(* Signed requests store nothing: what is proved of Actors holds of the    *)
(* server that verifies them.                                              *)
THEOREM SignaturesAreActors == HSpec => Spec
<1>1. HInit => Init
      BY DEF HInit
<1>2. [HNext]_<<vars, request>> => [Next]_vars
      BY DEF HNext, Deliver, Arrive, Alter, AlterBody, Forget, vars
<1> QED
    BY <1>1, <1>2, PTL DEF HSpec, Spec

-----------------------------------------------------------------------------
(* The text to sign. *)

(* The same text from two sets of known parts and two requests, if what is *)
(* covered is in both sets and is the same in both requests.               *)
LEMMA LinesAgree ==
  ASSUME NEW list \in Seq(Parts), NEW S, NEW T, NEW v, NEW w,
         \A i \in DOMAIN list :
            list[i] \in S /\ list[i] \in T /\ v[list[i]] = w[list[i]]
  PROVE  Lines(list, S, v) = Lines(list, T, w)
<1>1. ASSUME NEW i \in DOMAIN list
      PROVE  {k \in 1..i : list[k] \in S} = {k \in 1..i : list[k] \in T}
  <2>1. 1..i \subseteq DOMAIN list
        BY <1>1
  <2> QED
      BY <2>1
<1>2. {j \in DOMAIN list : list[j] \in S} = DOMAIN list
      OBVIOUS
<1>3. {j \in DOMAIN list : list[j] \in T} = DOMAIN list
      OBVIOUS
<1> DEFINE L(S_, v_, i) ==
        <<Cardinality({k \in 1..i : list[k] \in S_}), list[i], v_[list[i]]>>
<1>4. \A i \in DOMAIN list : L(S, v, i) = L(T, w, i)
      BY <1>1
<1>5. Lines(list, S, v) = {L(S, v, i) : i \in DOMAIN list}
      BY <1>2 DEF Lines
<1>6. Lines(list, T, w) = {L(T, w, i) : i \in DOMAIN list}
      BY <1>3 DEF Lines
<1> HIDE DEF L
<1> QED
    BY <1>4, <1>5, <1>6

(* A text that is the same with the known parts only covers none but those,*)
(* and covers them with the values they were signed with.                  *)
LEMMA LinesDetermine ==
  ASSUME NEW list \in Seq(Parts), NEW v, NEW w,
         Lines(list, Parts, v) = Lines(list, Known, w),
         NEW i \in DOMAIN list
  PROVE  list[i] \in Known /\ v[list[i]] = w[list[i]]
<1> DEFINE n(S, j) == Cardinality({k \in 1..j : list[k] \in S})
<1>1. list[i] \in Parts
      OBVIOUS
<1>2. <<n(Parts, i), list[i], v[list[i]]>> \in Lines(list, Known, w)
      BY <1>1 DEF Lines
<1>3. PICK j \in DOMAIN list :
        /\ list[j] \in Known
        /\ <<n(Parts, i), list[i], v[list[i]]>> = <<n(Known, j), list[j], w[list[j]]>>
      BY <1>2 DEF Lines
<1> HIDE DEF n
<1> QED
    BY <1>3

LEMMA OwnList == /\ Own \in Seq(Parts)
                 /\ \A i \in DOMAIN Own : Own[i] \in Known
  BY DEF Own, Parts, Known

-----------------------------------------------------------------------------
(* Whoever signed a request had its key at hand, the header says what was  *)
(* signed, and that includes the digest of the body that was sent.         *)
(* Deliveries of this server are signed with the generated keys.           *)
RequestInv ==
    request # NoRequest =>
        /\ request = [signer |-> request.signer, pem |-> request.pem,
                      parts |-> request.parts, signed |-> request.signed,
                      body |-> request.body, sent |-> request.sent,
                      header |-> request.header, shape |-> request.shape]
        /\ request.shape.covers = Missing \/ request.shape.covers \in Seq(Parts)
        /\ request.header.headers = request.shape.covers
        /\ request.header.quoted = (request.shape.extra # "unquoted")
        /\ request.header.signature =
                Sign(request.pem, Lines(Covers(request.shape), Parts, request.signed))
        /\ request.signed["digest"] = Digest(request.sent)
        /\ request.signed["digest"] # Missing
        /\ request.signer \in Locals =>
                /\ private[request.signer]
                /\ request.pem = LocalKey[request.signer].pem
                /\ request.shape = [covers |-> Own, extra |-> "none"]

LEMMA DeliverSigns ==
  ASSUME NEW u \in Locals, NEW url \in Urls, NEW body \in Bodies, Deliver(u, url, body)
  PROVE  RequestInv'
<1> DEFINE s == [covers |-> Own, extra |-> "none"]
           k == [id |-> key[u].id, pem |-> LocalKey[u].pem]
           h == BuildHeader(k, url, body)
<1>1. request' = [signer |-> u, pem |-> LocalKey[u].pem, parts |-> Sent(url, body),
                  signed |-> Sent(url, body), body |-> body, sent |-> body,
                  header |-> h, shape |-> s]
      BY DEF Deliver
<1>2. private'[u]
      BY Zenon DEF Deliver, vars
<1>3. Covers(s) = Own
      BY MissingAssumption DEF Covers
<1>4. /\ Sent(url, body)["digest"] = Digest(body)
      /\ Digest(body) # Missing
      BY MissingAssumption DEF Sent, Parts, Known, Digest
<1>5. h.headers = Own /\ h.quoted = TRUE
      BY DEF BuildHeader
<1>6. h.signature = Sign(LocalKey[u].pem, Lines(Own, Parts, Sent(url, body)))
  <2> DEFINE t == HostAndPath(url)
             v == [p \in Known |->
                     CASE p = "(request-target)" -> <<"post", t.path>>
                       [] p = "host"   -> t.host
                       [] p = "date"   -> "date"
                       [] p = "digest" -> Digest(body)]
  <2>1. h.signature = Sign(LocalKey[u].pem, Lines(Own, Parts, v))
        BY DEF BuildHeader
  <2>a. v["(request-target)"] = Sent(url, body)["(request-target)"]
        BY DEF Sent, Known, Parts, HostAndPath
  <2>b. v["host"] = Sent(url, body)["host"]
        BY DEF Sent, Known, Parts, HostAndPath
  <2>c. v["date"] = Sent(url, body)["date"] /\ v["digest"] = Sent(url, body)["digest"]
        BY DEF Sent, Known, Parts
  <2> HIDE DEF v
  <2>2. \A p \in Known : v[p] = Sent(url, body)[p]
        BY <2>a, <2>b, <2>c DEF Known
  <2>3. Lines(Own, Parts, v) = Lines(Own, Parts, Sent(url, body))
        BY <2>2, OwnList, LinesAgree DEF Parts
  <2> QED
      BY <2>1, <2>3
<1> HIDE DEF h, k
<1> QED
    BY <1>1, <1>2, <1>3, <1>4, <1>5, <1>6, OwnList DEF RequestInv

LEMMA ArriveSigns ==
  ASSUME NEW d \in Documents, NEW s \in Shapes, NEW body \in Bodies, Arrive(d, s, body)
  PROVE  RequestInv'
<1> DEFINE v == Sent(Inbox, body)
           h == RemoteHeader(d.key, s, v)
<1>1. request' = [signer |-> d.uri, pem |-> d.key.pem, parts |-> v, signed |-> v,
                  body |-> body, sent |-> body, header |-> h, shape |-> s]
      BY DEF Arrive
<1>2. d.uri \notin Locals
      BY DocumentsAssumption DEF Arrive
<1>3. v["digest"] = Digest(body) /\ Digest(body) # Missing
      BY MissingAssumption DEF Sent, Parts, Known, Digest
<1>4. /\ h.headers = s.covers
      /\ h.quoted = (s.extra # "unquoted")
      /\ h.signature = Sign(d.key.pem, Lines(Covers(s), Parts, v))
      BY DEF RemoteHeader
<1>5. s.covers = Missing \/ s.covers \in Seq(Parts)
      BY ShapesAssumption
<1> HIDE DEF v, h
<1> QED
    BY <1>1, <1>2, <1>3, <1>4, <1>5 DEF RequestInv

LEMMA AlterKeeps ==
  ASSUME RequestInv, NEW p \in Parts, Alter(p)
  PROVE  RequestInv'
<1>1. PICK x : request' = [request EXCEPT !.parts[p] = x]
      BY DEF Alter
<1>2. request' = [request EXCEPT !.parts = [request.parts EXCEPT ![p] = x]]
      BY <1>1
<1>3. request # NoRequest /\ private' = private
      BY DEF Alter, IsAsSent, vars
<1>4. request' = [signer |-> request.signer, pem |-> request.pem,
                  parts |-> [request.parts EXCEPT ![p] = x], signed |-> request.signed,
                  body |-> request.body, sent |-> request.sent,
                  header |-> request.header, shape |-> request.shape]
      BY <1>2, <1>3 DEF RequestInv
<1> QED
    BY <1>3, <1>4 DEF RequestInv

LEMMA AlterBodyKeeps ==
  ASSUME RequestInv, AlterBody
  PROVE  RequestInv'
<1>1. /\ request # NoRequest /\ private' = private
      /\ request' = [request EXCEPT !.body = Changed]
      BY DEF AlterBody, IsAsSent, vars
<1>2. request' = [signer |-> request.signer, pem |-> request.pem,
                  parts |-> request.parts, signed |-> request.signed,
                  body |-> Changed, sent |-> request.sent,
                  header |-> request.header, shape |-> request.shape]
      BY <1>1 DEF RequestInv
<1> QED
    BY <1>1, <1>2 DEF RequestInv

(* No private key goes away. *)
LEMMA PrivateStays ==
  ASSUME TypeOK, [Next]_vars, NEW u \in Locals, private[u]
  PROVE  private'[u]
<1> USE Zenon
<1>1. u \in Uris /\ private \in [Uris -> BOOLEAN]
      BY DEF TypeOK, Uris
<1>2. ASSUME NEW v \in Locals, CreateLocal(v)
      PROVE  private'[u]
      BY <1>1, <1>2 DEF CreateLocal
<1>3. ASSUME ~ \E v \in Locals : CreateLocal(v)
      PROVE  UNCHANGED private
      BY <1>3 DEF Next, Stub, UpsertRemote, UpsertFails, StoreKey, vars
<1> QED
    BY <1>2, <1>3

LEMMA RequestStep ==
  ASSUME RequestInv, TypeOK, [HNext]_<<vars, request>>
  PROVE  RequestInv'
<1>1. CASE [Next]_vars /\ UNCHANGED request
      BY <1>1, PrivateStays DEF RequestInv
<1>2. CASE Forget
      BY <1>2 DEF Forget, RequestInv
<1> QED
    BY <1>1, <1>2, DeliverSigns, ArriveSigns, AlterKeeps, AlterBodyKeeps DEF HNext, vars

THEOREM RequestInvHolds == HSpec => []RequestInv
<1>1. HInit => RequestInv
      BY DEF HInit, RequestInv
<1>2. RequestInv /\ TypeOK /\ [HNext]_<<vars, request>> => RequestInv'
      BY RequestStep
<1> QED
    BY <1>1, <1>2, SignaturesAreActors, TypeCorrect, PTL DEF HSpec

-----------------------------------------------------------------------------
(* When exactly a request is accepted. *)
LEMMA AcceptedIff ==
  ASSUME RequestInv, request # NoRequest
  PROVE  IsAccepted <=>
            /\ IsIntact
            /\ Covered \subseteq Known
            /\ request.shape.extra # "unquoted"
<1> DEFINE L == Covers(request.shape)
<1>1. ListOf(request.header) = L
      BY DEF RequestInv, ListOf, Covers
<1>2. L \in Seq(Parts)
  <2>1. <<"date">> \in Seq(Parts)
        BY DEF Parts, Known
  <2> QED
      BY <2>1 DEF RequestInv, Covers
<1> HIDE DEF L
<1>3. IsAccepted <=>
        /\ request.shape.extra # "unquoted"
        /\ \A i \in DOMAIN L : L[i] = "digest" => request.parts["digest"] # Missing
        /\ Stored.pem = request.pem
        /\ Lines(L, Parts, request.signed) = Lines(L, Known, request.parts)
  <2> DEFINE h == request.header
  <2>1. IsAccepted <=>
          /\ h.quoted
          /\ \A i \in DOMAIN L : L[i] = "digest" => request.parts["digest"] # Missing
          /\ h.signature = Sign(Stored.pem, Lines(L, Known, request.parts))
        BY <1>1, Zenon DEF IsAccepted, Verifies, Parses
  <2>2. /\ h.quoted = (request.shape.extra # "unquoted")
        /\ h.signature = Sign(request.pem, Lines(L, Parts, request.signed))
        BY Zenon DEF RequestInv, L
  <2> HIDE DEF h
  <2>3. h.signature = Sign(Stored.pem, Lines(L, Known, request.parts)) <=>
          /\ Stored.pem = request.pem
          /\ Lines(L, Parts, request.signed) = Lines(L, Known, request.parts)
        BY <2>2 DEF Sign
  <2> QED
      BY <2>1, <2>2, <2>3, Zenon
<1>4. ASSUME Lines(L, Parts, request.signed) = Lines(L, Known, request.parts)
      PROVE  \A i \in DOMAIN L : L[i] \in Known /\ request.parts[L[i]] = request.signed[L[i]]
      BY <1>2, <1>4, LinesDetermine
<1>5. ASSUME \A i \in DOMAIN L :
                L[i] \in Known /\ request.parts[L[i]] = request.signed[L[i]]
      PROVE  /\ Lines(L, Parts, request.signed) = Lines(L, Known, request.parts)
             /\ \A i \in DOMAIN L : L[i] = "digest" => request.parts["digest"] # Missing
  <2>1. \A i \in DOMAIN L : L[i] \in Parts
        BY <1>2
  <2>2. Lines(L, Parts, request.signed) = Lines(L, Known, request.parts)
        BY <1>2, <1>5, <2>1, LinesAgree
  <2> QED
      BY <1>5, <2>2 DEF RequestInv
<1>6. /\ IsIntact <=> /\ Stored.pem = request.pem
                      /\ \A i \in DOMAIN L : request.parts[L[i]] = request.signed[L[i]]
      /\ Covered \subseteq Known <=> \A i \in DOMAIN L : L[i] \in Known
      BY DEF IsIntact, Covered, L
<1> QED
    BY <1>3, <1>4, <1>5, <1>6

LEMMA AcceptedOf == RequestInv => AcceptedWhenIntact
<1> SUFFICES ASSUME RequestInv, request # NoRequest
             PROVE  /\ IsAccepted => IsIntact
                    /\ (IsIntact /\ Covered \subseteq Known
                            /\ request.shape.extra # "unquoted") => IsAccepted
                    /\ (IsAccepted /\ "digest" \in Covered
                            /\ request.parts["digest"] = Digest(request.body))
                                => request.body = request.sent
    BY DEF AcceptedWhenIntact
<1>1. /\ IsAccepted => IsIntact
      /\ (IsIntact /\ Covered \subseteq Known
            /\ request.shape.extra # "unquoted") => IsAccepted
      BY AcceptedIff, Zenon
<1>2. ASSUME IsAccepted, "digest" \in Covered,
             request.parts["digest"] = Digest(request.body)
      PROVE  request.body = request.sent
  <2>1. request.parts["digest"] = request.signed["digest"]
        BY <1>1, <1>2 DEF IsIntact
  <2>2. Digest(request.body) = Digest(request.sent)
        BY <1>2, <2>1 DEF RequestInv
  <2> QED
      BY <2>2 DEF Digest
<1> QED
    BY <1>1, <1>2

(* With the stored key of its sender a request is accepted only if what it *)
(* covers came as signed, always if the code also knows those parts and    *)
(* can read the header, and then a caller that finds the digest covered    *)
(* and equal to ap_digest of the body has the body that was sent: for      *)
(* every list of parts, of any length and order.                           *)
THEOREM AcceptedSafe == HSpec => []AcceptedWhenIntact
<1> QED
    BY AcceptedOf, RequestInvHolds, PTL

(* What this server signs for an actor it accepts with the key in its rows *)
(* by then, for every URL, body and order of storing and rotating keys, if *)
(* no document shows the actor's key id with another PEM (Undisputed): of  *)
(* the others, nothing is claimed.                                         *)
THEOREM OwnDeliveriesSafe == HSpec => []OwnDeliveriesVerify
<1>1. ASSUME LocalsCanSign, RequestInv
      PROVE  OwnDeliveriesVerify
  <2> SUFFICES ASSUME request # NoRequest, request.signer \in Undisputed,
                      request.parts = request.signed
               PROVE  IsAccepted
      BY DEF OwnDeliveriesVerify
  <2>1. request.signer \in Locals /\ request.signer \in Uris
        BY DEF Undisputed, Uris
  <2>2. /\ private[request.signer]
        /\ request.pem = LocalKey[request.signer].pem
        /\ request.shape = [covers |-> Own, extra |-> "none"]
        BY <1>1, <2>1 DEF RequestInv
  <2>3. Stored.pem = request.pem
        BY <1>1, <2>1, <2>2 DEF LocalsCanSign, Stored
  <2>4. Covers(request.shape) = Own
        BY <2>2, MissingAssumption DEF Covers
  <2>5. IsIntact /\ Covered \subseteq Known
        BY <2>3, <2>4, OwnList DEF IsIntact, Covered
  <2> QED
      BY <1>1, <2>2, <2>5, AcceptedIff
<1> QED
    BY <1>1, SigningSafe, SignaturesAreActors, RequestInvHolds, PTL
=============================================================================
