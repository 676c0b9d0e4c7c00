---------------------------- MODULE HttpSignature ----------------------------
(***************************************************************************)
(* Signed requests between servers (src/crypto.rs), over the keys of       *)
(* Actors: the header that ap_build_signature_header makes for a delivery, *)
(* those that other servers make, and what ap_verify_http_signature says   *)
(* of a request with the key that is stored when it arrives, whatever was  *)
(* stored, rotated or changed on the way in between.                       *)
(*                                                                         *)
(* A request has a body and parts: its target, three headers that the code *)
(* knows, and the content type for all others.  RSA and SHA-256 are ideal: *)
(* the digest of a body is that body, tagged; a signature is the pair of   *)
(* the key and the text signed, and the text is the set of its numbered    *)
(* lines.                                                                  *)
(***************************************************************************)
EXTENDS Actors, Integers, Sequences

CONSTANTS
    Urls,      \* [host, path] of inboxes; path Missing: the URL ends after the host
    Inbox,     \* the URL of the inbox here
    Bodies,    \* of requests
    Shapes,    \* [covers, extra]: how other servers sign; see RemoteHeader
    Missing,   \* a part or field that is not there
    Changed,   \* what a part was changed to on the way
    NoRequest

Known == {"(request-target)", "host", "date", "digest"}
Parts == Known \union {"content-type"}

(* What ap_build_signature_header covers. *)
Own == <<"(request-target)", "host", "date", "digest">>

ASSUME ShapesAssumption ==
    \A s \in Shapes : /\ s.covers = Missing \/ s.covers \in Seq(Parts)
                      /\ s.extra \in {"none", "unknown", "unquoted"}
ASSUME MissingAssumption ==
    /\ Missing # Own
    /\ \A b \in Bodies : Missing # <<"SHA-256", b>>

VARIABLE request  \* the request under way

-----------------------------------------------------------------------------
(* Text to sign, and the two ideal functions. *)

Digest(body) == <<"SHA-256", body>>
Sign(pem, t) == [pem |-> pem, text |-> t]

(* The lines for those parts of the list that are in S. *)
Lines(list, S, v) ==
    {<<Cardinality({k \in 1..i : list[k] \in S}), list[i], v[list[i]]>> :
        i \in {j \in DOMAIN list : list[j] \in S}}

(* Mutant of HostAndPath: a URL without path is signed without.    *)
HostAndPathAsIs(url) == url

(* parse_url_parts. *)
HostAndPath(url) == [host |-> url.host, path |-> IF url.path = Missing THEN "/" ELSE url.path]

(* The request that an HTTP client sends to a URL, with the headers that   *)
(* the worker has set.                                                     *)
Sent(url, body) ==
    [p \in Parts |->
        CASE p = "(request-target)" -> <<"post", IF url.path = Missing THEN "/" ELSE url.path>>
          [] p = "host"   -> url.host
          [] p = "date"   -> "date"
          [] p = "digest" -> Digest(body)
          [] OTHER        -> "application/activity+json"]

(* ap_build_signature_header, for a POST: fields of the Signature header.  *)
BuildHeader(k, url, body) ==
    LET t == HostAndPath(url)
        v == [p \in Known |->
                CASE p = "(request-target)" -> <<"post", t.path>>
                  [] p = "host"   -> t.host
                  [] p = "date"   -> "date"
                  [] p = "digest" -> Digest(body)]
    IN  [keyId |-> k.id, headers |-> Own, signature |-> Sign(k.pem, Lines(Own, Parts, v)),
         quoted |-> TRUE]

(* Other servers cover other parts, or leave "headers" out, which means    *)
(* the date; they send fields that the code does not know, or one without  *)
(* quotes (created=1700000000).                                            *)
Covers(s) == IF s.covers = Missing THEN <<"date">> ELSE s.covers
RemoteHeader(k, s, v) ==
    [keyId |-> k.id, headers |-> s.covers,
     signature |-> Sign(k.pem, Lines(Covers(s), Parts, v)),
     quoted |-> s.extra # "unquoted"]

(* Mutant of ListOf: a header without "headers" covers nothing. *)
ListOrNothing(h) == IF h.headers = Missing THEN <<>> ELSE h.headers

(* The list of a header, which covers the date if it does not say. *)
ListOf(h) == IF h.headers = Missing THEN <<"date">> ELSE h.headers

(* parse_signature_header gives no fields if one of them is not quoted,    *)
(* and leaves out those that it does not know.                             *)
Parses(h) == h.quoted

(* ap_verify_http_signature: no digest to verify but one that was passed;  *)
(* parts that the code does not know are left out of the text.  The body   *)
(* is not an argument: whether the Digest header fits it is not asked.     *)
Verifies(h, v, pem) ==
    LET list == ListOf(h)
    IN  /\ Parses(h)
        /\ \A i \in DOMAIN list : list[i] = "digest" => v["digest"] # Missing
        /\ h.signature = Sign(pem, Lines(list, Known, v))

-----------------------------------------------------------------------------
(* A request: its signer, the parts and the body as they are now and as    *)
(* they were signed and sent, the header, and what it was made from.       *)

(* A worker posts a delivery with the keys ap_get_pending_deliveries gave: *)
(* the key id of the row and the private key, which is the generated one.  *)
Deliver(u, url, body) ==
    /\ request = NoRequest
    /\ private[u]
    /\ LET k == [id |-> key[u].id, pem |-> LocalKey[u].pem]
       IN  request' = [signer |-> u, pem |-> k.pem, parts |-> Sent(url, body),
                       signed |-> Sent(url, body), body |-> body, sent |-> body,
                       header |-> BuildHeader(k, url, body),
                       shape |-> [covers |-> Own, extra |-> "none"]]
    /\ UNCHANGED vars

(* Another server signs, with the key of a document it publishes. *)
Arrive(d, s, body) ==
    /\ request = NoRequest
    /\ d.uri \in Remotes
    /\ d.key # NoKey
    /\ LET v == Sent(Inbox, body)
       IN  request' = [signer |-> d.uri, pem |-> d.key.pem, parts |-> v, signed |-> v,
                       body |-> body, sent |-> body,
                       header |-> RemoteHeader(d.key, s, v), shape |-> s]
    /\ UNCHANGED vars

IsAsSent == request # NoRequest /\ request.parts = request.signed /\ request.body = request.sent

(* A proxy rewrites a part, or the caller does not pass the digest on. *)
Alter(p) ==
    /\ IsAsSent
    /\ \E x \in {Changed} \union (IF p = "digest" THEN {Missing} ELSE {}) :
         request' = [request EXCEPT !.parts[p] = x]
    /\ UNCHANGED vars

(* The body comes cut off or rewritten, under the headers it was sent with. *)
AlterBody ==
    /\ IsAsSent
    /\ request' = [request EXCEPT !.body = Changed]
    /\ UNCHANGED vars

(* It was answered. *)
Forget ==
    /\ request # NoRequest
    /\ request' = NoRequest
    /\ UNCHANGED vars

HInit == Init /\ request = NoRequest

HNext ==
    \/ Next /\ UNCHANGED request
    \/ \E u \in Locals, url \in Urls, body \in Bodies : Deliver(u, url, body)
    \/ \E d \in Documents, s \in Shapes, body \in Bodies : Arrive(d, s, body)
    \/ \E p \in Parts : Alter(p)
    \/ AlterBody
    \/ Forget

HSpec == HInit /\ [][HNext]_<<vars, request>>

-----------------------------------------------------------------------------
Stored     == key[request.signer]
IsAccepted == Verifies(request.header, request.parts, Stored.pem)
Covered    == {Covers(request.shape)[i] : i \in DOMAIN Covers(request.shape)}

(* What the signature covers came as it was signed with the stored key. *)
IsIntact ==
    /\ Stored.pem = request.pem
    /\ \A p \in Covered : request.parts[p] = request.signed[p]

(* A delivery whose parts arrive as they were sent is accepted with the    *)
(* public key in the rows of its actor, also when rows and keys were       *)
(* stored while it was under way, as long as no document shows the         *)
(* actor's key id with another PEM.                                        *)
OwnDeliveriesVerify ==
    request # NoRequest /\ request.signer \in Undisputed /\ request.parts = request.signed
        => IsAccepted

(* With the stored key of its sender, a request is accepted only if what   *)
(* it covers came as it was signed, and then always if the code knows the  *)
(* parts it covers and can read the header.  This says nothing of parts    *)
(* that are not covered, nor of the body: only a caller that compares the  *)
(* Digest header with ap_digest of the body knows, if the signature covers *)
(* the digest, that the body is the one that was signed.                   *)
AcceptedWhenIntact ==
    request # NoRequest /\ Stored # NoKey =>
        /\ IsAccepted => IsIntact
        /\ (IsIntact /\ Covered \subseteq Known /\ request.shape.extra # "unquoted") => IsAccepted
        /\ (IsAccepted /\ "digest" \in Covered /\ request.parts["digest"] = Digest(request.body))
                => request.body = request.sent

-----------------------------------------------------------------------------
(* crypto.rs, of a part it does not know, the content type: "Some          *)
(* implementations include content-type; we accept but skip".              *)
SkippedPartsAreAccepted ==
    request # NoRequest /\ Stored # NoKey =>
        (IsIntact /\ request.shape.extra # "unquoted" => IsAccepted)
=============================================================================
