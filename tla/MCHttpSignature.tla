--------------------------- MODULE MCHttpSignature ---------------------------
(* The instance of MCActors with requests to an inbox with and without      *)
(* path, and the headers of servers that cover what this one covers, less,  *)
(* the default, or the content type, and that add fields.                   *)
EXTENDS HttpSignature, MCActors

Shape(c, e) == [covers |-> c, extra |-> e]

MCUrls == {[host |-> "pub.example", path |-> "/inbox"], [host |-> "pub.example", path |-> Missing]}

MCInbox == [host |-> "here.example", path |-> "/users/alice/inbox"]

MCShapes ==
    { Shape(<<"(request-target)", "host", "date", "digest">>, "none"),
      Shape(<<"host", "date", "(request-target)">>, "unknown"),
      Shape(<<"date", "digest">>, "unquoted"),
      Shape(Missing, "none"),
      Shape(<<"(request-target)", "host", "digest", "content-type">>, "none") }
=============================================================================
