----------------------------- MODULE MCPollLoop -----------------------------
(***************************************************************************)
(* A small endpoint for PollLoop: two configurations that replace each     *)
(* other, a second spelling of the first one under the same weak ETag, a   *)
(* body served under two strong ETags, a body without ETag, a malformed    *)
(* one, one the router phase refuses, and the 404.                         *)
(***************************************************************************)
EXTENDS PollLoop

MCBody == {"a", "a2", "b", "{}", "bad", "poison"}
MCHash == [b \in MCBody |-> <<"sha256", b>>]
MCDigest == {MCHash[b] : b \in MCBody}
MCParse ==
    [b \in MCBody |->
        CASE b \in {"a", "a2"} -> "A"
          [] b = "b"           -> "B"
          [] b = "poison"      -> "P"
          [] b = "{}"          -> "empty"
          [] OTHER             -> "malformed"]
MCVersion ==
    { [body |-> "a",      etag |-> "W/1"],
      [body |-> "a2",     etag |-> "W/1"],
      [body |-> "b",      etag |-> "2"],
      [body |-> "b",      etag |-> "3"],
      [body |-> "a",      etag |-> ""],
      [body |-> "bad",    etag |-> "4"],
      [body |-> "poison", etag |-> "5"] }
MCRefusedBy == [c \in {"A", "B", "P", "empty"} |-> IF c = "P" THEN {"routers"} ELSE {}]

=============================================================================
