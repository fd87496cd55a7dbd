--------------------------- MODULE MCSlsTransport ---------------------------
(***************************************************************************)
(* A small instance of SlsTransport: answers of every class with a body,   *)
(* with two headers or none, and one that is empty.                        *)
(***************************************************************************)
EXTENDS SlsTransport

MCAnswer ==
  [status : StatusClass, body : {TRUE}, lines : {<<"requestid", "junk", "other">>, <<"junk">>}]
  \cup {[status |-> "2xx", body |-> FALSE, lines |-> <<>>]}
=============================================================================
