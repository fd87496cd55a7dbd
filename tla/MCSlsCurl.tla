------------------------------ MODULE MCSlsCurl ------------------------------
(***************************************************************************)
(* A small instance of SlsCurl: endpoints with and without a scheme, the   *)
(* project, a port and a slash; three headers.                             *)
(***************************************************************************)
EXTENDS SlsCurl

MCEndpoint ==
  {scheme \o host \o port \o rest :
     scheme \in {<<>>, Scheme("https"), Scheme("http")},
     host   \in {<<"cn", ".", "log">>, <<"p", ".", "cn", ".", "log">>},
     port   \in {<<>>, <<":", "8080">>},
     rest   \in {<<>>, <<"/">>}}

MCPaths == {<<"/">>, <<"/", "logstores", "/", "l", "/", "shards", "/", "lb">>}
=============================================================================
