----------------------------- MODULE MCSlsPlugin -----------------------------
(***************************************************************************)
(* A small instance of SlsPlugin: endpoints with and without a scheme, the *)
(* project, a port, slashes and a path, and every set of optional keys.    *)
(***************************************************************************)
EXTENDS SlsPlugin

Endpoints ==
  {scheme \o host \o port \o rest :
     scheme \in {<<>>, Scheme("https"), Scheme("http")},
     host   \in {<<"cn", ".", "log">>, <<"p", ".", "cn", ".", "log">>},
     port   \in {<<>>, <<":", "8080">>},
     rest   \in {<<>>, <<"/">>, <<"/", "/">>, <<"/", "x">>}}

MCConfig ==
  [endpoint : Endpoints, project : {"p"}, complete : {TRUE}, optional : {Strings},
   port : {NoPort, "8080"}, tls : BOOLEAN]
  \cup
  [endpoint : {NoEndpoint, <<"cn", ".", "log">>}, project : {"p"}, complete : BOOLEAN,
   optional : SUBSET Strings, port : {NoPort, "8443"}, tls : BOOLEAN]
=============================================================================
