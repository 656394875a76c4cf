--------------------------- MODULE MCFeignClient ---------------------------
(* A small instance of FeignClient for TLC: the ways in which annotations  *)
(* and mappings may write the same URL.                                    *)
EXTENDS FeignClient

CONSTANTS a, b

MCToken == Separator \cup {"host", "base", "pong", "#{}", "send", "set", "{msg}",
                          "Hello", "World"}

MCClient == {a, b}

Urls == {<<>>, <<"host">>, <<"http://", "host">>, <<"https://", "host", "/">>,
         <<"http://", "host", "/", "base">>, <<"ftp://", "host">>,
         <<"lb://", "host">>, <<"#{}">>}

Paths == {<<>>, <<"pong">>, <<"/", "pong">>, <<"/", "pong", "/">>, <<"/">>}

MCDeclaration ==
  [iface : {TRUE}, name : {"host name"}, url : Urls, path : Paths]
    \cup [iface : {TRUE, FALSE}, name : {"no host name"}, url : {<<"host">>}, path : {<<>>}]

MCMethod == [kind : {"GetMapping"}, path : {<<"send", "/", "{msg}">>, <<"/", "send">>}]
              \cup [kind : {"PutMapping"}, path : {<<"/", "set", "/", "{msg}">>, <<>>}]
              \cup [kind : {"none"}, path : {<<>>}]

MCMessage == {<<"Hello">>, <<"Hello", "/", "World">>, NullMessage}

=============================================================================
