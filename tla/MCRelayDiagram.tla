--------------------------- MODULE MCRelayDiagram ---------------------------
(***************************************************************************)
(* Small instances of RelayDiagram for TLC: hosts and patterns over "a",   *)
(* "b" and the dot, one of the hosts with a port too, two proxies, at most *)
(* two routes.                                                             *)
(***************************************************************************)
EXTENDS RelayDiagram

MCChar == {"a", "b", "D", ":", "1", ".", "*", "?", "\\", "%", "_"}

MCUrl(host, tail) == [lead |-> <<>>, host |-> host, tail |-> tail]

MCUrls ==
  {NoUrl, MCUrl(<<"a", ".", "b">>, <<>>), MCUrl(<<"a", "b", "b">>, <<>>),
   MCUrl(<<"a", ".", "b">>, <<":", "1">>)}

MCPlaceholder == <<"D">>

MCProxies == {{1}, {2}, {1, 2}}

MCPatterns == {<<"a", ".", "b">>, <<"*", ".", "b">>, <<"a", "?", "b">>}

MCRoute(dest, proxyId) == [dest |-> dest, proxyId |-> proxyId]

\* No route, one of any pattern, or two, the second of which covers more.
MCRouteLists ==
  {<<>>} \cup {<<MCRoute(p, 1)>> : p \in MCPatterns}
         \cup {<<MCRoute(<<"a", ".", "b">>, 1), MCRoute(<<"a", "?", "b">>, 2)>>}
=============================================================================
