------------------------------ MODULE MCRpcall ------------------------------
(***************************************************************************)
(* Model checking of the remote calls.                                     *)
(***************************************************************************)
EXTENDS Rpcall

CONSTANTS s1, s2, f, g, v

\* Two services: each provides a name and calls the other and itself.
Both == {s1, s2} \X {f, g}
Owners == {<<s1, g>>, <<s2, f>>}

\* s1 calls f of s2.
OneCall == {<<s1, f>>}
OneProvides == {<<s2, f>>, <<s2, g>>}

Nothing == {<<>>}
Something == {<<>>, <<v>>}
=============================================================================
