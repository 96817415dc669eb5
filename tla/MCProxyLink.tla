----------------------------- MODULE MCProxyLink -----------------------------
(***************************************************************************)
(* Small instances of ProxyLink for TLC.                                   *)
(***************************************************************************)
EXTENDS ProxyLink, TLC

Symmetry == Permutations(Conn) \cup Permutations(Query)
=============================================================================
