---------------------------- MODULE MCProxyLeases -----------------------------
(***************************************************************************)
(* Small instances of ProxyLeases.  Profiles, clients and leases are       *)
(* interchangeable.                                                        *)
(***************************************************************************)
EXTENDS ProxyLeases, TLC

Symmetry == Permutations(Profiles) \cup Permutations(Clients) \cup Permutations(Ids)

===============================================================================
