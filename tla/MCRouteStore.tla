---------------------------- MODULE MCRouteStore ----------------------------
(* Small instances of RouteStore for TLC. *)
EXTENDS RouteStore, TLC

CONSTANTS p, q

MCBackups == {<<p>>, <<q, p>>}

Symmetric == Permutations(Handlers) \cup Permutations(TemplateIds)
=============================================================================
