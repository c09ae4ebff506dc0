------------------------------ MODULE MCRouter ------------------------------
(* The routing tables of the run. *)
EXTENDS HTTPHandlerFactory

CONSTANT MaxRoutes  \* bound: routes of a router

Route(static, streaming, paths, methods) ==
  [static |-> static, streaming |-> streaming, paths |-> paths, methods |-> methods]

\* Streaming routes are for GET, others for any one method.
Kinds == {<<TRUE, {GET}>>} \cup {<<FALSE, {m}>> : m \in Methods}

StaticTypes == {Route(TRUE, k[1], {p}, k[2]) : k \in Kinds, p \in Paths}
RegexTypes == {Route(FALSE, k[1], ps, k[2]) : k \in Kinds, ps \in SUBSET Paths \ {{}}}

\* Every table of up to MaxRoutes routes.
AllTables == UNION {[1..n -> StaticTypes \cup RegexTypes] : n \in 0..MaxRoutes}
=============================================================================
