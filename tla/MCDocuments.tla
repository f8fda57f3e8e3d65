---------------------------- MODULE MCDocuments ----------------------------
(***************************************************************************)
(* Instances of Documents for TLC.                                         *)
(***************************************************************************)
EXTENDS DocumentsProps, DocumentCatalogue

CONSTANTS w1, w2, w3

\* Tickets and service orders reject another estado in a PUT: there, clients
\* send none.
SentByClients == DOMAIN Everything \ {"tkt_ticket", "svc_orden_servicio"}

Symmetry == Permutations(Workers)
=============================================================================
