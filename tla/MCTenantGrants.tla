---------------------------- MODULE MCTenantGrants ----------------------------
(***************************************************************************)
(* Instances of TenantGrants for TLC.                                      *)
(***************************************************************************)
EXTENDS TenantGrantsProps, TLC

CONSTANTS acceder, leer, ORG, p1, w1, c1

\* core.app.acceder belongs to no module, org.empresa.leer to ORG.
MCModuloDe == [k \in Codigos |-> IF k = acceder THEN Ninguno ELSE ORG]
\* An older version does not declare the endpoint of org.empresa.leer yet.
MCVersiones == {{acceder}, {acceder, leer}}
MCEstandar == [r \in Operativos |-> {leer}]
===============================================================================
