------------------------------ MODULE MCAccess ------------------------------
(* One slot for a writer, one for an administrator who changes the policy  *)
(* under the writer's requests.                                            *)
EXTENDS Access, TLC

CONSTANTS w, adm, r1, r2, g1, c1

MCUserOf == (r1 :> w) @@ (r2 :> adm)
MCSends == (r1 :> {apiListConnections, apiGrid, apiDDLFormPrefill, apiQuery, apiMongoCmd,
                      apiExecTx, apiDropTable})
           @@ (r2 :> {apiSetGrant, apiDeleteGrant, apiUpdateConnection, apiDeleteConnection,
                      apiAuditExport})
MCCaps == (w :> {"read", "write"}) @@ (adm :> {"read", "write", "admin"})
MCMember == (w :> {g1}) @@ (adm :> {})

(* Two administrators: one sets grants on what the other deletes, and one  *)
(* works while the other's export holds the only store connection.         *)
AdminsUserOf == (r1 :> adm) @@ (r2 :> adm)
AdminsSends == (r1 :> {apiSetGrant, apiRunForm}) @@ (r2 :> {apiAudit, apiAuditExport, apiDeleteConnection})
=============================================================================
