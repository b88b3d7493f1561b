------------------------------ MODULE MCAccounts ------------------------------
(* A small instance of Accounts: a superuser, a user with a role, one with   *)
(* an inactive credential and one whose credential is still to come.         *)
EXTENDS Accounts, TLC

CONSTANTS r1, r2, root, tech, gone, late, nobody, s1, s2, auditor, admin

MCEmailOf == [u \in Users |-> u]

Row(hash, google, active) == [hash |-> hash, google |-> google, active |-> active]

MCCredentials0 ==
  root :> Row(TRUE, Null, TRUE) @@ tech :> Row(FALSE, s1, TRUE) @@ gone :> Row(TRUE, Null, FALSE)

MCRoles0 == [u \in Users |-> IF u = tech THEN {auditor} ELSE {}]
MCGrants == auditor :> {"update_user"} @@ admin :> Permitted
=============================================================================
