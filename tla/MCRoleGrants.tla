---------------------------- MODULE MCRoleGrants ----------------------------
(***************************************************************************)
(* The instance of RoleGrants that TLC explores.                           *)
(***************************************************************************)
EXTENDS RoleGrants, TLC

\* The founders are alike, and so are the requests.
GrantsSymmetry == Permutations(Founders) \cup Permutations(Requests)
=============================================================================
