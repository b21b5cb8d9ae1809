-------------------------- MODULE MCSocketAdmission --------------------------
(***************************************************************************)
(* SocketAdmission on one account: c1 upgrades on a session behind a role  *)
(* gate, c2 on an API token without one.  Each can evict the other.        *)
(***************************************************************************)
EXTENDS SocketAdmission, TLC

CONSTANTS c1, c2, a1, s1, t1, r1

MCIdentity ==
  [c \in Connections |->
     IF c = c1
       THEN [session_hash |-> s1, account_id |-> a1, api_token_id |-> Null,
             required_roles |-> {r1}]
       ELSE [session_hash |-> Null, account_id |-> a1, api_token_id |-> t1,
             required_roles |-> {}]]

MCOwner == s1 :> a1 @@ t1 :> a1

=============================================================================
