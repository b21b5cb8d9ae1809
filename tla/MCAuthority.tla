---------------------------- MODULE MCAuthority -----------------------------
(***************************************************************************)
(* Authority and what hangs on it, one part at a time: the upgrade of a    *)
(* socket against the revocations that race it (SocketAdmission), and any  *)
(* sequence of the methods that give and take authority, with the log they *)
(* leave (AuthorityLog).                                                   *)
(***************************************************************************)
EXTENDS MCSocketAdmission

CONSTANTS
    People, Keeper, SessionIds, TokenIds, NarrowTokens, OfferIds, InviteIds,
    MaxSessions, MaxTokens, Unset

VARIABLES
    part,
    app_role, account_status, sessions, tokens, held, offers, invites, open_signup, log,
    entitled_connections, entitled_streams, overstepped

Authority == INSTANCE AuthorityLog WITH status <- account_status, told <- log,
                grants <- held, connected <- entitled_connections,
                streamed <- entitled_streams

authority_vars == <<app_role, account_status, sessions, tokens, held, offers, invites,
                    open_signup, log, entitled_connections, entitled_streams, overstepped>>
parts_vars == <<part, admission_vars, authority_vars>>

\* A cap is a number, and what is unset is no invite.
ASSUME LogBounds ==
    /\ MaxSessions \in Nat /\ MaxTokens \in Nat
    /\ Unset \notin [id : InviteIds, for : People]

PartsInit ==
    /\ part \in {"admission", "authority"}
    /\ AdmissionInit /\ Authority!AuthorityInit
    /\ part # "authority" => app_role = "team"

PartsNext ==
    \/ part = "admission" /\ AdmissionNext /\ UNCHANGED <<part, authority_vars>>
    \/ part = "authority" /\ Authority!AuthorityNext /\ UNCHANGED <<part, admission_vars>>

AuthorityParts == PartsInit /\ [][PartsNext]_parts_vars

\* AuthorityLog: the audit log tells all authority and closes what ends.
TheLogTellsAndCloses == Authority!TheLogTellsAuthority /\ Authority!WhatEndsIsClosed

\* AuthorityLog: no token confers what it must not.
TokensConferNothing == Authority!TokensConferNothing

=============================================================================
