------------------------ MODULE RevocableConnections ------------------------
(***************************************************************************)
(* What connection admission promises, without the mechanism.              *)
(*                                                                         *)
(* A connection is authorized once, when it is opened, and then lives on   *)
(* that authority until something closes it.  The authority can be taken   *)
(* away at any moment, before, during or after the opening, by a           *)
(* transaction that commits first and closes afterwards.  Between the two  *)
(* the connections the revocation names are owed a close.                  *)
(*                                                                         *)
(* The promise is in GoLive and in the subset relation it maintains: a     *)
(* connection is live only on authority it holds or on a revocation that   *)
(* still owes it a close.  docs/security.md, "Connection Admission".       *)
(***************************************************************************)
CONSTANT Connections

VARIABLES
  authorized,  \* connections whose credential, account and role would pass now
  owed,        \* connections a committed loss of authority must still close
  live,        \* connections that are admitted
  over         \* connections that have ended, or were refused

abstract_vars == <<authorized, owed, live, over>>

AbstractInit ==
  /\ authorized \subseteq Connections
  /\ owed = {}
  /\ live = {}
  /\ over = {}

\* Authority is taken from some connections, each of which is owed a close
\* (so may be others: a revocation may name more than it affects).
Revoke ==
  /\ \E lost \in SUBSET Connections :
       /\ authorized' = authorized \ lost
       /\ owed \cup (lost \ over) \subseteq owed'
       /\ owed' \subseteq Connections
  /\ UNCHANGED <<live, over>>

\* Authority is given, or given back.
Grant ==
  /\ authorized \subseteq authorized'
  /\ authorized' \subseteq Connections
  /\ UNCHANGED <<owed, live, over>>

GoLive(c) ==
  /\ c \notin live \cup over
  /\ c \in authorized \cup owed
  \* making room for it may end others
  /\ \E evicted \in SUBSET live :
       /\ live' = (live \ evicted) \cup {c}
       /\ over' = over \cup evicted
       /\ live' \cap owed \subseteq owed'
       /\ owed' \subseteq owed
  /\ UNCHANGED authorized

\* Connections end: a close that was owed runs, or they end for some other
\* reason.  No connection that stays live stops being owed one.
End ==
  /\ \E ended \in SUBSET (Connections \ over) :
       /\ over' = over \cup ended
       /\ live' = live \ ended
       /\ owed' \subseteq owed
       /\ live' \cap owed \subseteq owed'
  /\ UNCHANGED authorized

AbstractNext ==
  \/ Revoke
  \/ Grant
  \/ \E c \in Connections : GoLive(c)
  \/ End

AbstractSpec == AbstractInit /\ [][AbstractNext]_abstract_vars

(***************************************************************************)
(* A live connection either still has the authority it opened with, or its *)
(* loss is committed and the close that loss owes it has not run yet.      *)
(***************************************************************************)
LiveOnAuthority == live \subseteq authorized \cup owed

(* An ended connection does not come back. *)
EndedForGood == [][over \subseteq over']_abstract_vars
=============================================================================
