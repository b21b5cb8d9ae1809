--------------------------- MODULE MCServerProofs ---------------------------
(***************************************************************************)
(* The parts of the server, for any values of their constants: signups and *)
(* the bootstrap, requests to clients, the fact, the cells, the cookies,   *)
(* the audit streams and rows, the migrations.  What was proved of logins  *)
(* holds of them as a part of the server: a step of the server is a step   *)
(* of the part or leaves it alone, and each of its initial states is one   *)
(* of the part.                                                            *)
(***************************************************************************)
EXTENDS MCServer, FiniteSetTheorems, SequenceTheorems, TLAPS

ProvedLogins == INSTANCE LoginsProofs WITH Requests <- LoginRequests, req <- login

-----------------------------------------------------------------------------
(***************************************************************************)
(* Signup and bootstrap: each account was let in, and a deployment has one *)
(* keeper or can still get one.                                            *)
(***************************************************************************)

(***************************************************************************)
(* The inductive invariant.                                                *)
(***************************************************************************)
Rows ==
    [name : Names, email : {Email, None}, by : Requests, keeper : BOOLEAN,
     way : {"open", "invited", "bootstrap"}]

SignupSteps == {"find", "lock", "insert", "claim", "commit"}
BootstrapSteps == {"bootstrap_lock", "insert", "grant", "delete_file"}

Working ==
    [what : {"signup", "bootstrap"}, pc : SignupSteps \cup BootstrapSteps,
     invite : Invites \cup {None}, row : Rows]

OnboardingTypeOK ==
    /\ account \subseteq Rows
    /\ invite \in [Invites -> InviteRows \cup {None}]
    /\ open_signup \in BOOLEAN /\ bootstrapped \in BOOLEAN
    /\ token_file \in BOOLEAN /\ available \in BOOLEAN /\ up \in BOOLEAN
    /\ req \in [Requests -> {Idle, Done} \cup Working]
    /\ was_closed \subseteq Requests

\* A signup is at a statement of a signup, a bootstrap at one of a bootstrap, and the
\* row either will insert says how it was let in.
OnItsWay(r) ==
    LET q == req[r] IN
    /\ q.pc # "idle" \/ r \notin was_closed
    /\ r \in Running =>
        /\ q.row.by = r
        /\ \/ /\ q.what = "signup" /\ q.pc \in SignupSteps /\ ~q.row.keeper
              /\ q.pc = "find" => q.row.way = "invited"
              /\ q.pc # "find" => (q.row.way = "invited" <=> q.invite # None)
              /\ r \in was_closed => q.row.way = "invited"
           \/ /\ q.what = "bootstrap" /\ q.pc \in BootstrapSteps /\ q.row.keeper
              /\ q.invite = None /\ q.row.way = "bootstrap" /\ r \notin was_closed

\* The invite a signup has locked is there, unclaimed, and still matches.
HoldsItsInvite(r) ==
    LockedInvite(r) # None =>
        LockedInvite(r) \in Invites /\ Matches(LockedInvite(r), req[r].row)

\* A bootstrap that has the lock found the flag unset; one that committed has set it.
HoldsTheFlag(r) ==
    /\ HoldsBootstrapLock(r) => ~bootstrapped
    /\ req[r].pc = "delete_file" => bootstrapped

\* No two requests have the same lock.
Apart(r, s) ==
    /\ LockedInvite(r) # None => LockedInvite(r) # LockedInvite(s)
    /\ ~(HoldsBootstrapLock(r) /\ HoldsBootstrapLock(s))

\* An account is the work of a request that is over, or has only a file to delete.
AccountIsSettled(a) ==
    /\ req[a.by].pc \in {"done", "delete_file"}
    /\ a.by \in was_closed => a.way = "invited"
    /\ a.way = "invited" =>
        \E i \in Invites : invite[i] # None /\ invite[i].claimed_by = a.by

Claimed == {i \in Invites : invite[i] # None /\ invite[i].claimed_by # None}

ClaimIsSettled(i) ==
    /\ req[invite[i].claimed_by].pc = "done"
    /\ \E a \in account :
        /\ a.by = invite[i].claimed_by
        /\ invite[i].name \in {None, a.name} /\ invite[i].email \in {None, a.email}

ClaimsAreDistinct ==
    \A i, j \in Claimed : i # j => invite[i].claimed_by # invite[j].claimed_by

\* The flag says whether there is a keeper, and the token goes after it is set.
FlagIsTrue ==
    /\ \A a, b \in account : a.keeper /\ b.keeper => a = b
    /\ bootstrapped <=> \E a \in account : a.keeper
    /\ ~bootstrapped => token_file /\ (up => available)

OnboardingInv ==
    /\ OnboardingTypeOK
    /\ \A r \in Requests : OnItsWay(r) /\ HoldsItsInvite(r) /\ HoldsTheFlag(r)
    /\ \A r \in Requests : \A s \in Requests \ {r} : Apart(r, s)
    /\ \A a \in account : AccountIsSettled(a)
    /\ \A i \in Claimed : ClaimIsSettled(i)
    /\ ClaimsAreDistinct
    /\ FlagIsTrue

------------------------------------------------------------------------------
LEMMA OnboardingInitInv == OnboardingInit => OnboardingInv
<1> SUFFICES ASSUME OnboardingInit PROVE OnboardingInv
  OBVIOUS
<1> USE DEF OnboardingInit
<1>1. OnboardingTypeOK
  BY DEF OnboardingTypeOK
<1>2. \A r \in Requests : req[r].pc = "idle"
  BY DEF Idle
<1>3. \A r \in Requests : OnItsWay(r) /\ HoldsItsInvite(r) /\ HoldsTheFlag(r)
  BY <1>2 DEF OnItsWay, Running, HoldsItsInvite, HoldsTheFlag, LockedInvite,
              HoldsBootstrapLock
<1>4. \A r, s \in Requests : Apart(r, s)
  BY <1>2 DEF Apart, LockedInvite, HoldsBootstrapLock
<1>5. Claimed = {} /\ ClaimsAreDistinct
  BY DEF Claimed, ClaimsAreDistinct
<1>6. FlagIsTrue
  BY DEF FlagIsTrue
<1> QED BY <1>1, <1>3, <1>4, <1>5, <1>6 DEF OnboardingInv

\* The shape of a request, by what it does.
LEMMA RequestTypes ==
  ASSUME OnboardingTypeOK, NEW r \in Requests
  PROVE  /\ req[r].pc \in {"idle", "done"} \cup SignupSteps \cup BootstrapSteps
         /\ r \in Running <=> req[r] \in Working
         /\ r \notin Running <=> req[r] \in {Idle, Done}
<1>1. req[r] \in {Idle, Done} \cup Working
  BY DEF OnboardingTypeOK
<1>2. CASE req[r] \in {Idle, Done}
  <2>1. req[r].pc \in {"idle", "done"}
    BY <1>2 DEF Idle, Done
  <2>2. r \notin Running
    BY <2>1 DEF Running
  <2>3. req[r] \notin Working
    BY <2>1 DEF Working, SignupSteps, BootstrapSteps
  <2> QED BY <1>2, <2>1, <2>2, <2>3
<1>3. CASE req[r] \in Working
  <2>1. req[r].pc \in SignupSteps \cup BootstrapSteps
    BY <1>3 DEF Working
  <2>2. r \in Running
    BY <2>1 DEF Running, SignupSteps, BootstrapSteps
  <2>3. req[r] \notin {Idle, Done}
    BY <2>1 DEF Idle, Done, SignupSteps, BootstrapSteps
  <2> QED BY <1>3, <2>1, <2>2, <2>3
<1> QED BY <1>1, <1>2, <1>3

\* A request that keeps to its way and its locks, whatever it read, keeps the invariant.
LEMMA MoveKeepsInv ==
  ASSUME OnboardingInv, NEW r \in Requests, NEW q \in {Idle, Done} \cup Working,
         Goes(r, q), UNCHANGED <<database, up>>,
         token_file' \in BOOLEAN, available' \in BOOLEAN,
         ~bootstrapped => token_file' /\ (up => available'),
         was_closed' \subseteq Requests,
         \A s \in was_closed' : s \in was_closed \/ (s = r /\ req[r].pc = "idle"),
         req[r].pc \in {"done", "delete_file"} => q.pc = "done",
         OnItsWay(r)', HoldsItsInvite(r)', HoldsTheFlag(r)',
         \A s \in Requests \ {r} : Apart(r, s)' /\ Apart(s, r)'
  PROVE  OnboardingInv'
<1> USE DEF OnboardingInv, Goes, database
<1>0. req' = [req EXCEPT ![r] = q] /\ DOMAIN req = Requests
  BY DEF OnboardingTypeOK
<1>1. OnboardingTypeOK'
  BY <1>0 DEF OnboardingTypeOK
<1>2. \A s \in Requests \ {r} : req'[s] = req[s]
  BY <1>0
<1>3. ASSUME NEW s \in Requests \ {r}
      PROVE  (OnItsWay(s) /\ HoldsItsInvite(s) /\ HoldsTheFlag(s))'
  <2>1. req'[s] = req[s] /\ (s \in was_closed' => s \in was_closed)
    BY <1>2
  <2>2. OnItsWay(s)'
    BY <2>1 DEF OnItsWay, Running
  <2>3. HoldsItsInvite(s)'
    BY <2>1 DEF HoldsItsInvite, LockedInvite, Matches
  <2>4. HoldsTheFlag(s)'
    BY <2>1 DEF HoldsTheFlag, HoldsBootstrapLock
  <2> QED BY <2>2, <2>3, <2>4
<1>4. \A p \in Requests : \A s \in Requests \ {p} : Apart(p, s)'
  <2> SUFFICES ASSUME NEW p \in Requests, NEW s \in Requests \ {p}
              PROVE  Apart(p, s)'
    OBVIOUS
  <2>1. CASE p # r /\ s # r
    BY <2>1, <1>2 DEF Apart, LockedInvite, HoldsBootstrapLock
  <2> QED BY <2>1
<1>5. \A a \in account : AccountIsSettled(a)'
  <2> SUFFICES ASSUME NEW a \in account PROVE AccountIsSettled(a)'
    OBVIOUS
  <2>1. AccountIsSettled(a) /\ a.by \in Requests
    BY DEF OnboardingTypeOK, Rows
  <2>2. req'[a.by].pc \in {"done", "delete_file"}
    BY <2>1, <1>0, <1>2 DEF AccountIsSettled
  <2>3. a.by \in was_closed' => a.by \in was_closed
    BY <2>1 DEF AccountIsSettled
  <2> QED BY <2>1, <2>2, <2>3 DEF AccountIsSettled
<1>6. Claimed' = Claimed /\ \A i \in Claimed : ClaimIsSettled(i)'
  <2>1. Claimed' = Claimed
    BY DEF Claimed
  <2> SUFFICES ASSUME NEW i \in Claimed PROVE ClaimIsSettled(i)'
    BY <2>1
  <2>2. ClaimIsSettled(i) /\ invite[i].claimed_by \in Requests
    BY DEF OnboardingTypeOK, InviteRows, Claimed
  <2>3. req'[invite[i].claimed_by].pc = "done"
    BY <2>2, <1>0, <1>2 DEF ClaimIsSettled
  <2> QED BY <2>2, <2>3 DEF ClaimIsSettled
<1>7. ClaimsAreDistinct'
  BY <1>6 DEF ClaimsAreDistinct
<1>8. FlagIsTrue'
  BY DEF FlagIsTrue
<1> QED BY <1>1, <1>3, <1>4, <1>5, <1>6, <1>7, <1>8

------------------------------------------------------------------------------
(***************************************************************************)
(* The steps of a request.                                                 *)
(***************************************************************************)
LEMMA StartSignupInv ==
  ASSUME OnboardingInv, NEW r \in Requests, NEW name \in Names, NEW email \in {Email, None},
         StartSignup(r, name, email)
  PROVE  OnboardingInv'
<1> DEFINE row_ == [name |-> name, email |-> email, by |-> r, keeper |-> FALSE,
                   way |-> IF open_signup THEN "open" ELSE "invited"]
           q == [what |-> "signup", pc |-> IF open_signup THEN "insert" ELSE "find",
                 invite |-> None, row |-> row_]
<1> USE DEF OnboardingInv
<1>1. /\ req[r].pc = "idle" /\ Goes(r, q) /\ open_signup \in BOOLEAN
      /\ UNCHANGED <<database, up>> /\ token_file' = token_file /\ available' = available
      /\ was_closed' = IF open_signup THEN was_closed ELSE was_closed \cup {r}
      /\ r \notin was_closed
  BY DEF StartSignup, OnboardingTypeOK, OnItsWay
<1>2. row_ \in Rows /\ q \in Working
  BY <1>1 DEF Rows, Working, SignupSteps, BootstrapSteps
<1>3. req'[r] = q
  BY <1>1 DEF Goes, OnboardingTypeOK
<1>4. OnItsWay(r)'
  BY <1>1, <1>3 DEF OnItsWay, SignupSteps
<1>5. LockedInvite(r)' = None /\ ~HoldsBootstrapLock(r)'
  BY <1>3 DEF LockedInvite, HoldsBootstrapLock
<1>6. HoldsItsInvite(r)' /\ HoldsTheFlag(r)'
  BY <1>3, <1>5 DEF HoldsItsInvite, HoldsTheFlag
<1>7. \A s \in Requests \ {r} : Apart(r, s)' /\ Apart(s, r)'
  BY <1>5 DEF Apart
<1>8. ~bootstrapped => token_file /\ (up => available)
  BY DEF FlagIsTrue
<1>9. /\ was_closed' \subseteq Requests
      /\ \A s \in was_closed' : s \in was_closed \/ s = r
  BY <1>1 DEF OnboardingTypeOK
<1> HIDE DEF q, row_
<1> QED BY <1>1, <1>2, <1>4, <1>6, <1>7, <1>8, <1>9, MoveKeepsInv DEF OnboardingTypeOK

\* A request that ends without a commit keeps the invariant.
LEMMA EndKeepsInv ==
  ASSUME OnboardingInv, NEW r \in Requests, req[r].pc # "idle", Goes(r, Done),
         UNCHANGED <<database, up, was_closed>>,
         token_file' \in BOOLEAN, available' \in BOOLEAN,
         ~bootstrapped => token_file' /\ (up => available')
  PROVE  OnboardingInv'
<1>1. req'[r] = Done
  BY DEF Goes, OnboardingInv, OnboardingTypeOK
<1>2. /\ OnItsWay(r)' /\ HoldsItsInvite(r)' /\ HoldsTheFlag(r)'
      /\ LockedInvite(r)' = None /\ ~HoldsBootstrapLock(r)'
  BY <1>1 DEF Done, OnItsWay, Running, HoldsItsInvite, LockedInvite, HoldsTheFlag,
              HoldsBootstrapLock
<1>3. \A s \in Requests \ {r} : Apart(r, s)' /\ Apart(s, r)'
  BY <1>2 DEF Apart
<1>4. Done.pc = "done" /\ Done \in {Idle, Done} \cup Working
  BY DEF Done
<1>5. UNCHANGED <<database, up>>
  OBVIOUS
<1>6. was_closed' \subseteq Requests /\ \A s \in was_closed' : s \in was_closed
  BY DEF OnboardingInv, OnboardingTypeOK
<1> QED BY <1>2, <1>3, <1>4, <1>5, <1>6, MoveKeepsInv

\* A request that goes to another statement of its transaction, with what it has.
LEMMA AdvanceKeepsInv ==
  ASSUME OnboardingInv, NEW r \in Requests, r \in Running,
         NEW pc \in SignupSteps \cup BootstrapSteps, NEW i \in Invites \cup {None},
         Goes(r, [req[r] EXCEPT !.pc = pc, !.invite = i]),
         UNCHANGED <<database, token_file, available, up, was_closed>>,
         req[r].what = "signup" => /\ pc \in SignupSteps \ {"find"}
                                   /\ req[r].row.way = "invited" <=> i # None,
         req[r].what = "bootstrap" => pc \in BootstrapSteps /\ i = None,
         pc # "delete_file", req[r].pc # "delete_file",
         pc \in {"insert", "claim", "commit"} /\ i # None =>
            /\ i \in Invites /\ Matches(i, req[r].row)
            /\ \A s \in Requests \ {r} : LockedInvite(s) # i,
         pc \in {"insert", "grant"} /\ req[r].what = "bootstrap" =>
            /\ ~bootstrapped
            /\ \A s \in Requests \ {r} : ~HoldsBootstrapLock(s)
  PROVE  OnboardingInv'
<1> DEFINE q == [req[r] EXCEPT !.pc = pc, !.invite = i]
<1>1. req[r] \in Working /\ OnItsWay(r)
  BY RequestTypes DEF OnboardingInv
<1>2. /\ q \in Working /\ q.pc = pc /\ q.invite = i
      /\ q.what = req[r].what /\ q.row = req[r].row
  BY <1>1 DEF Working
<1>3. req'[r] = q
  BY DEF Goes, OnboardingInv, OnboardingTypeOK
<1>4. \A s \in Requests \ {r} :
        LockedInvite(s)' = LockedInvite(s) /\ HoldsBootstrapLock(s)' = HoldsBootstrapLock(s)
  BY DEF Goes, OnboardingInv, OnboardingTypeOK, LockedInvite, HoldsBootstrapLock
<1> HIDE DEF q
<1>5. OnItsWay(r)'
  BY <1>1, <1>2, <1>3 DEF OnItsWay, Running, SignupSteps, BootstrapSteps, Working
<1>6. /\ LockedInvite(r)' = IF pc \in {"insert", "claim", "commit"} THEN i ELSE None
      /\ HoldsBootstrapLock(r)' = (pc \in {"insert", "grant"} /\ req[r].what = "bootstrap")
  BY <1>2, <1>3 DEF LockedInvite, HoldsBootstrapLock
<1>7. HoldsItsInvite(r)'
  BY <1>2, <1>3, <1>6 DEF HoldsItsInvite, Matches, database
<1>8. HoldsTheFlag(r)'
  BY <1>2, <1>3, <1>6 DEF HoldsTheFlag, database
<1>9. \A s \in Requests \ {r} : Apart(r, s)' /\ Apart(s, r)'
  BY <1>4, <1>6 DEF Apart
<1>10. /\ token_file \in BOOLEAN /\ available \in BOOLEAN
       /\ ~bootstrapped => token_file /\ (up => available)
  BY DEF OnboardingInv, OnboardingTypeOK, FlagIsTrue
<1>11. req[r].pc \notin {"done", "delete_file"}
  BY DEF Running
<1>12. /\ UNCHANGED <<database, up>> /\ Goes(r, q)
       /\ token_file' = token_file /\ available' = available
       /\ was_closed' \subseteq Requests /\ \A s \in was_closed' : s \in was_closed
  BY DEF q, OnboardingInv, OnboardingTypeOK
<1> QED BY <1>2, <1>5, <1>7, <1>8, <1>9, <1>10, <1>11, <1>12, MoveKeepsInv

LEMMA StartBootstrapInv ==
  ASSUME OnboardingInv, NEW r \in Requests, NEW name \in Names, StartBootstrap(r, name)
  PROVE  OnboardingInv'
<1> DEFINE row_ == [name |-> name, email |-> None, by |-> r, keeper |-> TRUE,
                   way |-> "bootstrap"]
           q == [what |-> "bootstrap", pc |-> "bootstrap_lock", invite |-> None, row |-> row_]
<1> USE DEF OnboardingInv
<1>1. /\ req[r].pc = "idle" /\ UNCHANGED <<database, up>>
      /\ token_file' = token_file /\ was_closed' = was_closed
      /\ token_file \in BOOLEAN /\ available \in BOOLEAN /\ up
      /\ r \notin was_closed /\ was_closed \subseteq Requests
  BY DEF StartBootstrap, OnboardingTypeOK, OnItsWay
<1>2. ~bootstrapped => token_file /\ (up => available)
  BY DEF FlagIsTrue
<1>3. CASE token_file
  <2>1. Goes(r, q) /\ available' = available
    BY <1>3 DEF StartBootstrap
  <2>2. row_ \in Rows /\ q \in Working
    BY DEF Rows, Working, SignupSteps, BootstrapSteps
  <2>3. req'[r] = q
    BY <2>1 DEF Goes, OnboardingTypeOK
  <2>4. OnItsWay(r)'
    BY <1>1, <2>3 DEF OnItsWay, BootstrapSteps
  <2>5. LockedInvite(r)' = None /\ ~HoldsBootstrapLock(r)'
    BY <2>3 DEF LockedInvite, HoldsBootstrapLock
  <2>6. HoldsItsInvite(r)' /\ HoldsTheFlag(r)'
    BY <2>3, <2>5 DEF HoldsItsInvite, HoldsTheFlag
  <2>7. \A s \in Requests \ {r} : Apart(r, s)' /\ Apart(s, r)'
    BY <2>5 DEF Apart
  <2> HIDE DEF q, row_
  <2> QED BY <1>1, <1>2, <2>1, <2>2, <2>4, <2>6, <2>7, MoveKeepsInv
<1>4. CASE ~token_file
  <2>1. Goes(r, Done) /\ available' = FALSE /\ Done.pc = "done" /\ req'[r] = Done
    BY <1>4 DEF StartBootstrap, Done, Goes, OnboardingTypeOK
  <2>2. bootstrapped
    BY <1>2, <1>4
  <2>3. /\ OnItsWay(r)' /\ HoldsItsInvite(r)' /\ HoldsTheFlag(r)'
        /\ LockedInvite(r)' = None /\ ~HoldsBootstrapLock(r)'
    BY <2>1 DEF OnItsWay, Running, HoldsItsInvite, LockedInvite, HoldsTheFlag,
                HoldsBootstrapLock
  <2>4. \A s \in Requests \ {r} : Apart(r, s)' /\ Apart(s, r)'
    BY <2>3 DEF Apart
  <2> QED BY <1>1, <2>1, <2>2, <2>3, <2>4, MoveKeepsInv
<1> QED BY <1>1, <1>3, <1>4

\* What a step of a transaction finds in the invariant, and leaves alone.
LEMMA StepFacts ==
  ASSUME OnboardingInv, NEW r \in Requests,
         UNCHANGED <<database, token_file, available, up, was_closed>>
  PROVE  /\ UNCHANGED <<database, up, was_closed>>
         /\ token_file' \in BOOLEAN /\ available' \in BOOLEAN
         /\ ~bootstrapped => token_file' /\ (up => available')
<1> QED BY DEF OnboardingInv, OnboardingTypeOK, FlagIsTrue

LEMMA FindInviteInv ==
  ASSUME OnboardingInv, NEW r \in Requests, FindInvite(r)
  PROVE  OnboardingInv'
<1>1. /\ req[r].pc = "find" /\ r \in Running
      /\ UNCHANGED <<database, token_file, available, up, was_closed>>
  BY DEF FindInvite, Running
<1>2. req[r].what = "signup" /\ req[r].row.way = "invited"
  BY <1>1 DEF OnboardingInv, OnItsWay, BootstrapSteps
<1>3. CASE Goes(r, Done)
  BY <1>1, <1>3, StepFacts, EndKeepsInv
<1>4. ASSUME NEW i \in Invites,
             Goes(r, [req[r] EXCEPT !.pc = "lock", !.invite = i])
      PROVE  OnboardingInv'
  <2>1. i # None /\ "lock" \in SignupSteps
    BY NoneIsNothingElse DEF SignupSteps
  <2> QED BY <1>1, <1>2, <1>4, <2>1, AdvanceKeepsInv
<1> QED BY <1>3, <1>4 DEF FindInvite

\* The statements that keep the invite a request has, and go on to another.
LEMMA NextStatementKeepsInv ==
  ASSUME OnboardingInv, NEW r \in Requests, r \in Running,
         NEW pc \in SignupSteps \cup BootstrapSteps, At(r, pc),
         UNCHANGED <<database, token_file, available, up, was_closed>>,
         req[r].pc \notin {"find", "delete_file"}, pc # "delete_file",
         req[r].what = "signup" => pc \in SignupSteps \ {"find"},
         req[r].what = "bootstrap" => pc \in BootstrapSteps,
         pc \in {"insert", "claim", "commit"} /\ LockedInvite(r) = None =>
            req[r].invite = None
            \/ /\ Matches(req[r].invite, req[r].row)
               /\ \A s \in Requests \ {r} : LockedInvite(s) # req[r].invite,
         pc \in {"insert", "grant"} /\ req[r].what = "bootstrap" =>
            HoldsBootstrapLock(r)
            \/ /\ ~bootstrapped
               /\ \A s \in Requests \ {r} : ~HoldsBootstrapLock(s)
  PROVE  OnboardingInv'
<1> DEFINE i == req[r].invite
<1>1. req[r] \in Working /\ i \in Invites \cup {None}
  BY RequestTypes DEF OnboardingInv, Working
<1>2. Goes(r, [req[r] EXCEPT !.pc = pc, !.invite = i])
  <2>1. [req[r] EXCEPT !.pc = pc] = [req[r] EXCEPT !.pc = pc, !.invite = i]
    BY <1>1 DEF Working
  <2> QED BY <2>1 DEF At
<1>3. /\ req[r].what = "signup" => (req[r].row.way = "invited" <=> i # None)
      /\ req[r].what = "bootstrap" => i = None
  BY <1>1 DEF OnboardingInv, OnItsWay, Working
<1>4. ASSUME pc \in {"insert", "claim", "commit"}, i # None
      PROVE  /\ i \in Invites /\ Matches(i, req[r].row)
             /\ \A s \in Requests \ {r} : LockedInvite(s) # i
  <2>1. CASE LockedInvite(r) = None
    BY <2>1, <1>1, <1>4
  <2>2. CASE LockedInvite(r) # None
    BY <2>2, <1>1 DEF LockedInvite, OnboardingInv, HoldsItsInvite, Apart
  <2> QED BY <2>1, <2>2
<1>5. ASSUME pc \in {"insert", "grant"}, req[r].what = "bootstrap"
      PROVE  /\ ~bootstrapped
             /\ \A s \in Requests \ {r} : ~HoldsBootstrapLock(s)
  BY <1>5 DEF OnboardingInv, HoldsTheFlag, Apart
<1> HIDE DEF i
<1> QED BY <1>1, <1>2, <1>3, <1>4, <1>5, AdvanceKeepsInv

LEMMA LockInviteInv ==
  ASSUME OnboardingInv, NEW r \in Requests, LockInvite(r)
  PROVE  OnboardingInv'
<1>1. /\ req[r].pc = "lock" /\ r \in Running
      /\ UNCHANGED <<database, token_file, available, up, was_closed>>
      /\ \A s \in Requests \ {r} : LockedInvite(s) # req[r].invite
  BY DEF LockInvite, Running
<1>2. req[r].what = "signup" /\ "insert" \in SignupSteps \ {"find"}
  BY <1>1 DEF OnboardingInv, OnItsWay, SignupSteps, BootstrapSteps
<1>3. CASE Goes(r, Done)
  BY <1>1, <1>3, StepFacts, EndKeepsInv
<1>4. CASE Matches(req[r].invite, req[r].row) /\ At(r, "insert")
  BY <1>1, <1>2, <1>4, NextStatementKeepsInv
<1> QED BY <1>3, <1>4 DEF LockInvite

LEMMA InsertAccountInv ==
  ASSUME OnboardingInv, NEW r \in Requests, InsertAccount(r)
  PROVE  OnboardingInv'
<1>1. /\ req[r].pc = "insert" /\ r \in Running
      /\ UNCHANGED <<database, token_file, available, up, was_closed>>
  BY DEF InsertAccount, Running
<1>2. /\ req[r].what \in {"signup", "bootstrap"}
      /\ LockedInvite(r) = req[r].invite
      /\ req[r].what = "bootstrap" => HoldsBootstrapLock(r)
  BY <1>1 DEF OnboardingInv, OnItsWay, LockedInvite, HoldsBootstrapLock
<1>3. {"commit", "claim"} \subseteq SignupSteps \ {"find"} /\ "grant" \in BootstrapSteps
  BY DEF SignupSteps, BootstrapSteps
<1>4. CASE Goes(r, Done)
  BY <1>1, <1>4, StepFacts, EndKeepsInv
<1>5. CASE req[r].what = "bootstrap" /\ At(r, "grant")
  BY <1>1, <1>2, <1>3, <1>5, NextStatementKeepsInv
<1>6. ASSUME req[r].what = "signup", NEW pc \in {"commit", "claim"}, At(r, pc)
      PROVE  OnboardingInv'
  BY <1>1, <1>2, <1>3, <1>6, NextStatementKeepsInv
<1> QED BY <1>2, <1>4, <1>5, <1>6 DEF InsertAccount

LEMMA ClaimInviteInv ==
  ASSUME OnboardingInv, NEW r \in Requests, ClaimInvite(r)
  PROVE  OnboardingInv'
<1>1. /\ req[r].pc = "claim" /\ r \in Running
      /\ UNCHANGED <<database, token_file, available, up, was_closed>>
  BY DEF ClaimInvite, Running
<1>2. /\ req[r].what = "signup" /\ LockedInvite(r) = req[r].invite
      /\ "commit" \in SignupSteps \ {"find"}
  BY <1>1 DEF OnboardingInv, OnItsWay, LockedInvite, SignupSteps, BootstrapSteps
<1>3. CASE Goes(r, Done)
  BY <1>1, <1>3, StepFacts, EndKeepsInv
<1>4. CASE At(r, "commit")
  BY <1>1, <1>2, <1>4, NextStatementKeepsInv
<1> QED BY <1>3, <1>4 DEF ClaimInvite

LEMMA TakeBootstrapLockInv ==
  ASSUME OnboardingInv, NEW r \in Requests, TakeBootstrapLock(r)
  PROVE  OnboardingInv'
<1>1. /\ req[r].pc = "bootstrap_lock" /\ r \in Running
      /\ UNCHANGED <<database, token_file, available, up, was_closed>>
      /\ \A s \in Requests \ {r} : ~HoldsBootstrapLock(s)
  BY DEF TakeBootstrapLock, Running
<1>2. /\ req[r].what = "bootstrap" /\ req[r].invite = None
      /\ "insert" \in BootstrapSteps
  BY <1>1 DEF OnboardingInv, OnItsWay, SignupSteps, BootstrapSteps
<1>3. CASE Goes(r, Done)
  BY <1>1, <1>3, StepFacts, EndKeepsInv
<1>4. CASE ~bootstrapped /\ At(r, "insert")
  BY <1>1, <1>2, <1>4, NextStatementKeepsInv
<1> QED BY <1>3, <1>4 DEF TakeBootstrapLock

LEMMA FailInv ==
  ASSUME OnboardingInv, NEW r \in Requests, Fail(r)
  PROVE  OnboardingInv'
<1>1. /\ req[r].pc # "idle" /\ Goes(r, Done)
      /\ UNCHANGED <<database, token_file, available, up, was_closed>>
  BY DEF Fail
<1> QED BY <1>1, StepFacts, EndKeepsInv

LEMMA DeleteTokenFileInv ==
  ASSUME OnboardingInv, NEW r \in Requests, DeleteTokenFile(r)
  PROVE  OnboardingInv'
<1>1. /\ req[r].pc = "delete_file" /\ Goes(r, Done)
      /\ UNCHANGED <<database, up, was_closed>>
      /\ token_file' \in {FALSE, token_file} /\ available' = FALSE
  BY DEF DeleteTokenFile
<1>2. bootstrapped /\ token_file' \in BOOLEAN /\ available' \in BOOLEAN
  BY <1>1 DEF OnboardingInv, OnboardingTypeOK, HoldsTheFlag
<1> QED BY <1>1, <1>2, EndKeepsInv

------------------------------------------------------------------------------
(***************************************************************************)
(* The commits.                                                            *)
(***************************************************************************)

\* What a commit finds: nobody has used the request before, and its row is as it says.
LEMMA AtCommit ==
  ASSUME OnboardingInv, NEW r \in Requests, r \in Running
  PROVE  /\ req[r] \in Working /\ req[r].row \in Rows /\ req[r].row.by = r
         /\ r \in was_closed => req[r].row.way = "invited" \/ req[r].what = "bootstrap"
         /\ req[r].pc # "delete_file" => \A a \in account : a.by # r
         /\ \A i \in Claimed : invite[i].claimed_by # r
<1>1. req[r] \in Working /\ OnItsWay(r)
  BY RequestTypes DEF OnboardingInv
<1>2. req[r].row \in Rows
  BY <1>1 DEF Working
<1>3. req[r].pc # "delete_file" => \A a \in account : a.by # r
  BY DEF OnboardingInv, AccountIsSettled, Running
<1>4. \A i \in Claimed : invite[i].claimed_by # r
  BY DEF OnboardingInv, ClaimIsSettled, Running
<1> QED BY <1>1, <1>2, <1>3, <1>4 DEF OnItsWay

LEMMA CommitSignupInv ==
  ASSUME OnboardingInv, NEW r \in Requests, CommitSignup(r)
  PROVE  OnboardingInv'
<1> DEFINE row_ == req[r].row
           mine == req[r].invite
<1>1. /\ req[r].pc = "commit" /\ r \in Running /\ LockedInvite(r) = mine
      /\ account' = account \cup {row_}
      /\ invite' = IF mine = None THEN invite
                   ELSE [invite EXCEPT ![mine].claimed_by = r]
      /\ req' = [req EXCEPT ![r] = Done] /\ Done.pc = "done"
      /\ UNCHANGED <<open_signup, bootstrapped, token_file, available, up, was_closed>>
  BY DEF CommitSignup, Running, LockedInvite, Goes, Done
<1>2. /\ row_ \in Rows /\ row_.by = r /\ mine \in Invites \cup {None}
      /\ \A a \in account : a.by # r
      /\ \A i \in Claimed : invite[i].claimed_by # r
  BY <1>1, AtCommit DEF Working
<1>3. ~row_.keeper /\ (row_.way = "invited" <=> mine # None) /\ req[r].what = "signup"
  BY <1>1 DEF OnboardingInv, OnItsWay, BootstrapSteps
<1>4. r \in was_closed => row_.way = "invited"
  BY <1>1 DEF OnboardingInv, OnItsWay, BootstrapSteps
<1>5. mine # None => mine \in Invites /\ Matches(mine, row_)
  BY <1>1 DEF OnboardingInv, HoldsItsInvite
<1>6. OnboardingTypeOK
  BY DEF OnboardingInv
<1>7. \A i \in Invites : /\ mine = None \/ i # mine => invite'[i] = invite[i]
                         /\ invite[i] # None => invite[i] \in InviteRows
  BY <1>1, <1>6 DEF OnboardingTypeOK
<1>8. mine # None =>
        /\ invite'[mine] = [invite[mine] EXCEPT !.claimed_by = r]
        /\ invite[mine] \in InviteRows /\ invite[mine].claimed_by = None
  BY <1>1, <1>5, <1>6 DEF OnboardingTypeOK, Matches
<1>9. mine # None =>
        /\ invite'[mine] \in InviteRows /\ invite'[mine].claimed_by = r
        /\ invite'[mine].name = invite[mine].name /\ invite'[mine].email = invite[mine].email
  BY <1>8 DEF InviteRows
<1> HIDE DEF row_, mine
<1>10. OnboardingTypeOK'
  <2>1. invite' \in [Invites -> InviteRows \cup {None}]
    <3>1. CASE mine = None
      BY <1>1, <1>6, <3>1 DEF OnboardingTypeOK
    <3>2. CASE mine # None
      <4>1. DOMAIN invite' = Invites /\ invite' = [i \in Invites |-> invite'[i]]
        BY <1>1, <1>6, <3>2 DEF OnboardingTypeOK
      <4>2. \A i \in Invites : invite'[i] \in InviteRows \cup {None}
        BY <1>7, <1>9, <3>2
      <4> QED BY <4>1, <4>2
    <3> QED BY <3>1, <3>2
  <2>2. account' \subseteq Rows /\ req' \in [Requests -> {Idle, Done} \cup Working]
    BY <1>1, <1>2, <1>6 DEF OnboardingTypeOK
  <2> QED BY <1>1, <1>6, <2>1, <2>2 DEF OnboardingTypeOK
<1>11. req'[r] = Done /\ \A s \in Requests \ {r} : req'[s] = req[s]
  BY <1>1, <1>6 DEF OnboardingTypeOK
<1>12. ASSUME NEW s \in Requests
       PROVE  (OnItsWay(s) /\ HoldsItsInvite(s) /\ HoldsTheFlag(s))'
  <2>1. CASE s = r
    BY <1>1, <1>11, <2>1 DEF OnItsWay, Running, HoldsItsInvite, LockedInvite, HoldsTheFlag,
                             HoldsBootstrapLock
  <2>2. CASE s # r
    <3>1. OnItsWay(s) /\ HoldsItsInvite(s) /\ HoldsTheFlag(s) /\ Apart(s, r)
      BY <2>2 DEF OnboardingInv
    <3>2. req'[s] = req[s] /\ LockedInvite(s)' = LockedInvite(s)
      BY <1>11, <2>2 DEF LockedInvite
    <3>3. OnItsWay(s)'
      BY <1>1, <3>1, <3>2 DEF OnItsWay, Running
    <3>4. HoldsItsInvite(s)'
      BY <1>1, <1>7, <3>1, <3>2 DEF HoldsItsInvite, Apart, Matches
    <3>5. HoldsTheFlag(s)'
      BY <1>1, <3>1, <3>2 DEF HoldsTheFlag, HoldsBootstrapLock
    <3> QED BY <3>3, <3>4, <3>5
  <2> QED BY <2>1, <2>2
<1>13. \A p \in Requests : \A s \in Requests \ {p} : Apart(p, s)'
  <2> SUFFICES ASSUME NEW p \in Requests, NEW s \in Requests \ {p}
              PROVE  Apart(p, s)'
    OBVIOUS
  <2>1. Apart(p, s)
    BY DEF OnboardingInv
  <2>2. LockedInvite(r)' = None /\ ~HoldsBootstrapLock(r)'
    BY <1>1, <1>11 DEF LockedInvite, HoldsBootstrapLock
  <2>3. \A q \in Requests \ {r} :
            /\ LockedInvite(q)' = LockedInvite(q)
            /\ HoldsBootstrapLock(q)' = HoldsBootstrapLock(q)
    BY <1>11 DEF LockedInvite, HoldsBootstrapLock
  <2> QED BY <2>1, <2>2, <2>3 DEF Apart
<1>14. ASSUME NEW a \in account' PROVE AccountIsSettled(a)'
  <2>1. CASE a = row_
    BY <1>1, <1>2, <1>3, <1>4, <1>5, <1>9, <1>11, <2>1, NoneIsNothingElse
       DEF AccountIsSettled, Matches, InviteRows
  <2>2. CASE a \in account
    <3>1. AccountIsSettled(a) /\ a.by # r /\ a.by \in Requests
      BY <1>2, <1>6, <2>2 DEF OnboardingInv, OnboardingTypeOK, Rows
    <3>2. req'[a.by] = req[a.by]
      BY <1>11, <3>1
    <3>3. ASSUME NEW i \in Invites, invite[i] # None, invite[i].claimed_by = a.by
          PROVE  invite'[i] # None /\ invite'[i].claimed_by = a.by
      <4>1. mine = None \/ i # mine
        BY <1>8, <3>1, <3>3, NoneIsNothingElse
      <4> QED BY <1>7, <3>3, <4>1
    <3> QED BY <1>1, <3>1, <3>2, <3>3 DEF AccountIsSettled
  <2> QED BY <1>1, <2>1, <2>2
<1>15. /\ mine # None => mine \in Claimed'
       /\ \A i \in Invites : mine = None \/ i # mine => (i \in Claimed' <=> i \in Claimed)
       /\ Claimed' \subseteq Invites
       /\ \A i \in Claimed : mine = None \/ i # mine
  BY <1>5, <1>7, <1>8, <1>9, NoneIsNothingElse DEF Claimed, InviteRows
<1>16. ASSUME NEW i \in Claimed' PROVE ClaimIsSettled(i)'
  <2>1. CASE mine # None /\ i = mine
    BY <1>1, <1>5, <1>9, <1>11, <1>2, <2>1 DEF ClaimIsSettled, Matches
  <2>2. CASE mine = None \/ i # mine
    <3>1. i \in Claimed /\ ClaimIsSettled(i) /\ invite'[i] = invite[i]
      BY <1>7, <1>15, <2>2 DEF OnboardingInv
    <3>2. invite[i].claimed_by \in Requests \ {r}
      BY <1>2, <1>7, <3>1 DEF Claimed, InviteRows
    <3> QED BY <1>1, <1>11, <3>1, <3>2 DEF ClaimIsSettled
  <2> QED BY <2>1, <2>2
<1>17. ClaimsAreDistinct'
  <2> SUFFICES ASSUME NEW i \in Claimed', NEW j \in Claimed', i # j
              PROVE  invite'[i].claimed_by # invite'[j].claimed_by
    BY DEF ClaimsAreDistinct
  <2>1. \A k \in Claimed' : mine = None \/ k # mine =>
            k \in Claimed /\ invite'[k] = invite[k] /\ invite'[k].claimed_by # r
    BY <1>2, <1>7, <1>15
  <2> QED BY <2>1, <1>9 DEF OnboardingInv, ClaimsAreDistinct
<1>18. FlagIsTrue'
  BY <1>1, <1>3 DEF OnboardingInv, FlagIsTrue
<1> QED BY <1>10, <1>12, <1>13, <1>14, <1>16, <1>17, <1>18 DEF OnboardingInv

LEMMA CommitBootstrapInv ==
  ASSUME OnboardingInv, NEW r \in Requests, CommitBootstrap(r)
  PROVE  OnboardingInv'
<1> DEFINE row_ == req[r].row
<1>1. /\ req[r].pc = "grant" /\ r \in Running /\ HoldsBootstrapLock(r)
      /\ account' = account \cup {row_} /\ bootstrapped' = TRUE
      /\ req' = [req EXCEPT ![r] = [req[r] EXCEPT !.pc = "delete_file"]]
      /\ UNCHANGED <<invite, open_signup, token_file, available, up, was_closed>>
  <2>1. req[r].pc = "grant" /\ r \in Running
    BY DEF CommitBootstrap, Running
  <2>2. req[r].what = "bootstrap"
    BY <2>1 DEF OnboardingInv, OnItsWay, SignupSteps
  <2> QED BY <2>1, <2>2 DEF CommitBootstrap, HoldsBootstrapLock, At, Goes
<1>2. /\ row_ \in Rows /\ row_.by = r /\ row_.keeper /\ row_.way = "bootstrap"
      /\ req[r] \in Working /\ req[r].what = "bootstrap" /\ req[r].invite = None
      /\ r \notin was_closed
      /\ \A a \in account : a.by # r
      /\ \A i \in Claimed : invite[i].claimed_by # r
      /\ ~bootstrapped
  BY <1>1, AtCommit DEF OnboardingInv, OnItsWay, HoldsTheFlag, SignupSteps
<1>3. OnboardingTypeOK
  BY DEF OnboardingInv
<1> DEFINE q == [req[r] EXCEPT !.pc = "delete_file"]
<1>4. /\ q \in Working /\ q.pc = "delete_file" /\ q.what = "bootstrap"
      /\ q.invite = None /\ q.row = row_
  BY <1>2 DEF Working, BootstrapSteps
<1>5. req'[r] = q /\ \A s \in Requests \ {r} : req'[s] = req[s]
  BY <1>1, <1>3 DEF OnboardingTypeOK
<1>6. OnboardingTypeOK'
  BY <1>1, <1>2, <1>3, <1>4 DEF OnboardingTypeOK
<1> HIDE DEF q, row_
<1>7. ASSUME NEW s \in Requests
      PROVE  (OnItsWay(s) /\ HoldsItsInvite(s) /\ HoldsTheFlag(s))'
  <2>1. CASE s = r
    <3>1. OnItsWay(s)'
      BY <1>1, <1>2, <1>4, <1>5, <2>1 DEF OnItsWay, Running, BootstrapSteps
    <3>2. HoldsItsInvite(s)' /\ HoldsTheFlag(s)'
      BY <1>1, <1>4, <1>5, <2>1 DEF HoldsItsInvite, LockedInvite, HoldsTheFlag,
                                    HoldsBootstrapLock
    <3> QED BY <3>1, <3>2
  <2>2. CASE s # r
    <3>1. OnItsWay(s) /\ HoldsItsInvite(s) /\ HoldsTheFlag(s) /\ Apart(s, r)
      BY <2>2 DEF OnboardingInv
    <3>2. req'[s] = req[s] /\ ~HoldsBootstrapLock(s)
      BY <1>1, <1>5, <2>2, <3>1 DEF Apart
    <3>3. OnItsWay(s)' /\ HoldsItsInvite(s)'
      BY <1>1, <3>1, <3>2 DEF OnItsWay, Running, HoldsItsInvite, LockedInvite, Matches
    <3>4. HoldsTheFlag(s)'
      BY <1>1, <3>1, <3>2 DEF HoldsTheFlag, HoldsBootstrapLock
    <3> QED BY <3>3, <3>4
  <2> QED BY <2>1, <2>2
<1>8. \A p \in Requests : \A s \in Requests \ {p} : Apart(p, s)'
  <2> SUFFICES ASSUME NEW p \in Requests, NEW s \in Requests \ {p}
              PROVE  Apart(p, s)'
    OBVIOUS
  <2>1. Apart(p, s)
    BY DEF OnboardingInv
  <2>2. LockedInvite(r)' = None /\ ~HoldsBootstrapLock(r)'
    BY <1>4, <1>5 DEF LockedInvite, HoldsBootstrapLock
  <2>3. \A t \in Requests \ {r} :
            /\ LockedInvite(t)' = LockedInvite(t)
            /\ HoldsBootstrapLock(t)' = HoldsBootstrapLock(t)
    BY <1>5 DEF LockedInvite, HoldsBootstrapLock
  <2> QED BY <2>1, <2>2, <2>3 DEF Apart
<1>9. ASSUME NEW a \in account' PROVE AccountIsSettled(a)'
  <2>1. CASE a = row_
    BY <1>1, <1>2, <1>4, <1>5, <2>1 DEF AccountIsSettled
  <2>2. CASE a \in account
    <3>1. AccountIsSettled(a) /\ a.by # r /\ a.by \in Requests
      BY <1>2, <1>3, <2>2 DEF OnboardingInv, OnboardingTypeOK, Rows
    <3> QED BY <1>1, <1>5, <3>1 DEF AccountIsSettled
  <2> QED BY <1>1, <2>1, <2>2
<1>10. Claimed' = Claimed
  BY <1>1 DEF Claimed
<1>11. ASSUME NEW i \in Claimed PROVE ClaimIsSettled(i)'
  <2>1. ClaimIsSettled(i) /\ invite[i].claimed_by \in Requests \ {r}
    BY <1>2, <1>3 DEF OnboardingInv, OnboardingTypeOK, Claimed, InviteRows
  <2> QED BY <1>1, <1>5, <2>1 DEF ClaimIsSettled
<1>12. ClaimsAreDistinct'
  BY <1>1, <1>10 DEF OnboardingInv, ClaimsAreDistinct
<1>13. FlagIsTrue'
  BY <1>1, <1>2 DEF OnboardingInv, FlagIsTrue
<1> QED BY <1>6, <1>7, <1>8, <1>9, <1>10, <1>11, <1>12, <1>13 DEF OnboardingInv

------------------------------------------------------------------------------
(***************************************************************************)
(* Invites, the setting and the process.                                   *)
(***************************************************************************)

\* An invite nobody has locked or claimed may be written or go.
LEMMA UnclaimedInviteMayChange ==
  ASSUME OnboardingInv, NEW i \in Invites, i \notin Claimed,
         \A r \in Requests : LockedInvite(r) # i,
         NEW row_ \in InviteRows \cup {None}, row_ # None => row_.claimed_by = None,
         invite' = [invite EXCEPT ![i] = row_],
         UNCHANGED <<account, open_signup, bootstrapped, token_file, available, up, req,
                     was_closed>>
  PROVE  OnboardingInv'
<1> USE DEF OnboardingInv
<1>1. OnboardingTypeOK'
  BY DEF OnboardingTypeOK
<1>2. invite'[i] = row_ /\ \A j \in Invites \ {i} : invite'[j] = invite[j]
  BY DEF OnboardingTypeOK
<1>3. Claimed' = Claimed
  BY <1>2 DEF Claimed
<1>4. ASSUME NEW r \in Requests
      PROVE  (OnItsWay(r) /\ HoldsItsInvite(r) /\ HoldsTheFlag(r))'
  <2>1. OnItsWay(r)' /\ HoldsTheFlag(r)'
    BY DEF OnItsWay, Running, HoldsTheFlag, HoldsBootstrapLock
  <2>2. HoldsItsInvite(r)'
    BY <1>2 DEF HoldsItsInvite, LockedInvite, Matches
  <2> QED BY <2>1, <2>2
<1>5. \A r \in Requests : \A s \in Requests \ {r} : Apart(r, s)'
  BY DEF Apart, LockedInvite, HoldsBootstrapLock
<1>6. ASSUME NEW a \in account PROVE AccountIsSettled(a)'
  <2>1. AccountIsSettled(a) /\ a.by # None
    BY NoneIsNothingElse DEF OnboardingTypeOK, Rows
  <2>2. \A j \in Invites : invite[j] # None /\ invite[j].claimed_by = a.by => j # i
    BY <2>1 DEF Claimed
  <2> QED BY <1>2, <2>1, <2>2 DEF AccountIsSettled
<1>7. \A j \in Claimed : ClaimIsSettled(j)'
  BY <1>2 DEF ClaimIsSettled, Claimed
<1>8. ClaimsAreDistinct'
  BY <1>2, <1>3 DEF ClaimsAreDistinct, Claimed
<1>9. FlagIsTrue'
  BY DEF FlagIsTrue
<1> QED BY <1>1, <1>3, <1>4, <1>5, <1>6, <1>7, <1>8, <1>9

LEMMA InviteCreateInv ==
  ASSUME OnboardingInv, NEW i \in Invites, InviteCreate(i)
  PROVE  OnboardingInv'
<1>1. /\ i \notin Claimed
      /\ UNCHANGED <<account, open_signup, bootstrapped, token_file, available, up, req,
                     was_closed>>
  BY DEF InviteCreate, Claimed
<1>2. \A r \in Requests : LockedInvite(r) # i
  BY NoneIsNothingElse DEF InviteCreate, OnboardingInv, HoldsItsInvite, Matches
<1>3. PICK name \in Names \cup {None}, email \in {Email, None} :
        invite' = [invite EXCEPT ![i] =
                    [name |-> name, email |-> email, claimed_by |-> None]]
  BY DEF InviteCreate
<1> DEFINE row_ == [name |-> name, email |-> email, claimed_by |-> None]
<1>4. row_ \in InviteRows /\ row_.claimed_by = None /\ invite' = [invite EXCEPT ![i] = row_]
  BY <1>3 DEF InviteRows
<1> HIDE DEF row_
<1> QED BY <1>1, <1>2, <1>4, UnclaimedInviteMayChange

LEMMA InviteDeleteInv ==
  ASSUME OnboardingInv, NEW i \in Invites, InviteDelete(i)
  PROVE  OnboardingInv'
<1>1. /\ i \notin Claimed /\ invite' = [invite EXCEPT ![i] = None]
      /\ \A r \in Requests : LockedInvite(r) # i
      /\ UNCHANGED <<account, open_signup, bootstrapped, token_file, available, up, req,
                     was_closed>>
  BY DEF InviteDelete, Claimed
<1> QED BY <1>1, UnclaimedInviteMayChange

LEMMA SetOpenSignupInv ==
  ASSUME OnboardingInv, NEW open \in BOOLEAN, SetOpenSignup(open)
  PROVE  OnboardingInv'
<1> USE DEF OnboardingInv
<1>1. /\ UNCHANGED <<account, invite, bootstrapped, token_file, available, up, req>>
      /\ open_signup' \in BOOLEAN /\ was_closed' \subseteq was_closed
  BY DEF SetOpenSignup
<1>2. OnboardingTypeOK'
  BY <1>1 DEF OnboardingTypeOK
<1>3. \A r \in Requests : (OnItsWay(r) /\ HoldsItsInvite(r) /\ HoldsTheFlag(r))'
  BY <1>1 DEF OnItsWay, Running, HoldsItsInvite, LockedInvite, Matches, HoldsTheFlag,
              HoldsBootstrapLock
<1>4. \A r \in Requests : \A s \in Requests \ {r} : Apart(r, s)'
  BY <1>1 DEF Apart, LockedInvite, HoldsBootstrapLock
<1>5. \A a \in account : AccountIsSettled(a)'
  BY <1>1 DEF AccountIsSettled
<1>6. Claimed' = Claimed /\ ClaimsAreDistinct' /\ \A i \in Claimed : ClaimIsSettled(i)'
  BY <1>1 DEF Claimed, ClaimsAreDistinct, ClaimIsSettled
<1>7. FlagIsTrue'
  BY <1>1 DEF FlagIsTrue
<1> QED BY <1>1, <1>2, <1>3, <1>4, <1>5, <1>6, <1>7

LEMMA CrashInv == ASSUME OnboardingInv, Crash PROVE OnboardingInv'
<1> USE DEF OnboardingInv
<1>1. /\ UNCHANGED <<account, invite, open_signup, bootstrapped, token_file, available,
                     was_closed>>
      /\ up' = FALSE
      /\ req' = [r \in Requests |-> IF r \in Running THEN Done ELSE req[r]]
  BY DEF Crash, database
<1>2. OnboardingTypeOK'
  BY <1>1 DEF OnboardingTypeOK
<1>3. \A r \in Requests :
        /\ req'[r].pc \in {"idle", "done"}
        /\ req'[r].pc = "idle" => req[r].pc = "idle"
        /\ req[r].pc = "done" => req'[r].pc = "done"
        /\ req[r].pc = "delete_file" => req'[r].pc = "done"
  BY <1>1 DEF Running, Done
<1>4. \A r \in Requests : LockedInvite(r)' = None /\ ~HoldsBootstrapLock(r)'
  BY <1>3 DEF LockedInvite, HoldsBootstrapLock
<1>5. \A r \in Requests : (OnItsWay(r) /\ HoldsItsInvite(r) /\ HoldsTheFlag(r))'
  BY <1>1, <1>3, <1>4 DEF OnItsWay, Running, HoldsItsInvite, HoldsTheFlag
<1>6. \A r \in Requests : \A s \in Requests \ {r} : Apart(r, s)'
  BY <1>4 DEF Apart
<1>7. \A a \in account : AccountIsSettled(a)'
  BY <1>1, <1>3 DEF AccountIsSettled, OnboardingTypeOK, Rows
<1>8. Claimed' = Claimed /\ ClaimsAreDistinct'
  BY <1>1 DEF Claimed, ClaimsAreDistinct
<1>9. \A i \in Claimed : ClaimIsSettled(i)'
  BY <1>1, <1>3 DEF ClaimIsSettled, Claimed, OnboardingTypeOK, InviteRows
<1>10. FlagIsTrue'
  BY <1>1 DEF FlagIsTrue
<1> QED BY <1>1, <1>2, <1>5, <1>6, <1>7, <1>8, <1>9, <1>10

LEMMA UpMayChange ==
  ASSUME OnboardingInv, up' \in BOOLEAN, available' \in BOOLEAN,
         ~bootstrapped => (up' => available'),
         UNCHANGED <<database, token_file, req, was_closed>>
  PROVE  OnboardingInv'
<1> USE DEF OnboardingInv, database
<1>1. OnboardingTypeOK'
  BY DEF OnboardingTypeOK
<1>2. \A r \in Requests : (OnItsWay(r) /\ HoldsItsInvite(r) /\ HoldsTheFlag(r))'
  BY DEF OnItsWay, Running, HoldsItsInvite, LockedInvite, Matches, HoldsTheFlag,
         HoldsBootstrapLock
<1>3. \A r \in Requests : \A s \in Requests \ {r} : Apart(r, s)'
  BY DEF Apart, LockedInvite, HoldsBootstrapLock
<1>4. \A a \in account : AccountIsSettled(a)'
  BY DEF AccountIsSettled
<1>5. Claimed' = Claimed /\ ClaimsAreDistinct' /\ \A i \in Claimed : ClaimIsSettled(i)'
  BY DEF Claimed, ClaimsAreDistinct, ClaimIsSettled
<1>6. FlagIsTrue'
  BY DEF FlagIsTrue
<1> QED BY <1>1, <1>2, <1>3, <1>4, <1>5, <1>6

LEMMA RestartInv == ASSUME OnboardingInv, Restart PROVE OnboardingInv'
<1>1. /\ up' = TRUE /\ available' = (token_file /\ ~bootstrapped)
      /\ UNCHANGED <<database, token_file, req, was_closed>>
  BY DEF Restart
<1>2. token_file \in BOOLEAN /\ bootstrapped \in BOOLEAN /\ (~bootstrapped => token_file)
  BY DEF OnboardingInv, OnboardingTypeOK, FlagIsTrue
<1>3. available' \in BOOLEAN /\ (~bootstrapped => available')
  BY <1>1, <1>2
<1> QED BY <1>1, <1>3, UpMayChange

------------------------------------------------------------------------------
(***************************************************************************)
(* The theorems.                                                           *)
(***************************************************************************)
LEMMA OnboardingNextInv ==
  ASSUME OnboardingInv, [OnboardingNext]_onboarding_vars PROVE OnboardingInv'
<1>1. CASE UNCHANGED onboarding_vars
  BY <1>1, UpMayChange DEF onboarding_vars, database, OnboardingInv, OnboardingTypeOK,
                           FlagIsTrue
<1>2. ASSUME NEW i \in Invites, InviteCreate(i) \/ InviteDelete(i) PROVE OnboardingInv'
  BY <1>2, InviteCreateInv, InviteDeleteInv
<1>3. ASSUME NEW open \in BOOLEAN, SetOpenSignup(open) PROVE OnboardingInv'
  BY <1>3, SetOpenSignupInv
<1>4. ASSUME NEW r \in Requests, NEW name \in Names,
             StartBootstrap(r, name)
             \/ \E email \in {Email, None} : StartSignup(r, name, email)
      PROVE  OnboardingInv'
  BY <1>4, StartBootstrapInv, StartSignupInv
<1>5. ASSUME NEW r \in Requests,
             \/ FindInvite(r) \/ LockInvite(r) \/ InsertAccount(r) \/ ClaimInvite(r)
             \/ CommitSignup(r) \/ TakeBootstrapLock(r) \/ CommitBootstrap(r)
             \/ DeleteTokenFile(r) \/ Fail(r)
      PROVE  OnboardingInv'
  BY <1>5, FindInviteInv, LockInviteInv, InsertAccountInv, ClaimInviteInv, CommitSignupInv,
     TakeBootstrapLockInv, CommitBootstrapInv, DeleteTokenFileInv, FailInv
<1> QED BY <1>1, <1>2, <1>3, <1>4, <1>5, CrashInv, RestartInv DEF OnboardingNext

\* The invariant holds in every state, for any requests, names and invites.
THEOREM OnboardingInvariant == OnboardingSpec => []OnboardingInv
<1> QED BY OnboardingInitInv, OnboardingNextInv, PTL DEF OnboardingSpec

\* Each account was let in, and by one invite at most (CommitSignup, and
\* query_invite_find_unclaimed_match_for_update that locks what it will claim).
THEOREM AccountsAreLetIn == OnboardingSpec => []EveryAccountWasLetIn
<1>1. ASSUME OnboardingInv PROVE EveryAccountWasLetIn
  <2>1. \A a \in account : AccountIsSettled(a)
    BY <1>1 DEF OnboardingInv
  <2>2. \A i \in Claimed : ClaimIsSettled(i)
    BY <1>1 DEF OnboardingInv
  <2>3. \A i, j \in Invites :
            i # j /\ invite[i] # None /\ invite[j] # None /\ invite[i].claimed_by # None =>
                invite[i].claimed_by # invite[j].claimed_by
    BY <1>1 DEF OnboardingInv, ClaimsAreDistinct, Claimed
  <2> QED BY <2>1, <2>2, <2>3
          DEF EveryAccountWasLetIn, AccountIsSettled, ClaimIsSettled, Claimed
<1> QED BY <1>1, OnboardingInvariant, PTL

\* There is one keeper at most, and without one the bootstrap can still be done, whatever
\* requests raced and wherever the process went down (bootstrap_account).
THEOREM OneKeeper == OnboardingSpec => []OneKeeperOrAToken
<1>1. ASSUME OnboardingInv PROVE OneKeeperOrAToken
  <2> DEFINE keepers == {a \in account : a.keeper}
  <2>1. FlagIsTrue
    BY <1>1 DEF OnboardingInv
  <2>2. Cardinality(keepers) <= 1
    <3>1. CASE keepers = {}
      BY <3>1, FS_EmptySet
    <3>2. CASE keepers # {}
      <4>1. PICK a \in keepers : TRUE
        BY <3>2
      <4>2. keepers = {a}
        BY <2>1, <4>1 DEF FlagIsTrue
      <4>3. Cardinality({a}) = 1
        BY FS_Singleton
      <4> HIDE DEF keepers
      <4> QED BY <4>2, <4>3
    <3> QED BY <3>1, <3>2
  <2>3. keepers = {} => token_file /\ ~bootstrapped /\ (up => available)
    BY <2>1 DEF FlagIsTrue
  <2> QED BY <2>2, <2>3 DEF OneKeeperOrAToken
<1> QED BY <1>1, OnboardingInvariant, PTL

-----------------------------------------------------------------------------
\* The signups of the server are signups (MCServer's part of that name).
LEMMA SignupsAreAPart == ServerParts => OnboardingSpec
<1>1. ServerInit => OnboardingInit
  BY DEF ServerInit
<1>2. [ServerNext]_server_vars => [OnboardingNext]_onboarding_vars
  BY DEF ServerNext, server_vars
<1> QED BY <1>1, <1>2, PTL DEF ServerParts, OnboardingSpec

\* What both instances bring of FiniteSets.
LEMMA OneCardinality == \A S : Credentials!Cardinality(S) = ProvedLogins!Cardinality(S)
  BY DEF Credentials!Cardinality, ProvedLogins!Cardinality

\* The two instances of Logins are one: what is said of either is said of the other.
LEMMA OneLogins ==
  /\ Credentials!LoginsInit <=> ProvedLogins!LoginsInit
  /\ Credentials!LoginsNext <=> ProvedLogins!LoginsNext
<1>1. Credentials!LoginsInit <=> ProvedLogins!LoginsInit
  BY DEF Credentials!LoginsInit, ProvedLogins!LoginsInit, Credentials!Idle,
         ProvedLogins!Idle, Credentials!Resting, ProvedLogins!Resting
<1>2. \A what, pc, by, todo :
        Credentials!Begun(what, pc, by, todo) = ProvedLogins!Begun(what, pc, by, todo)
  BY DEF Credentials!Begun, ProvedLogins!Begun
<1>3. \A s, n : Credentials!Newest(s, n) = ProvedLogins!Newest(s, n)
  BY OneCardinality DEF Credentials!Newest, ProvedLogins!Newest
<1>4. \A r, kind : Credentials!OverTheLimit(r, kind) = ProvedLogins!OverTheLimit(r, kind)
  BY <1>3 DEF Credentials!OverTheLimit, ProvedLogins!OverTheLimit, Credentials!MadeBy,
         ProvedLogins!MadeBy, Credentials!InTransaction, ProvedLogins!InTransaction
<1>5. \A r, kind : Credentials!Rows(r, kind) = ProvedLogins!Rows(r, kind)
  BY <1>4 DEF Credentials!Rows, ProvedLogins!Rows
<1>6. \A r, record : Credentials!Starts(r, record) <=> ProvedLogins!Starts(r, record)
  BY DEF Credentials!Starts, ProvedLogins!Starts, Credentials!histories,
         ProvedLogins!histories, Credentials!rows, ProvedLogins!rows
<1>7. \A r : Credentials!StartLogin(r) <=> ProvedLogins!StartLogin(r)
  BY <1>2, <1>6 DEF Credentials!StartLogin, ProvedLogins!StartLogin
<1>8. \A r : Credentials!StartPasswordChange(r) <=> ProvedLogins!StartPasswordChange(r)
  BY <1>2, <1>6 DEF Credentials!StartPasswordChange, ProvedLogins!StartPasswordChange,
         Credentials!Valid, ProvedLogins!Valid
<1>9. \A r : Credentials!StartTokenCreate(r) <=> ProvedLogins!StartTokenCreate(r)
  BY <1>2, <1>6 DEF Credentials!StartTokenCreate, ProvedLogins!StartTokenCreate,
         Credentials!Valid, ProvedLogins!Valid
<1>10. \A r : Credentials!StartRevoke(r) <=> ProvedLogins!StartRevoke(r)
  BY <1>2, <1>6 DEF Credentials!StartRevoke, ProvedLogins!StartRevoke, Credentials!Issued,
         ProvedLogins!Issued, Credentials!Valid, ProvedLogins!Valid
<1>11. \A r : Credentials!StartLogout(r) <=> ProvedLogins!StartLogout(r)
  BY <1>2, <1>6 DEF Credentials!StartLogout, ProvedLogins!StartLogout, Credentials!Valid,
         ProvedLogins!Valid
<1>12. \A r : Credentials!StartRevokeAll(r) <=> ProvedLogins!StartRevokeAll(r)
  BY <1>2, <1>6 DEF Credentials!StartRevokeAll, ProvedLogins!StartRevokeAll,
         Credentials!Kinds, ProvedLogins!Kinds
<1>13. \A r : Credentials!StartDelete(r) <=> ProvedLogins!StartDelete(r)
  BY <1>2, <1>6 DEF Credentials!StartDelete, ProvedLogins!StartDelete
<1>14. \A r : Credentials!UpdatePassword(r) <=> ProvedLogins!UpdatePassword(r)
  BY DEF Credentials!UpdatePassword, ProvedLogins!UpdatePassword, Credentials!Done,
         ProvedLogins!Done, Credentials!Unfinished, ProvedLogins!Unfinished,
         Credentials!histories, ProvedLogins!histories, Credentials!rows, ProvedLogins!rows,
         Credentials!AccountIsHeld, ProvedLogins!AccountIsHeld, Credentials!InTransaction,
         ProvedLogins!InTransaction
<1>15. \A r : Credentials!Tombstone(r) <=> ProvedLogins!Tombstone(r)
  BY DEF Credentials!Tombstone, ProvedLogins!Tombstone, Credentials!Done, ProvedLogins!Done,
         Credentials!Unfinished, ProvedLogins!Unfinished, Credentials!histories,
         ProvedLogins!histories, Credentials!rows, ProvedLogins!rows,
         Credentials!AccountIsHeld, ProvedLogins!AccountIsHeld, Credentials!InTransaction,
         ProvedLogins!InTransaction
<1>16. \A r : Credentials!Insert(r) <=> ProvedLogins!Insert(r)
  BY DEF Credentials!Insert, ProvedLogins!Insert, Credentials!InTransaction,
         ProvedLogins!InTransaction
<1>17. \A r : Credentials!Find(r) <=> ProvedLogins!Find(r)
  BY <1>5 DEF Credentials!Find, ProvedLogins!Find, Credentials!histories,
         ProvedLogins!histories, Credentials!rows, ProvedLogins!rows
<1>18. \A r : Credentials!Remove(r) <=> ProvedLogins!Remove(r)
  BY DEF Credentials!Remove, ProvedLogins!Remove, Credentials!MadeBy, ProvedLogins!MadeBy,
         Credentials!InTransaction, ProvedLogins!InTransaction, Credentials!DoomedBy,
         ProvedLogins!DoomedBy, Credentials!histories, ProvedLogins!histories,
         Credentials!rows, ProvedLogins!rows
<1>19. \A r : Credentials!Commit(r) <=> ProvedLogins!Commit(r)
  BY DEF Credentials!Commit, ProvedLogins!Commit, Credentials!Committed,
         ProvedLogins!Committed, Credentials!Idle, ProvedLogins!Idle, Credentials!MadeBy,
         ProvedLogins!MadeBy, Credentials!InTransaction, ProvedLogins!InTransaction,
         Credentials!DoomedBy, ProvedLogins!DoomedBy, Credentials!RevokesAll,
         ProvedLogins!RevokesAll
<1>20. \A r : Credentials!CommitUnheard(r) <=> ProvedLogins!CommitUnheard(r)
  BY DEF Credentials!CommitUnheard, ProvedLogins!CommitUnheard, Credentials!Done,
         ProvedLogins!Done, Credentials!DoomedBy, ProvedLogins!DoomedBy,
         Credentials!InTransaction, ProvedLogins!InTransaction, Credentials!Committed,
         ProvedLogins!Committed, Credentials!Idle, ProvedLogins!Idle, Credentials!MadeBy,
         ProvedLogins!MadeBy, Credentials!RevokesAll, ProvedLogins!RevokesAll
<1>21. \A r : Credentials!Fail(r) <=> ProvedLogins!Fail(r)
  BY DEF Credentials!Fail, ProvedLogins!Fail, Credentials!Done, ProvedLogins!Done,
         Credentials!InTransaction, ProvedLogins!InTransaction, Credentials!histories,
         ProvedLogins!histories, Credentials!rows, ProvedLogins!rows
<1>22. \A r : Credentials!Close(r) <=> ProvedLogins!Close(r)
  BY DEF Credentials!Close, ProvedLogins!Close, Credentials!Done, ProvedLogins!Done,
         Credentials!histories, ProvedLogins!histories, Credentials!rows, ProvedLogins!rows,
         Credentials!Closes, ProvedLogins!Closes, Credentials!Issued, ProvedLogins!Issued
<1>23. \A c : Credentials!Connect(c) <=> ProvedLogins!Connect(c)
  BY DEF Credentials!Connect, ProvedLogins!Connect, Credentials!Valid, ProvedLogins!Valid,
         Credentials!histories, ProvedLogins!histories, Credentials!rows, ProvedLogins!rows
<1>24. \A c : Credentials!Expire(c) <=> ProvedLogins!Expire(c)
  BY DEF Credentials!Expire, ProvedLogins!Expire, Credentials!histories,
         ProvedLogins!histories
<1>25. Credentials!Sweep <=> ProvedLogins!Sweep
  BY DEF Credentials!Sweep, ProvedLogins!Sweep, Credentials!Resting, ProvedLogins!Resting,
         Credentials!DoomedBy, ProvedLogins!DoomedBy, Credentials!InTransaction,
         ProvedLogins!InTransaction, Credentials!histories, ProvedLogins!histories,
         Credentials!rows, ProvedLogins!rows
<1>26. Credentials!SweepCommit <=> ProvedLogins!SweepCommit
  BY DEF Credentials!SweepCommit, ProvedLogins!SweepCommit, Credentials!SweepEnds,
         ProvedLogins!SweepEnds, Credentials!histories, ProvedLogins!histories
<1>27. Credentials!SweepClose <=> ProvedLogins!SweepClose
  BY DEF Credentials!SweepClose, ProvedLogins!SweepClose, Credentials!Resting,
         ProvedLogins!Resting, Credentials!histories, ProvedLogins!histories,
         Credentials!rows, ProvedLogins!rows
<1>28. Credentials!Undelete <=> ProvedLogins!Undelete
  BY DEF Credentials!Undelete, ProvedLogins!Undelete, Credentials!InTransaction,
         ProvedLogins!InTransaction, Credentials!histories, ProvedLogins!histories
<1>29. Credentials!LoginsNext <=> ProvedLogins!LoginsNext
  BY <1>7, <1>8, <1>9, <1>10, <1>11, <1>12, <1>13, <1>14, <1>15, <1>16, <1>17, <1>18, <1>19,
     <1>20, <1>21, <1>22, <1>23, <1>24, <1>25, <1>26, <1>27, <1>28
     DEF Credentials!LoginsNext, ProvedLogins!LoginsNext, Credentials!Issued, ProvedLogins!Issued
<1> QED BY <1>1, <1>29

\* The logins of the server are logins.
LEMMA LoginsAreAPart == ServerParts => ProvedLogins!LoginsSpec
<1>1. ServerInit => ProvedLogins!LoginsInit
  BY OneLogins DEF ServerInit
<1>2. [ServerNext]_server_vars => [ProvedLogins!LoginsNext]_(ProvedLogins!login_vars)
  BY OneLogins DEF ServerNext, server_vars, login_vars, ProvedLogins!login_vars
<1> QED BY <1>1, <1>2, PTL DEF ServerParts, ProvedLogins!LoginsSpec

\* Every account was let in once: by an invite that became its own, by bootstrap's token or
\* by open signup, and there is one keeper, whatever signups, invites and bootstraps run
\* beside one another.
THEOREM EveryAccountWasInvitedOnce == ServerParts => []AccountsWereLetIn
<1>1. EveryAccountWasLetIn /\ OneKeeperOrAToken => AccountsWereLetIn
  BY DEF AccountsWereLetIn
<1> QED BY <1>1, SignupsAreAPart, AccountsAreLetIn, OneKeeper, PTL

\* What outlives a password change or a deletion was in flight as it ran, and no credential
\* that ended keeps a connection that nothing is about to close.
THEOREM TrustEndsItsCredentials == ServerParts => []CredentialsEndWithTheTrust
<1>1. /\ ProvedLogins!OnlyTheOvertakenOutlive
      /\ ProvedLogins!EndedCredentialsLoseTheirConnections
      => CredentialsEndWithTheTrust
  BY DEF CredentialsEndWithTheTrust, Credentials!OnlyTheOvertakenOutlive,
         ProvedLogins!OnlyTheOvertakenOutlive,
         Credentials!EndedCredentialsLoseTheirConnections,
         ProvedLogins!EndedCredentialsLoseTheirConnections,
         Credentials!Closes, ProvedLogins!Closes, Credentials!Issued, ProvedLogins!Issued
<1> QED BY <1>1, LoginsAreAPart, ProvedLogins!OnlyWhatWasInFlightOutlives,
           ProvedLogins!ConnectionsEndWithTheirCredential, PTL

\* The limit of sessions and tokens is passed by overlapping creators alone.
THEOREM LimitsHoldButForOverlap == ServerParts => []OnlyOverlapPassesTheLimit
<1>1. ProvedLogins!LoginsSpec => []ProvedLogins!OnlyOverlapPassesTheLimit
  BY SomeCredentials, ProvedLogins!OnlyOverlapIsOverTheLimit
<1>2. ProvedLogins!OnlyOverlapPassesTheLimit => OnlyOverlapPassesTheLimit
  BY OneCardinality
     DEF OnlyOverlapPassesTheLimit, Credentials!OnlyOverlapPassesTheLimit,
         ProvedLogins!OnlyOverlapPassesTheLimit, Credentials!Kinds, ProvedLogins!Kinds
<1> QED BY <1>1, <1>2, LoginsAreAPart, PTL

-----------------------------------------------------------------------------
(***************************************************************************)
(* Requests to clients (PeerRequests): an id is pending only on the        *)
(* connection it was issued for, and what of it is recorded is typed.      *)
(***************************************************************************)
PeerOutcomes == {"none", "value", "client_error", "timeout", "connection_gone"}

PeerTypes ==
  /\ next_id \in Nat
  /\ registration \in [Connections -> {"pending", "admitted", "gone"}]
  /\ pending \in [Connections -> SUBSET Peers!Issued]
  /\ owner \in [Peers!Issued -> Connections]
  /\ outcome \in [Peers!Issued -> PeerOutcomes]
  /\ answered_on \in [Peers!Issued -> SUBSET Connections]

PendingOnTheirOwner == \A c \in Connections : \A id \in pending[c] : owner[id] = c

PeerInv == PeerTypes /\ PendingOnTheirOwner /\ Peers!AnswersStayOnTheirConnection

\* What a step of the requests leaves as it is: the outcomes that stand.
OutcomesStand == \A id \in Peers!Issued : outcome[id] # "none" => outcome'[id] = outcome[id]

\* The ids after the next is issued.
LEMMA NextIssued ==
  ASSUME next_id \in Nat, next_id' = next_id + 1
  PROVE  /\ Peers!Issued' = Peers!Issued \cup {next_id'}
         /\ next_id' \notin Peers!Issued
         /\ next_id' \in Nat
  BY DEF Peers!Issued

\* An admission changes nothing of the requests.
LEMMA PeersAdmit ==
  ASSUME PeerInv, NEW c \in Connections, Peers!AdmitConnection(c)
  PROVE  PeerInv' /\ OutcomesStand
<1> USE DEF Peers!Issued
<1>1. PeerTypes'
  BY DEF PeerInv, PeerTypes, Peers!AdmitConnection, Peers!peer_vars
<1>2. PendingOnTheirOwner' /\ OutcomesStand
  BY DEF PeerInv, PendingOnTheirOwner, OutcomesStand, Peers!AdmitConnection, Peers!peer_vars
<1>3. Peers!AnswersStayOnTheirConnection'
  BY DEF PeerInv, PeerTypes, Peers!AnswersStayOnTheirConnection, Peers!AdmitConnection,
         Peers!peer_vars
<1> QED BY <1>1, <1>2, <1>3 DEF PeerInv

\* The drain of a connection that ends.
LEMMA PeersEnd ==
  ASSUME PeerInv, NEW c \in Connections, Peers!EndConnection(c)
  PROVE  PeerInv' /\ OutcomesStand
<1> USE DEF Peers!EndConnection, Peers!Cleanup, Peers!Drain, Peers!DrainedOutcome, Peers!Issued
<1>1. PeerTypes'
  BY DEF PeerInv, PeerTypes, PeerOutcomes
<1>2. PendingOnTheirOwner'
  BY DEF PeerInv, PeerTypes, PendingOnTheirOwner
<1>3. OutcomesStand
  BY DEF PeerInv, PeerTypes, PendingOnTheirOwner, OutcomesStand, Peers!AnswersStayOnTheirConnection
<1>4. Peers!AnswersStayOnTheirConnection'
  BY DEF PeerInv, PeerTypes, PendingOnTheirOwner, Peers!AnswersStayOnTheirConnection
<1> QED BY <1>1, <1>2, <1>3, <1>4 DEF PeerInv

\* Whatever settles a pending request: an answer of its own connection, or its timer.
LEMMA PeersSettle ==
  ASSUME PeerInv, NEW id \in Peers!Issued, NEW what \in PeerOutcomes \ {"none"},
         id \in pending[owner[id]], Peers!SettledWith(id, what),
         UNCHANGED <<registration, next_id, owner>>,
         \/ /\ what \in {"value", "client_error"}
            /\ answered_on' = [answered_on EXCEPT ![id] = @ \cup {owner[id]}]
         \/ what \notin {"value", "client_error"} /\ answered_on' = answered_on
  PROVE  PeerInv' /\ OutcomesStand
<1> USE DEF Peers!SettledWith, Peers!Issued
<1>1. PeerTypes'
  BY DEF PeerInv, PeerTypes, PeerOutcomes
<1>2. PendingOnTheirOwner'
  BY DEF PeerInv, PeerTypes, PendingOnTheirOwner
<1>3. OutcomesStand
  BY DEF PeerInv, PeerTypes, OutcomesStand, Peers!AnswersStayOnTheirConnection
<1>4. owner[id] \in Connections /\ answered_on[id] \in SUBSET Connections /\ outcome[id] = "none"
  BY DEF PeerInv, PeerTypes, Peers!AnswersStayOnTheirConnection
<1>5. answered_on[id] = {}
  BY <1>4 DEF PeerInv, Peers!AnswersStayOnTheirConnection
<1>6. \A i \in Peers!Issued :
        /\ outcome'[i] = "none" <=> i \in pending'[owner[i]]
        /\ answered_on'[i] \subseteq {owner[i]}
        /\ outcome'[i] \in {"value", "client_error"} <=> answered_on'[i] # {}
  <2> SUFFICES ASSUME NEW i \in Peers!Issued
               PROVE  /\ outcome'[i] = "none" <=> i \in pending'[owner[i]]
                      /\ answered_on'[i] \subseteq {owner[i]}
                      /\ outcome'[i] \in {"value", "client_error"} <=> answered_on'[i] # {}
    OBVIOUS
  <2>1. CASE i = id
    <3>1. outcome'[id] = what /\ id \notin pending'[owner[id]]
      BY <1>4 DEF PeerInv, PeerTypes
    <3>2. answered_on'[id] = IF what \in {"value", "client_error"} THEN {owner[id]} ELSE {}
      BY <1>5 DEF PeerInv, PeerTypes
    <3> QED BY <2>1, <3>1, <3>2
  <2>2. CASE i # id
    <3>1. outcome'[i] = outcome[i] /\ answered_on'[i] = answered_on[i]
      BY <2>2 DEF PeerInv, PeerTypes
    <3>2. i \in pending'[owner[i]] <=> i \in pending[owner[i]]
      BY <2>2, <1>4 DEF PeerInv, PeerTypes
    <3> QED BY <3>1, <3>2 DEF PeerInv, Peers!AnswersStayOnTheirConnection
  <2> QED BY <2>1, <2>2
<1>7. \A c \in Connections : pending'[c] # {} => registration'[c] = "admitted"
  BY <1>4 DEF PeerInv, PeerTypes, Peers!AnswersStayOnTheirConnection
<1>8. Peers!AnswersStayOnTheirConnection'
  BY <1>6, <1>7 DEF Peers!AnswersStayOnTheirConnection
<1> QED BY <1>1, <1>2, <1>3, <1>8 DEF PeerInv

\* A request that is sent, one that fails at once, and one that ends its connection.
LEMMA PeersIssue ==
  ASSUME PeerInv, NEW c \in Connections,
         \/ Peers!RequestConnection(c)
         \/ Peers!RequestNotAccepted(c)
         \/ Peers!RequestOverflows(c)
  PROVE  PeerInv' /\ OutcomesStand
<1> USE DEF Peers!RequestConnection, Peers!RequestNotAccepted, Peers!RequestOverflows,
            Peers!Issue, Peers!MaySend
<1>1. next_id \in Nat /\ next_id' = next_id + 1
  BY DEF PeerInv, PeerTypes
<1>2. /\ Peers!Issued' = Peers!Issued \cup {next_id'}
      /\ next_id' \notin Peers!Issued
      /\ next_id' \in Nat
  BY <1>1, NextIssued
<1>3. PeerTypes'
  BY <1>2 DEF PeerInv, PeerTypes, PeerOutcomes
<1>4. PendingOnTheirOwner'
  BY <1>2 DEF PeerInv, PeerTypes, PendingOnTheirOwner
<1>5. OutcomesStand
  BY <1>2 DEF PeerInv, PeerTypes, PendingOnTheirOwner, OutcomesStand,
              Peers!AnswersStayOnTheirConnection
<1>6. Peers!AnswersStayOnTheirConnection'
  BY <1>2 DEF PeerInv, PeerTypes, PendingOnTheirOwner, Peers!AnswersStayOnTheirConnection
<1> QED BY <1>3, <1>4, <1>5, <1>6 DEF PeerInv

\* A client answers on its own connection, so every step settles by one of these.
LEMMA PeersStep ==
  ASSUME PeerInv, Peers!PeerNext
  PROVE  PeerInv' /\ OutcomesStand
<1>1. ASSUME NEW c \in Connections, NEW id \in Peers!Ids,
             NEW what \in {"value", "client_error"}, Peers!ResolvePeerResponse(c, id, what)
      PROVE  PeerInv' /\ OutcomesStand
  <2>1. id \in Peers!Issued /\ owner[id] = c
    BY <1>1 DEF PeerInv, PeerTypes, PendingOnTheirOwner, Peers!ResolvePeerResponse
  <2> QED BY <1>1, <2>1, PeersSettle DEF Peers!ResolvePeerResponse, PeerOutcomes
<1>2. ASSUME NEW id \in Peers!Ids, Peers!PeerTimeout(id)
      PROVE  PeerInv' /\ OutcomesStand
  BY <1>2, PeersSettle DEF Peers!PeerTimeout, PeerOutcomes
<1> QED
  BY <1>1, <1>2, PeersAdmit, PeersEnd, PeersIssue DEF Peers!PeerNext

(***************************************************************************)
(* A request to a client is unsettled exactly while its connection's table *)
(* holds it, is answered on that connection only, and settles once: for    *)
(* any connections, and any ids that clients make up.                      *)
(***************************************************************************)
THEOREM RequestsSettleOnce == ServerParts => SettledOnceByItsConnection
<1>1. ServerInit => PeerInv
  BY DEF ServerInit, PeerInv, PeerTypes, PendingOnTheirOwner, Peers!PeerInit, Peers!Issued,
         Peers!AnswersStayOnTheirConnection, PeerOutcomes
<1>2. PeerInv /\ [ServerNext]_server_vars => PeerInv' /\ OutcomesStand
  <2> SUFFICES ASSUME PeerInv, [ServerNext]_server_vars PROVE PeerInv' /\ OutcomesStand
    OBVIOUS
  <2>1. Peers!PeerNext \/ UNCHANGED peer_vars
    BY DEF ServerNext, server_vars
  <2>2. CASE UNCHANGED peer_vars
    BY <2>2 DEF peer_vars, PeerInv, PeerTypes, PendingOnTheirOwner, OutcomesStand,
                Peers!Issued, Peers!AnswersStayOnTheirConnection
  <2> QED BY <2>1, <2>2, PeersStep
<1>3. PeerInv => Peers!AnswersStayOnTheirConnection
  BY DEF PeerInv
<1>4. PeerInv /\ [ServerNext]_server_vars =>
        [\A id \in Peers!Issued : outcome[id] # "none" => outcome'[id] = outcome[id]
          ]_<<registration, Peers!peer_vars>>
  BY <1>2 DEF OutcomesStand
<1> QED BY <1>1, <1>2, <1>3, <1>4, PTL DEF ServerParts, SettledOnceByItsConnection,
             Peers!SettledOnceByItsConnection, Peers!SettledOnce

-----------------------------------------------------------------------------
(***************************************************************************)
(* The fact and its file (Facts).  While a selection is being reaped       *)
(* nothing is promised: nobody had put the fact lately when it was made,   *)
(* and whatever puts run beside it are marked.  A put that is not marked   *)
(* and has placed its file finds it there.                                 *)
(***************************************************************************)
FactTypes ==
  /\ row \in {"none", "disk", "embedded"}
  /\ row_recent \in BOOLEAN /\ file \in BOOLEAN /\ spills \in BOOLEAN
  /\ holder \in [FactActors -> {"none", "recent", "old"}]
  /\ put \in [FactActors -> {"idle", "failed", "writing", "inserting", "placed"}]
  /\ reaper \in {"idle", "selected", "unlinking"}
  /\ read \in [pc : {"idle", "missing", "served", "disk", "embedded"}, steady : BOOLEAN]
  /\ kept \subseteq FactActors

\* What is kept is held, recently or by a cell, and what is held has its row.
KeptIsHeld ==
  /\ \A a \in kept : holder[a] = "recent" \/ (holder[a] = "old" /\ a \in named)
  /\ \A a \in FactActors : holder[a] # "none" => row # "none"

NothingPromisedOfASelection ==
  Store!Reaping => /\ kept = {}
                   /\ \A a \in FactActors : a \notin Store!Unputting => a \in raced

FilesOfPuts ==
  /\ \A a \in FactActors : (put[a] \in {"writing", "placed"} => spills)
  /\ \A a \in FactActors : (put[a] = "inserting" => ~spills)
  /\ \A a \in FactActors : (put[a] = "placed" /\ a \notin raced => file)

FilesOfRows ==
  /\ (row = "disk" /\ kept # {} => file)
  /\ (row = "disk" /\ ~spills => file)
  /\ (reaper = "unlinking" /\ ~spills => row # "disk")

SteadyReads ==
  read.steady => /\ kept # {} /\ read.pc # "missing"
                 /\ (read.pc \in {"disk", "embedded"} => row = read.pc)

FactInv ==
  FactTypes /\ KeptIsHeld /\ NothingPromisedOfASelection /\ FilesOfPuts /\ FilesOfRows
    /\ SteadyReads

\* The puts, the crash, the sweep, the cells, the reaping and the reads, one by one.
LEMMA FactsStep ==
  ASSUME FactInv, Store!FactsNext
  PROVE  FactInv'
<1> USE DEF Store!database, Store!history, Store!Steadily, Store!Reaping, Store!Unputting
<1>1. ASSUME NEW a \in FactActors, Store!StartPut(a)
      PROVE  FactInv'
  <2> USE <1>1 DEF Store!StartPut
  <2>1. FactTypes'
    BY DEF FactInv, FactTypes, NothingPromisedOfASelection
  <2>2. KeptIsHeld' /\ NothingPromisedOfASelection' /\ FilesOfPuts'
    BY DEF FactInv, FactTypes, KeptIsHeld, NothingPromisedOfASelection, FilesOfPuts
  <2>3. FilesOfRows' /\ SteadyReads'
    BY DEF FactInv, FactTypes, KeptIsHeld, NothingPromisedOfASelection, FilesOfPuts,
           FilesOfRows, SteadyReads
  <2> QED BY <2>1, <2>2, <2>3 DEF FactInv
<1>2. ASSUME NEW a \in FactActors, Store!WriteChunk(a) \/ Store!FailWrite(a)
      PROVE  FactInv'
  <2> USE <1>2 DEF Store!WriteChunk, Store!FailWrite
  <2>1. FactTypes'
    BY DEF FactInv, FactTypes, NothingPromisedOfASelection
  <2>2. KeptIsHeld' /\ NothingPromisedOfASelection' /\ FilesOfPuts'
    BY DEF FactInv, FactTypes, KeptIsHeld, NothingPromisedOfASelection, FilesOfPuts
  <2>3. FilesOfRows' /\ SteadyReads'
    BY DEF FactInv, FactTypes, KeptIsHeld, NothingPromisedOfASelection, FilesOfPuts,
           FilesOfRows, SteadyReads
  <2> QED BY <2>1, <2>2, <2>3 DEF FactInv
<1>3. ASSUME NEW a \in FactActors, Store!CommitTemp(a)
      PROVE  FactInv'
  <2> USE <1>3 DEF Store!CommitTemp
  <2>1. FactTypes'
    BY DEF FactInv, FactTypes, NothingPromisedOfASelection
  <2>2. KeptIsHeld' /\ NothingPromisedOfASelection' /\ FilesOfPuts'
    BY DEF FactInv, FactTypes, KeptIsHeld, NothingPromisedOfASelection, FilesOfPuts
  <2>3. FilesOfRows' /\ SteadyReads'
    BY DEF FactInv, FactTypes, KeptIsHeld, NothingPromisedOfASelection, FilesOfPuts,
           FilesOfRows, SteadyReads
  <2> QED BY <2>1, <2>2, <2>3 DEF FactInv
<1>4. ASSUME NEW a \in FactActors, Store!InsertRow(a)
      PROVE  FactInv'
  <2> USE <1>4 DEF Store!InsertRow
  <2>1. FactTypes'
    BY DEF FactInv, FactTypes, NothingPromisedOfASelection
  <2>2. KeptIsHeld' /\ NothingPromisedOfASelection' /\ FilesOfPuts'
    BY DEF FactInv, FactTypes, KeptIsHeld, NothingPromisedOfASelection, FilesOfPuts
  <2>3. FilesOfRows' /\ SteadyReads'
    BY DEF FactInv, FactTypes, KeptIsHeld, NothingPromisedOfASelection, FilesOfPuts,
           FilesOfRows, SteadyReads
  <2> QED BY <2>1, <2>2, <2>3 DEF FactInv
<1>5. ASSUME NEW a \in FactActors, Store!FailInsert(a)
      PROVE  FactInv'
  <2> USE <1>5 DEF Store!FailInsert
  <2>1. FactTypes'
    BY DEF FactInv, FactTypes, NothingPromisedOfASelection
  <2>2. KeptIsHeld' /\ NothingPromisedOfASelection' /\ FilesOfPuts'
    BY DEF FactInv, FactTypes, KeptIsHeld, NothingPromisedOfASelection, FilesOfPuts
  <2>3. FilesOfRows' /\ SteadyReads'
    BY DEF FactInv, FactTypes, KeptIsHeld, NothingPromisedOfASelection, FilesOfPuts,
           FilesOfRows, SteadyReads
  <2> QED BY <2>1, <2>2, <2>3 DEF FactInv
<1>6. ASSUME NEW a \in FactActors, Store!TempAges(a) \/ Store!SweepOrphanTemp(a)
      PROVE  FactInv'
  <2> USE <1>6 DEF Store!TempAges, Store!SweepOrphanTemp
  <2>1. FactTypes'
    BY DEF FactInv, FactTypes, NothingPromisedOfASelection
  <2>2. KeptIsHeld' /\ NothingPromisedOfASelection' /\ FilesOfPuts'
    BY DEF FactInv, FactTypes, KeptIsHeld, NothingPromisedOfASelection, FilesOfPuts
  <2>3. FilesOfRows' /\ SteadyReads'
    BY DEF FactInv, FactTypes, KeptIsHeld, NothingPromisedOfASelection, FilesOfPuts,
           FilesOfRows, SteadyReads
  <2> QED BY <2>1, <2>2, <2>3 DEF FactInv
<1>7. ASSUME NEW a \in FactActors, Store!FindHolder(a) \/ Store!NameInCell(a)
      PROVE  FactInv'
  <2> USE <1>7 DEF Store!FindHolder, Store!NameInCell
  <2>1. FactTypes'
    BY DEF FactInv, FactTypes, NothingPromisedOfASelection
  <2>2. KeptIsHeld' /\ NothingPromisedOfASelection' /\ FilesOfPuts'
    BY DEF FactInv, FactTypes, KeptIsHeld, NothingPromisedOfASelection, FilesOfPuts
  <2>3. FilesOfRows' /\ SteadyReads'
    BY DEF FactInv, FactTypes, KeptIsHeld, NothingPromisedOfASelection, FilesOfPuts,
           FilesOfRows, SteadyReads
  <2> QED BY <2>1, <2>2, <2>3 DEF FactInv
<1>8. ASSUME NEW a \in FactActors, Store!DeleteCell(a) \/ Store!HoldingAges(a)
      PROVE  FactInv'
  <2> USE <1>8 DEF Store!DeleteCell, Store!HoldingAges
  <2>1. FactTypes'
    BY DEF FactInv, FactTypes, NothingPromisedOfASelection
  <2>2. KeptIsHeld' /\ NothingPromisedOfASelection' /\ FilesOfPuts'
    BY DEF FactInv, FactTypes, KeptIsHeld, NothingPromisedOfASelection, FilesOfPuts
  <2>3. FilesOfRows' /\ SteadyReads'
    BY DEF FactInv, FactTypes, KeptIsHeld, NothingPromisedOfASelection, FilesOfPuts,
           FilesOfRows, SteadyReads
  <2> QED BY <2>1, <2>2, <2>3 DEF FactInv
<1>9. ASSUME Store!Crash
      PROVE  FactInv'
  <2> USE <1>9 DEF Store!Crash
  <2>1. FactTypes'
    BY DEF FactInv, FactTypes, NothingPromisedOfASelection
  <2>2. KeptIsHeld' /\ NothingPromisedOfASelection' /\ FilesOfPuts'
    BY DEF FactInv, FactTypes, KeptIsHeld, NothingPromisedOfASelection, FilesOfPuts
  <2>3. FilesOfRows' /\ SteadyReads'
    BY DEF FactInv, FactTypes, KeptIsHeld, NothingPromisedOfASelection, FilesOfPuts,
           FilesOfRows, SteadyReads
  <2> QED BY <2>1, <2>2, <2>3 DEF FactInv
<1>10. ASSUME Store!RowAges
      PROVE  FactInv'
  <2> USE <1>10 DEF Store!RowAges
  <2>1. FactTypes'
    BY DEF FactInv, FactTypes, NothingPromisedOfASelection
  <2>2. KeptIsHeld' /\ NothingPromisedOfASelection' /\ FilesOfPuts'
    BY DEF FactInv, FactTypes, KeptIsHeld, NothingPromisedOfASelection, FilesOfPuts
  <2>3. FilesOfRows' /\ SteadyReads'
    BY DEF FactInv, FactTypes, KeptIsHeld, NothingPromisedOfASelection, FilesOfPuts,
           FilesOfRows, SteadyReads
  <2> QED BY <2>1, <2>2, <2>3 DEF FactInv
<1>11. ASSUME Store!SelectForDelete
      PROVE  FactInv'
  <2> USE <1>11 DEF Store!SelectForDelete, Store!NotRecentlyHeld
  <2>1. FactTypes'
    BY DEF FactInv, FactTypes, NothingPromisedOfASelection
  <2>2. KeptIsHeld' /\ NothingPromisedOfASelection' /\ FilesOfPuts'
    BY DEF FactInv, FactTypes, KeptIsHeld, NothingPromisedOfASelection, FilesOfPuts
  <2>3. FilesOfRows' /\ SteadyReads'
    BY DEF FactInv, FactTypes, KeptIsHeld, NothingPromisedOfASelection, FilesOfPuts,
           FilesOfRows, SteadyReads
  <2> QED BY <2>1, <2>2, <2>3 DEF FactInv
<1>12. ASSUME Store!DeleteFact
      PROVE  FactInv'
  <2> USE <1>12 DEF Store!DeleteFact
  <2>1. FactTypes'
    BY DEF FactInv, FactTypes, NothingPromisedOfASelection
  <2>2. KeptIsHeld' /\ NothingPromisedOfASelection' /\ FilesOfPuts'
    BY DEF FactInv, FactTypes, KeptIsHeld, NothingPromisedOfASelection, FilesOfPuts
  <2>3. FilesOfRows' /\ SteadyReads'
    BY DEF FactInv, FactTypes, KeptIsHeld, NothingPromisedOfASelection, FilesOfPuts,
           FilesOfRows, SteadyReads
  <2> QED BY <2>1, <2>2, <2>3 DEF FactInv
<1>13. ASSUME Store!Unlink
      PROVE  FactInv'
  <2> USE <1>13 DEF Store!Unlink
  <2>1. FactTypes'
    BY DEF FactInv, FactTypes, NothingPromisedOfASelection
  <2>2. KeptIsHeld' /\ NothingPromisedOfASelection' /\ FilesOfPuts'
    BY DEF FactInv, FactTypes, KeptIsHeld, NothingPromisedOfASelection, FilesOfPuts
  <2>3. FilesOfRows' /\ SteadyReads'
    BY DEF FactInv, FactTypes, KeptIsHeld, NothingPromisedOfASelection, FilesOfPuts,
           FilesOfRows, SteadyReads
  <2> QED BY <2>1, <2>2, <2>3 DEF FactInv
<1>14. ASSUME Store!ReadMeta \/ Store!ReadBytes \/ Store!ReadEnds
      PROVE  FactInv'
  <2> USE <1>14 DEF Store!ReadMeta, Store!ReadBytes, Store!ReadEnds
  <2>7. read' \in [pc : {"idle", "missing", "served", "disk", "embedded"}, steady : BOOLEAN]
    <3>1. CASE Store!ReadMeta
      BY <3>1 DEF FactInv, FactTypes
    <3>2. CASE Store!ReadBytes
      BY <3>2 DEF FactInv, FactTypes
    <3>3. CASE Store!ReadEnds
      BY <3>3
    <3> QED BY <3>1, <3>2, <3>3
  <2>1. FactTypes'
    BY <2>7 DEF FactInv, FactTypes
  <2>2. KeptIsHeld' /\ NothingPromisedOfASelection' /\ FilesOfPuts'
    BY DEF FactInv, FactTypes, KeptIsHeld, NothingPromisedOfASelection, FilesOfPuts
  <2>3. FilesOfRows' /\ SteadyReads'
    BY DEF FactInv, FactTypes, KeptIsHeld, NothingPromisedOfASelection, FilesOfPuts,
           FilesOfRows, SteadyReads
  <2> QED BY <2>1, <2>2, <2>3 DEF FactInv
<1> QED BY <1>1, <1>2, <1>3, <1>4, <1>5, <1>6, <1>7, <1>8, <1>9, <1>10, <1>11, <1>12, <1>13,
           <1>14 DEF Store!FactsNext

(***************************************************************************)
(* A fact put or named within the grace window is there with its bytes,    *)
(* and so is the holding; a reader meanwhile is served: for any actors and *)
(* any puts, crashes, sweeps and deletions between them.                   *)
(***************************************************************************)
THEOREM PutFactsStay == ServerParts => []RecentFactsAreKept
<1>1. ServerInit => FactInv
  <2> SUFFICES ASSUME Store!FactsInit PROVE FactInv
    BY DEF ServerInit
  <2>1. FactTypes
    BY DEF Store!FactsInit, FactTypes
  <2>2. KeptIsHeld /\ NothingPromisedOfASelection /\ FilesOfPuts /\ FilesOfRows /\ SteadyReads
    BY DEF Store!FactsInit, KeptIsHeld, NothingPromisedOfASelection, FilesOfPuts,
           FilesOfRows, SteadyReads, Store!Reaping, Store!Unputting
  <2> QED BY <2>1, <2>2 DEF FactInv
<1>2. FactInv /\ [ServerNext]_server_vars => FactInv'
  <2> SUFFICES ASSUME FactInv, [ServerNext]_server_vars PROVE FactInv'
    OBVIOUS
  <2>1. Store!FactsNext \/ UNCHANGED fact_vars
    BY DEF ServerNext, server_vars
  <2>2. CASE UNCHANGED fact_vars
    BY <2>2 DEF fact_vars, FactInv, FactTypes, KeptIsHeld, NothingPromisedOfASelection,
                FilesOfPuts, FilesOfRows, SteadyReads, Store!Reaping, Store!Unputting
  <2> QED BY <2>1, <2>2, FactsStep
<1>3. FactInv => RecentFactsAreKept
  BY DEF FactInv, FactTypes, KeptIsHeld, FilesOfRows, SteadyReads, RecentFactsAreKept,
         Store!RecentFactsAreKept
<1> QED BY <1>1, <1>2, <1>3, PTL DEF ServerParts

-----------------------------------------------------------------------------
(***************************************************************************)
(* Cells.  What an actor can see now it has seen, and what it holds it has *)
(* put: so has a request that was let in by a row its actor saw.           *)
(***************************************************************************)
CellRows ==
  [live : BOOLEAN, owner : Actors \cup {"none"}, visibility : {"private", "public"},
   moderation : {"none", "pending", "approved", "rejected"}, root : Cells \cup {0},
   refs : SUBSET Facts]

CellTypes ==
  /\ cell \in [Cells -> CellRows]
  /\ cell_req = [r \in CellRequests |-> cell_req[r]]
  /\ seen \in [Actors -> [cells : SUBSET Cells, facts : SUBSET Facts]]

\* What the requests know: whose they are, the cell they found and its row there, and
\* what they are to write.
Asking(r) == cell_req[r].stage \in {"read", "admitted"}

AskedTypes ==
  \A r \in CellRequests : Asking(r) =>
    /\ cell_req[r].actor \in Actors
    /\ cell_req[r].row \in CellRows
    /\ cell_req[r].cell \in Cells \cup {0}
    /\ (cell_req[r].op # "create" => cell_req[r].cell \in Cells)
    /\ (cell_req[r].op \in {"create", "update", "clone"} => cell_req[r].wish.refs \subseteq Facts)
    /\ (cell_req[r].op = "create" => cell_req[r].wish.visibility \in {"private", "public"})
    /\ (cell_req[r].op = "update" =>
          cell_req[r].wish.visibility \in {"none", "private", "public"})
    /\ (cell_req[r].op = "link" => cell_req[r].wish.target \in Cells)
    /\ (cell_req[r].op = "moderate" => cell_req[r].wish.moderation \in {"approved", "rejected"})
    /\ (cell_req[r].stage = "admitted" =>
          cell_req[r].moderation \in {"none", "pending", "approved"})

SightIsRemembered ==
  \A a \in Actors, c \in Cells :
    cell[c].live /\ Contents!CanView(a, cell[c], grant[c]) =>
      c \in seen[a].cells /\ cell[c].refs \subseteq seen[a].facts

HoldingsAreKnown == \A a \in Actors, f \in Facts : <<a, f>> \in held => f \in seen[a].facts

RowsReadWereSeen ==
  \A r \in CellRequests :
    Asking(r) /\ cell_req[r].saw => cell_req[r].row.refs \subseteq seen[cell_req[r].actor].facts

CellInv ==
  /\ CellTypes /\ AskedTypes /\ SightIsRemembered /\ HoldingsAreKnown /\ RowsReadWereSeen
  /\ NoOneNamesWhatTheyNeverSaw

RejectedStays ==
  \A c \in Cells : cell[c].moderation = "rejected" => cell'[c].moderation = "rejected"

SeenGrows ==
  \A a \in Actors : seen[a].cells \subseteq seen'[a].cells /\ seen[a].facts \subseteq seen'[a].facts

\* Whoever looks, after a write, has seen what it shows, and forgets nothing.
LEMMA WhoeverLooksSees ==
  ASSUME CellTypes, cell' \in [Cells -> CellRows], Contents!Observe
  PROVE  /\ seen' \in [Actors -> [cells : SUBSET Cells, facts : SUBSET Facts]]
         /\ SightIsRemembered' /\ SeenGrows
<1> DEFINE Visible(a) == {c \in Cells : cell'[c].live /\ Contents!CanView(a, cell'[c], grant'[c])}
           Shown(a) == UNION {cell'[c].refs : c \in Visible(a)}
<1>1. \A c \in Cells : cell'[c].refs \subseteq Facts
  BY DEF CellRows
<1>2. ASSUME NEW a \in Actors
      PROVE  /\ seen'[a].cells = seen[a].cells \cup Visible(a)
             /\ seen'[a].facts = seen[a].facts \cup Shown(a)
             /\ seen'[a] \in [cells : SUBSET Cells, facts : SUBSET Facts]
  <2>1. PICK V : V = Visible(a)
    OBVIOUS
  <2>2. PICK S : S = Shown(a)
    OBVIOUS
  <2>3. S = UNION {cell'[c].refs : c \in V}
    BY <2>1, <2>2
  <2>4. seen'[a] = [cells |-> seen[a].cells \cup V, facts |-> seen[a].facts \cup S]
    BY <2>1, <2>3 DEF Contents!Observe, Contents!Sighted
  <2>5. seen[a].cells \subseteq Cells /\ seen[a].facts \subseteq Facts
    BY DEF CellTypes
  <2>6. V \subseteq Cells
    BY <2>1
  <2>7. S \subseteq Facts
    BY <1>1, <2>3, <2>6
  <2>8. /\ seen'[a].cells = seen[a].cells \cup V /\ seen'[a].facts = seen[a].facts \cup S
        /\ seen'[a] \in [cells : SUBSET Cells, facts : SUBSET Facts]
    BY ONLY <2>4, <2>5, <2>6, <2>7
  <2> HIDE DEF Visible, Shown
  <2> QED BY <2>1, <2>2, <2>8
<1>3. seen' \in [Actors -> [cells : SUBSET Cells, facts : SUBSET Facts]]
  <2>1. seen' = [a \in Actors |-> seen'[a]]
    BY DEF Contents!Observe
  <2> HIDE DEF Visible, Shown
  <2> QED BY <1>2, <2>1
<1>4. SeenGrows
  <2> HIDE DEF Visible, Shown
  <2> QED BY <1>2 DEF SeenGrows
<1>5. SightIsRemembered'
  <2> SUFFICES ASSUME NEW a \in Actors, NEW c \in Cells, cell'[c].live,
                      Contents!CanView(a, cell'[c], grant'[c])
               PROVE  c \in seen'[a].cells /\ cell'[c].refs \subseteq seen'[a].facts
    BY DEF SightIsRemembered, Contents!CanView, Contents!CanManage, Contents!IsAdmin,
           Contents!IsOwner, Contents!HasAudience, Contents!GrantAdmits
  <2>1. c \in Visible(a)
    OBVIOUS
  <2>2. cell'[c].refs \subseteq Shown(a)
    BY <2>1
  <2> HIDE DEF Visible, Shown
  <2> QED BY <1>2, <2>1, <2>2
<1> QED BY <1>3, <1>4, <1>5

\* Whatever else a step does, what the other requests know stays known.
LEMMA WhatIsKnownStays ==
  ASSUME CellTypes, AskedTypes, RowsReadWereSeen, NoOneNamesWhatTheyNeverSaw, SeenGrows,
         NEW r \in CellRequests,
         \/ UNCHANGED cell_req
         \/ cell_req' = [cell_req EXCEPT ![r] = Contents!Idle]
  PROVE  /\ cell_req' = [s \in CellRequests |-> cell_req'[s]]
         /\ AskedTypes' /\ RowsReadWereSeen' /\ NoOneNamesWhatTheyNeverSaw'
<1>1. ASSUME NEW s \in CellRequests
      PROVE  \/ cell_req'[s] = cell_req[s]
             \/ cell_req'[s].stage = "idle"
  BY DEF CellTypes, Contents!Idle
<1>2. cell_req' = [s \in CellRequests |-> cell_req'[s]]
  BY DEF CellTypes
<1>3. AskedTypes'
  BY <1>1 DEF AskedTypes, Asking
<1>4. RowsReadWereSeen'
  BY <1>1 DEF AskedTypes, RowsReadWereSeen, Asking, SeenGrows
<1>5. NoOneNamesWhatTheyNeverSaw'
  <2> SUFFICES ASSUME NEW s \in CellRequests, cell_req'[s].stage = "admitted",
                      ~Contents!IsAdmin(cell_req'[s].actor)
               PROVE  LET q == cell_req'[s]
                      IN  /\ q.op = "create" => q.wish.refs \subseteq seen'[q.actor].facts
                          /\ q.op \in {"update", "clone"} =>
                               q.wish.refs \ (IF q.saw THEN {} ELSE q.row.refs)
                                 \subseteq seen'[q.actor].facts
                          /\ q.op = "link" => q.wish.target \in seen'[q.actor].cells
    BY DEF NoOneNamesWhatTheyNeverSaw, Contents!NoOneNamesWhatTheyNeverSaw, Contents!IsAdmin
  <2>1. cell_req'[s] = cell_req[s]
    BY <1>1
  <2>2. cell_req[s].actor \in Actors
    BY <2>1 DEF AskedTypes, Asking
  <2> QED BY <2>1, <2>2 DEF NoOneNamesWhatTheyNeverSaw, Contents!NoOneNamesWhatTheyNeverSaw,
                            SeenGrows, Contents!IsAdmin
<1> QED BY <1>2, <1>3, <1>4, <1>5

\* A write that is looked at: it keeps the types of the rows, ends its request, and the
\* rest follows.
LEMMA WritesAreSeen ==
  ASSUME CellInv, NEW r \in CellRequests, cell' \in [Cells -> CellRows],
         Contents!Done(r), UNCHANGED held, Contents!Observe
  PROVE  CellInv'
<1>1. /\ seen' \in [Actors -> [cells : SUBSET Cells, facts : SUBSET Facts]]
      /\ SightIsRemembered' /\ SeenGrows
  BY WhoeverLooksSees DEF CellInv
<1>2. /\ cell_req' = [s \in CellRequests |-> cell_req'[s]]
      /\ AskedTypes' /\ RowsReadWereSeen' /\ NoOneNamesWhatTheyNeverSaw'
  BY <1>1, WhatIsKnownStays DEF CellInv, Contents!Done
<1>3. CellTypes'
  BY <1>1, <1>2 DEF CellTypes
<1>4. HoldingsAreKnown'
  BY <1>1 DEF CellInv, HoldingsAreKnown, SeenGrows
<1> QED BY <1>1, <1>2, <1>3, <1>4 DEF CellInv

\* The rows that a request writes.
LEMMA WrittenRows ==
  ASSUME CellInv, NEW r \in CellRequests,
         \/ Contents!Create(r) \/ Contents!Update(r) \/ Contents!Clone(r)
         \/ Contents!Moderate(r) \/ Contents!Delete(r)
  PROVE  cell' \in [Cells -> CellRows] /\ RejectedStays
<1> DEFINE q == cell_req[r]
<1>1. Asking(r) /\ q.stage = "admitted"
  BY DEF Contents!Create, Contents!Update, Contents!Clone, Contents!Moderate,
         Contents!Delete, Contents!Writes, Asking
<1>2. cell \in [Cells -> CellRows]
  BY DEF CellInv, CellTypes
<1>3. /\ q.actor \in Actors /\ q.row \in CellRows /\ q.cell \in Cells \cup {0}
      /\ (q.op # "create" => q.cell \in Cells)
      /\ (q.op \in {"create", "update", "clone"} => q.wish.refs \subseteq Facts)
      /\ (q.op = "create" => q.wish.visibility \in {"private", "public"})
      /\ (q.op = "update" => q.wish.visibility \in {"none", "private", "public"})
      /\ (q.op = "moderate" => q.wish.moderation \in {"approved", "rejected"})
      /\ q.moderation \in {"none", "pending", "approved"}
  BY <1>1 DEF CellInv, AskedTypes
<1>4. CASE Contents!Create(r)
  <2> DEFINE root == IF q.cell = 0 THEN 0 ELSE Contents!RootOf(q)
  <2>1. q.op = "create"
    BY <1>4 DEF Contents!Create, Contents!Writes
  <2>2. root \in Cells \cup {0}
    BY <1>3 DEF Contents!RootOf, Contents!NoCell, CellRows
  <2>3. PICK c \in Cells :
          /\ Contents!Unused(c)
          /\ cell' = [cell EXCEPT ![c] =
                       [live |-> TRUE, owner |-> q.actor, root |-> root, refs |-> q.wish.refs,
                        visibility |-> IF q.moderation = "pending" THEN "private"
                                       ELSE q.wish.visibility,
                        moderation |-> q.moderation]]
    BY <1>4 DEF Contents!Create, Contents!NoCell
  <2>4. cell[c].moderation # "rejected"
    BY <2>3 DEF Contents!Unused, Contents!Unborn, Contents!Unset
  <2> HIDE DEF root, q
  <2>5. cell' \in [Cells -> CellRows]
    BY <1>2, <1>3, <2>1, <2>2, <2>3 DEF CellRows
  <2> QED BY <1>2, <2>3, <2>4, <2>5 DEF RejectedStays
<1>5. CASE Contents!Update(r)
  <2>1. q.op = "update"
    BY <1>5 DEF Contents!Update, Contents!Writes
  <2>2. cell' = [cell EXCEPT ![q.cell].refs = q.wish.refs,
                             ![q.cell].visibility =
                               IF q.wish.visibility = "none" THEN @ ELSE q.wish.visibility]
    BY <1>5 DEF Contents!Update, Contents!Unset
  <2> HIDE DEF q
  <2> QED BY <1>2, <1>3, <2>1, <2>2 DEF CellRows, RejectedStays
<1>6. CASE Contents!Clone(r)
  <2>1. q.op = "clone"
    BY <1>6 DEF Contents!Clone, Contents!Writes
  <2>2. PICK born : born = Contents!Unborn
    OBVIOUS
  <2>3. born \in CellRows /\ born.moderation = "none"
    BY <2>2 DEF CellRows, Contents!Unborn, Contents!Unset, Contents!NoCell
  <2>4. PICK c \in Cells :
          /\ Contents!Unused(c)
          /\ cell' = [cell EXCEPT ![c] = [born EXCEPT !.live = TRUE, !.owner = q.actor,
                                                     !.refs = q.wish.refs,
                                                     !.visibility = q.row.visibility]]
    BY <1>6, <2>2 DEF Contents!Clone
  <2>5. cell[c].moderation # "rejected"
    BY <2>2, <2>3, <2>4 DEF Contents!Unused
  <2>6. cell' \in [Cells -> CellRows]
    <3> HIDE DEF q
    <3> QED BY <1>2, <1>3, <2>1, <2>3, <2>4 DEF CellRows
  <2> QED BY <1>2, <2>4, <2>5, <2>6 DEF RejectedStays
<1>7. CASE Contents!Moderate(r)
  <2>1. q.op = "moderate"
    BY <1>7 DEF Contents!Moderate, Contents!Writes
  <2>2. /\ \/ cell[q.cell].moderation = "pending"
           \/ cell[q.cell].moderation = "approved" /\ q.wish.moderation = "rejected"
        /\ cell' = [cell EXCEPT ![q.cell].moderation = q.wish.moderation,
                                ![q.cell].visibility =
                                  IF q.wish.moderation = "approved" THEN "public" ELSE @]
    BY <1>7 DEF Contents!Moderate
  <2> HIDE DEF q
  <2> QED BY <1>2, <1>3, <2>1, <2>2 DEF CellRows, RejectedStays
<1>8. CASE Contents!Delete(r)
  <2>1. q.op = "delete"
    BY <1>8 DEF Contents!Delete, Contents!Writes
  <2>2. cell' = [cell EXCEPT ![q.cell].live = FALSE]
    BY <1>8 DEF Contents!Delete
  <2> HIDE DEF q
  <2> QED BY <1>2, <1>3, <2>1, <2>2 DEF CellRows, RejectedStays
<1> QED BY <1>4, <1>5, <1>6, <1>7, <1>8

\* A put, a link and a grant leave the rows, and a delete hides one.
LEMMA FactsArePut ==
  ASSUME CellInv, NEW a \in Actors, NEW f \in Facts, Contents!PutFact(a, f)
  PROVE  CellInv'
<1>1. seen' \in [Actors -> [cells : SUBSET Cells, facts : SUBSET Facts]]
  BY DEF CellInv, CellTypes, Contents!PutFact
<1>2. SeenGrows
  BY DEF CellInv, CellTypes, Contents!PutFact, SeenGrows
<1>3. ASSUME NEW r \in CellRequests
      PROVE  AskedTypes' /\ RowsReadWereSeen' /\ NoOneNamesWhatTheyNeverSaw'
  BY <1>2, WhatIsKnownStays DEF CellInv, Contents!PutFact
<1>4. (CellRequests = {}) => AskedTypes' /\ RowsReadWereSeen' /\ NoOneNamesWhatTheyNeverSaw'
  BY DEF AskedTypes, RowsReadWereSeen, NoOneNamesWhatTheyNeverSaw,
         Contents!NoOneNamesWhatTheyNeverSaw
<1>5. CellTypes'
  BY <1>1 DEF CellInv, CellTypes, Contents!PutFact
<1>6. SightIsRemembered'
  BY <1>2 DEF CellInv, SightIsRemembered, SeenGrows, Contents!PutFact, Contents!CanView,
         Contents!CanManage, Contents!IsAdmin, Contents!IsOwner, Contents!HasAudience,
         Contents!GrantAdmits
<1>7. HoldingsAreKnown'
  <2>1. f \in seen'[a].facts
    BY DEF CellInv, CellTypes, Contents!PutFact
  <2> QED BY <1>2, <2>1 DEF CellInv, HoldingsAreKnown, SeenGrows, Contents!PutFact
<1> QED BY <1>3, <1>4, <1>5, <1>6, <1>7 DEF CellInv

\* A row that the actor of a request is let in by is one it saw, or it could not see it.
LEMMA NewRequestsAreKnown ==
  ASSUME CellInv, NEW r \in CellRequests, NEW a \in Actors,
         \/ \E op \in Ops, c \in Cells : Contents!Ask(r, a, op, c)
         \/ Contents!AskRoot(r, a)
  PROVE  CellInv'
<1>1. /\ UNCHANGED <<cell, grant, held, seen>>
      /\ cell_req' = [s \in CellRequests |-> cell_req'[s]]
      /\ \A s \in CellRequests \ {r} : cell_req'[s] = cell_req[s]
  BY DEF CellInv, CellTypes, Contents!Ask, Contents!AskRoot
<1>2. CellTypes' /\ SightIsRemembered' /\ HoldingsAreKnown'
  BY <1>1 DEF CellInv, CellTypes, SightIsRemembered, HoldingsAreKnown, Contents!CanView,
         Contents!CanManage, Contents!IsAdmin, Contents!IsOwner, Contents!HasAudience,
         Contents!GrantAdmits
<1>3. ASSUME NEW op \in Ops, NEW c \in Cells, Contents!Ask(r, a, op, c)
      PROVE  /\ cell_req'[r].stage = "read" /\ cell_req'[r].actor = a
             /\ cell_req'[r].cell = c /\ cell_req'[r].row = cell[c] /\ cell[c].live
             /\ cell_req'[r].op = op /\ cell_req'[r].wish \in Contents!Wishes(op)
             /\ cell_req'[r].saw = Contents!CanView(a, cell[c], grant[c])
  <2>1. PICK wish \in Contents!Wishes(op) :
          cell_req' = [cell_req EXCEPT ![r] =
            [stage |-> "read", op |-> op, actor |-> a, cell |-> c, row |-> cell[c],
             saw |-> Contents!CanView(a, cell[c], grant[c]), wish |-> wish,
             grant |-> IF op = "revoke" THEN grant[c][wish.to] ELSE Contents!NoGrant]]
    BY <1>3 DEF Contents!Ask
  <2>2. cell_req'[r] =
          [stage |-> "read", op |-> op, actor |-> a, cell |-> c, row |-> cell[c],
           saw |-> Contents!CanView(a, cell[c], grant[c]), wish |-> wish,
           grant |-> IF op = "revoke" THEN grant[c][wish.to] ELSE Contents!NoGrant]
    BY <2>1 DEF CellInv, CellTypes
  <2> QED BY <1>3, <2>2 DEF Contents!Ask
<1>4. ASSUME Contents!AskRoot(r, a)
      PROVE  /\ cell_req'[r].stage = "admitted" /\ cell_req'[r].actor = a
             /\ cell_req'[r].cell = 0 /\ cell_req'[r].row = Contents!Unborn
             /\ cell_req'[r].op = "create" /\ cell_req'[r].moderation = "none"
             /\ cell_req'[r].wish \in Contents!Wishes("create")
             /\ Contents!RefsAreHeld(a, {}, cell_req'[r].wish.refs)
  <2>1. PICK wish \in Contents!Wishes("create") :
          /\ Contents!RefsAreHeld(a, {}, wish.refs)
          /\ cell_req' = [cell_req EXCEPT ![r] =
               [stage |-> "admitted", op |-> "create", actor |-> a, cell |-> Contents!NoCell,
                row |-> Contents!Unborn, saw |-> TRUE, wish |-> wish,
                grant |-> Contents!NoGrant, moderation |-> Contents!Unset]]
    BY <1>4 DEF Contents!AskRoot
  <2>2. cell_req'[r] =
          [stage |-> "admitted", op |-> "create", actor |-> a, cell |-> Contents!NoCell,
           row |-> Contents!Unborn, saw |-> TRUE, wish |-> wish, grant |-> Contents!NoGrant,
           moderation |-> Contents!Unset]
    BY <2>1 DEF CellInv, CellTypes
  <2> QED BY <2>1, <2>2 DEF Contents!NoCell, Contents!Unset
<1>5. Contents!Unborn \in CellRows /\ Contents!Unborn.refs = {}
  BY DEF Contents!Unborn, CellRows, Contents!Unset, Contents!NoCell
<1>6. AskedTypes'
  <2>1. ASSUME NEW op \in Ops, NEW c \in Cells, Contents!Ask(r, a, op, c)
        PROVE  AskedTypes'
    <3>1. op = "link" => cell_req'[r].wish.target \in Cells
      BY <1>3, <2>1 DEF Contents!Wishes
    <3>2. op \in {"create", "update", "clone"} => cell_req'[r].wish.refs \subseteq Facts
      BY <1>3, <2>1 DEF Contents!Wishes
    <3>3. (op = "create" => cell_req'[r].wish.visibility \in {"private", "public"})
          /\ (op = "update" => cell_req'[r].wish.visibility \in {"none", "private", "public"})
      BY <1>3, <2>1 DEF Contents!Wishes, Contents!Unset
    <3>4. op = "moderate" => cell_req'[r].wish.moderation \in {"approved", "rejected"}
      BY <1>3, <2>1 DEF Contents!Wishes
    <3>5. cell[c] \in CellRows
      BY DEF CellInv, CellTypes
    <3> QED BY <1>1, <1>3, <2>1, <3>1, <3>2, <3>3, <3>4, <3>5 DEF CellInv, AskedTypes, Asking
  <2>2. ASSUME Contents!AskRoot(r, a) PROVE AskedTypes'
    <3>1. /\ cell_req'[r].wish.refs \subseteq Facts
          /\ cell_req'[r].wish.visibility \in {"private", "public"}
      BY <1>4, <2>2 DEF Contents!Wishes
    <3> QED BY <1>1, <1>4, <1>5, <2>2, <3>1 DEF CellInv, AskedTypes, Asking
  <2> QED BY <2>1, <2>2
<1>7. RowsReadWereSeen'
  <2>1. ASSUME NEW op \in Ops, NEW c \in Cells, Contents!Ask(r, a, op, c)
        PROVE  RowsReadWereSeen'
    <3>1. cell_req'[r].saw => cell[c].refs \subseteq seen[a].facts
      BY <1>3, <2>1 DEF CellInv, SightIsRemembered
    <3> QED BY <1>1, <1>3, <2>1, <3>1 DEF CellInv, RowsReadWereSeen, Asking
  <2>2. ASSUME Contents!AskRoot(r, a) PROVE RowsReadWereSeen'
    BY <1>1, <1>4, <1>5, <2>2 DEF CellInv, RowsReadWereSeen, Asking
  <2> QED BY <2>1, <2>2
<1>8. NoOneNamesWhatTheyNeverSaw'
  <2> USE DEF NoOneNamesWhatTheyNeverSaw, Contents!NoOneNamesWhatTheyNeverSaw
  <2>1. ASSUME NEW op \in Ops, NEW c \in Cells, Contents!Ask(r, a, op, c)
        PROVE  NoOneNamesWhatTheyNeverSaw'
    BY <1>1, <1>3, <2>1 DEF CellInv, Contents!IsAdmin
  <2>2. ASSUME Contents!AskRoot(r, a) PROVE NoOneNamesWhatTheyNeverSaw'
    <3>1. a \notin Admins => cell_req'[r].wish.refs \subseteq seen[a].facts
      BY <1>4, <2>2 DEF CellInv, HoldingsAreKnown, Contents!RefsAreHeld, Contents!IsAdmin,
             Contents!Wishes
    <3> QED BY <1>1, <1>4, <2>2, <3>1 DEF CellInv, Contents!IsAdmin
  <2> QED BY <2>1, <2>2
<1> QED BY <1>2, <1>6, <1>7, <1>8 DEF CellInv

\* The decision: a reference is kept from the row, or held; a target is seen now.
LEMMA RequestsAreLetIn ==
  ASSUME CellInv, NEW r \in CellRequests, Contents!Admit(r)
  PROVE  CellInv'
<1> DEFINE q == cell_req[r]
           a == cell_req[r].actor
<1>1. PICK moderation \in {"none", "pending", "approved"} :
        /\ Contents!Admits(q, moderation)
        /\ cell_req' = [cell_req EXCEPT ![r] =
             [stage |-> "admitted", op |-> q.op, actor |-> q.actor, cell |-> q.cell,
              row |-> q.row, saw |-> q.saw, wish |-> q.wish, grant |-> q.grant,
              moderation |-> moderation]]
  BY DEF Contents!Admit, Contents!Unset
<1>2. /\ UNCHANGED <<cell, grant, held, seen>> /\ q.stage = "read"
      /\ cell_req' = [s \in CellRequests |-> cell_req'[s]]
      /\ \A s \in CellRequests \ {r} : cell_req'[s] = cell_req[s]
  BY DEF CellInv, CellTypes, Contents!Admit
<1>3. /\ cell_req'[r].stage = "admitted" /\ cell_req'[r].op = q.op
      /\ cell_req'[r].actor = q.actor /\ cell_req'[r].cell = q.cell
      /\ cell_req'[r].row = q.row /\ cell_req'[r].saw = q.saw /\ cell_req'[r].wish = q.wish
      /\ cell_req'[r].moderation = moderation
  <2>1. cell_req'[r] =
          [stage |-> "admitted", op |-> q.op, actor |-> q.actor, cell |-> q.cell,
           row |-> q.row, saw |-> q.saw, wish |-> q.wish, grant |-> q.grant,
           moderation |-> moderation]
    BY <1>1 DEF CellInv, CellTypes
  <2> QED BY <2>1
<1>4. CellTypes' /\ SightIsRemembered' /\ HoldingsAreKnown'
  BY <1>2 DEF CellInv, CellTypes, SightIsRemembered, HoldingsAreKnown, Contents!CanView,
         Contents!CanManage, Contents!IsAdmin, Contents!IsOwner, Contents!HasAudience,
         Contents!GrantAdmits
<1>5. Asking(r) /\ a \in Actors
  BY <1>2 DEF CellInv, AskedTypes, Asking
<1>6. AskedTypes'
  BY <1>2, <1>3 DEF CellInv, AskedTypes, Asking
<1>7. RowsReadWereSeen'
  BY <1>2, <1>3 DEF CellInv, RowsReadWereSeen, Asking
<1>8. ASSUME NEW base, NEW refs, refs \subseteq Facts, a \notin Admins,
             Contents!RefsAreHeld(a, base, refs)
      PROVE  refs \ base \subseteq seen[a].facts
  BY <1>5, <1>8 DEF CellInv, HoldingsAreKnown, Contents!RefsAreHeld, Contents!IsAdmin
<1>9. q.op \in {"create", "update", "clone"} => q.wish.refs \subseteq Facts
  BY <1>5 DEF CellInv, AskedTypes
<1>10. a \notin Admins =>
         /\ q.op = "create" => q.wish.refs \subseteq seen[a].facts
         /\ q.op \in {"update", "clone"} =>
              q.wish.refs \ (IF q.saw THEN {} ELSE q.row.refs) \subseteq seen[a].facts
         /\ q.op = "link" => q.wish.target \in seen[a].cells
  <2> SUFFICES ASSUME a \notin Admins
               PROVE  /\ q.op = "create" => q.wish.refs \subseteq seen[a].facts
                      /\ q.op \in {"update", "clone"} =>
                           q.wish.refs \ (IF q.saw THEN {} ELSE q.row.refs)
                             \subseteq seen[a].facts
                      /\ q.op = "link" => q.wish.target \in seen[a].cells
    OBVIOUS
  <2>1. CASE q.op = "create"
    <3>1. Contents!RefsAreHeld(a, {}, q.wish.refs)
      BY <1>1, <2>1 DEF Contents!Admits, Contents!AdmitsCreate
    <3> QED BY <1>8, <1>9, <2>1, <3>1
  <2>2. CASE q.op \in {"update", "clone"}
    <3>1. Contents!RefsAreHeld(a, q.row.refs, q.wish.refs)
      BY <1>1, <2>2 DEF Contents!Admits, Contents!AdmitsUpdate, Contents!AdmitsClone
    <3>2. q.wish.refs \ q.row.refs \subseteq seen[a].facts
      BY <1>8, <1>9, <2>2, <3>1
    <3>3. q.saw => q.row.refs \subseteq seen[a].facts
      BY <1>5 DEF CellInv, RowsReadWereSeen
    <3> HIDE DEF q, a
    <3> QED BY <2>2, <3>2, <3>3
  <2>3. CASE q.op = "link"
    <3>1. /\ cell[q.wish.target].live
          /\ Contents!CanView(a, cell[q.wish.target], grant[q.wish.target])
      BY <1>1, <2>3 DEF Contents!Admits, Contents!AdmitsLink
    <3>2. q.wish.target \in Cells
      BY <1>5, <2>3 DEF CellInv, AskedTypes
    <3> QED BY <1>5, <2>3, <3>1, <3>2 DEF CellInv, SightIsRemembered
  <2> QED BY <2>1, <2>2, <2>3
<1>11. NoOneNamesWhatTheyNeverSaw'
  BY <1>2, <1>3, <1>10 DEF CellInv, NoOneNamesWhatTheyNeverSaw,
         Contents!NoOneNamesWhatTheyNeverSaw, Contents!IsAdmin
<1> QED BY <1>4, <1>6, <1>7, <1>11 DEF CellInv

\* A step that ends a request, and shows no more than there was.
LEMMA QuietSteps ==
  ASSUME CellInv, NEW r \in CellRequests, UNCHANGED <<cell, grant, held, seen>>,
         cell_req' = [cell_req EXCEPT ![r] = Contents!Idle]
  PROVE  CellInv'
<1>1. SeenGrows
  BY DEF SeenGrows
<1>2. /\ cell_req' = [s \in CellRequests |-> cell_req'[s]]
      /\ AskedTypes' /\ RowsReadWereSeen' /\ NoOneNamesWhatTheyNeverSaw'
  BY <1>1, WhatIsKnownStays DEF CellInv
<1>3. CellTypes' /\ SightIsRemembered' /\ HoldingsAreKnown'
  BY <1>2 DEF CellInv, CellTypes, SightIsRemembered, HoldingsAreKnown, Contents!CanView,
         Contents!CanManage, Contents!IsAdmin, Contents!IsOwner, Contents!HasAudience,
         Contents!GrantAdmits
<1> QED BY <1>2, <1>3 DEF CellInv

\* A deletion hides a row, and shows nobody anything.
LEMMA CellsAreDeleted ==
  ASSUME CellInv, NEW r \in CellRequests, Contents!Delete(r)
  PROVE  CellInv' /\ RejectedStays
<1>1. cell' \in [Cells -> CellRows] /\ RejectedStays
  BY WrittenRows
<1>2. /\ UNCHANGED <<grant, held, seen>>
      /\ cell' = [cell EXCEPT ![cell_req[r].cell].live = FALSE]
      /\ cell_req' = [cell_req EXCEPT ![r] = Contents!Idle]
  BY DEF Contents!Delete, Contents!Done
<1>3. ASSUME NEW c \in Cells, cell'[c].live
      PROVE  cell'[c] = cell[c]
  BY <1>2, <1>3 DEF CellInv, CellTypes, CellRows
<1>4. SightIsRemembered'
  <2> SUFFICES ASSUME NEW a \in Actors, NEW c \in Cells, cell'[c].live,
                      Contents!CanView(a, cell'[c], grant'[c])
               PROVE  c \in seen'[a].cells /\ cell'[c].refs \subseteq seen'[a].facts
    BY DEF SightIsRemembered, Contents!CanView, Contents!CanManage, Contents!IsAdmin,
           Contents!IsOwner, Contents!HasAudience, Contents!GrantAdmits
  <2>1. cell'[c] = cell[c]
    BY <1>3
  <2>2. cell[c].live /\ Contents!CanView(a, cell[c], grant[c])
    BY <1>2, <2>1
  <2> QED BY <1>2, <2>1, <2>2 DEF CellInv, SightIsRemembered
<1>5. SeenGrows
  BY <1>2 DEF SeenGrows
<1>6. /\ cell_req' = [s \in CellRequests |-> cell_req'[s]]
      /\ AskedTypes' /\ RowsReadWereSeen' /\ NoOneNamesWhatTheyNeverSaw'
  BY <1>2, <1>5, WhatIsKnownStays DEF CellInv
<1>7. CellTypes' /\ HoldingsAreKnown'
  BY <1>1, <1>2, <1>6 DEF CellInv, CellTypes, HoldingsAreKnown
<1> QED BY <1>1, <1>4, <1>6, <1>7 DEF CellInv

\* Every step of the cells keeps the invariant, and what was rejected.
LEMMA CellsStep ==
  ASSUME CellInv, Contents!CellsNext
  PROVE  CellInv' /\ RejectedStays
<1>1. ASSUME UNCHANGED cell PROVE RejectedStays
  BY <1>1 DEF RejectedStays
<1>2. ASSUME NEW a \in Actors, NEW f \in Facts, Contents!PutFact(a, f)
      PROVE  CellInv' /\ RejectedStays
  BY <1>1, <1>2, FactsArePut DEF Contents!PutFact
<1>3. ASSUME NEW r \in CellRequests, NEW a \in Actors,
             \/ \E op \in Ops, c \in Cells : Contents!Ask(r, a, op, c)
             \/ Contents!AskRoot(r, a)
      PROVE  CellInv' /\ RejectedStays
  <2>1. UNCHANGED cell
    BY <1>3 DEF Contents!Ask, Contents!AskRoot
  <2> QED BY <1>1, <1>3, <2>1, NewRequestsAreKnown
<1>4. ASSUME NEW r \in CellRequests, Contents!Admit(r)
      PROVE  CellInv' /\ RejectedStays
  BY <1>1, <1>4, RequestsAreLetIn DEF Contents!Admit
<1>5. ASSUME NEW r \in CellRequests,
             Contents!GiveUp(r) \/ Contents!Link(r) \/ Contents!Unlink(r)
      PROVE  CellInv' /\ RejectedStays
  <2>1. /\ UNCHANGED <<cell, grant, held, seen>>
        /\ cell_req' = [cell_req EXCEPT ![r] = Contents!Idle]
    BY <1>5 DEF Contents!GiveUp, Contents!Link, Contents!Unlink, Contents!Done
  <2> QED BY <1>1, <2>1, QuietSteps
<1>6. ASSUME NEW r \in CellRequests,
             \/ Contents!Create(r) \/ Contents!Update(r) \/ Contents!Clone(r)
             \/ Contents!Moderate(r)
      PROVE  CellInv' /\ RejectedStays
  <2>1. cell' \in [Cells -> CellRows] /\ RejectedStays
    BY <1>6, WrittenRows
  <2>2. Contents!Done(r) /\ UNCHANGED held /\ Contents!Observe
    BY <1>6 DEF Contents!Create, Contents!Update, Contents!Clone, Contents!Moderate
  <2> QED BY <2>1, <2>2, WritesAreSeen
<1>7. ASSUME NEW r \in CellRequests, Contents!Grant(r) \/ Contents!Revoke(r)
      PROVE  CellInv' /\ RejectedStays
  <2>1. /\ UNCHANGED <<cell, held>>
        /\ Contents!Done(r) /\ Contents!Observe
    BY <1>7 DEF Contents!Grant, Contents!Revoke
  <2>2. cell' \in [Cells -> CellRows]
    BY <2>1 DEF CellInv, CellTypes
  <2> QED BY <1>1, <2>1, <2>2, WritesAreSeen
<1> QED BY <1>2, <1>3, <1>4, <1>5, <1>6, <1>7, CellsAreDeleted DEF Contents!CellsNext

\* The root and its contribution, and who sees them, to begin with.
LEMMA CellsBegin == ASSUME ServerInit PROVE CellInv
<1> USE DEF ServerInit, Contents!CellsInit
<1>1. \A c \in Cells : Contents!Unborn \in CellRows
  BY DEF Contents!Unborn, CellRows, Contents!Unset, Contents!NoCell
<1>2. \A v \in {"private", "public"} :
        Contents!Root(v) \in CellRows /\ Contents!Root(v).owner = Founder
          /\ Contents!Root(v).live /\ Contents!Root(v).refs = Facts
  <2>1. PICK born : born = Contents!Unborn
    OBVIOUS
  <2>2. born \in CellRows
    BY <2>1 DEF Contents!Unborn, CellRows, Contents!Unset, Contents!NoCell
  <2> QED BY <2>1, <2>2, CellsAssumption DEF Contents!Root, CellRows
<1>3. \A a \in Actors : Contents!Contribution(a) \in CellRows
  <2>1. PICK born : born = Contents!Unborn
    OBVIOUS
  <2>2. born \in CellRows
    BY <2>1 DEF Contents!Unborn, CellRows, Contents!Unset, Contents!NoCell
  <2> QED BY <2>1, <2>2, CellsAssumption DEF Contents!Contribution, CellRows
<1>4. /\ cell \in [Cells -> CellRows]
      /\ cell[1].owner = Founder /\ cell[1].live /\ cell[1].refs = Facts
  <2>1. PICK visibility \in {"private", "public"},
             second \in {Contents!Unborn}
                         \cup {Contents!Contribution(a) : a \in Actors \ {Founder}} :
          cell = [c \in Cells |-> CASE c = 1 -> Contents!Root(visibility)
                                    [] c = 2 -> second
                                    [] OTHER -> Contents!Unborn]
    OBVIOUS
  <2>2. second \in CellRows
    BY <1>1, <1>3, CellsAssumption
  <2> QED BY <1>1, <1>2, <2>1, <2>2, CellsAssumption
<1>5. ASSUME NEW a \in Actors
      PROVE  /\ seen[a].cells \subseteq Cells /\ seen[a].facts \subseteq Facts
             /\ seen[a] \in [cells : SUBSET Cells, facts : SUBSET Facts]
             /\ \A c \in Cells : cell[c].live /\ Contents!CanView(a, cell[c], grant[c]) =>
                  c \in seen[a].cells /\ cell[c].refs \subseteq seen[a].facts
  <2> DEFINE V == {c \in Cells : cell[c].live /\ Contents!CanView(a, cell[c], grant[c])}
             S == UNION {cell[c].refs : c \in V}
  <2>1. seen[a] = [cells |-> {} \cup V, facts |-> {} \cup S]
    BY DEF Contents!Sighted, Contents!Nothing
  <2>2. S \subseteq Facts
    <3>1. \A c \in V : cell[c].refs \subseteq Facts
      BY <1>4 DEF CellRows
    <3> HIDE DEF V
    <3> QED BY <3>1
  <2>3. \A c \in V : cell[c].refs \subseteq S
    OBVIOUS
  <2>4. V \subseteq Cells
    OBVIOUS
  <2>5. \A c \in Cells : cell[c].live /\ Contents!CanView(a, cell[c], grant[c]) => c \in V
    OBVIOUS
  <2> HIDE DEF V, S
  <2> QED BY ONLY <2>1, <2>2, <2>3, <2>4, <2>5
<1>6. CellTypes
  BY <1>4, <1>5 DEF CellTypes
<1>7. AskedTypes /\ RowsReadWereSeen /\ NoOneNamesWhatTheyNeverSaw
  BY DEF AskedTypes, RowsReadWereSeen, NoOneNamesWhatTheyNeverSaw, Asking,
         Contents!NoOneNamesWhatTheyNeverSaw, Contents!Idle
<1>8. SightIsRemembered
  BY <1>5 DEF SightIsRemembered
<1>9. HoldingsAreKnown
  <2>1. Contents!CanView(Founder, cell[1], grant[1])
    BY <1>4 DEF Contents!CanView, Contents!CanManage, Contents!IsOwner
  <2>2. Facts \subseteq seen[Founder].facts
    BY <1>4, <1>5, <2>1, CellsAssumption
  <2> QED BY <2>2 DEF HoldingsAreKnown
<1> QED BY <1>6, <1>7, <1>8, <1>9 DEF CellInv

\* The same of the server, whose other steps leave the cells alone.
LEMMA CellsStepOrStay ==
  ASSUME CellInv, [ServerNext]_server_vars
  PROVE  CellInv' /\ RejectedStays
<1>1. Contents!CellsNext \/ UNCHANGED cell_vars
  BY DEF ServerNext, server_vars
<1>2. CASE UNCHANGED cell_vars
  BY <1>2 DEF cell_vars, CellInv, CellTypes, AskedTypes, SightIsRemembered, HoldingsAreKnown,
              RowsReadWereSeen, RejectedStays, Asking, NoOneNamesWhatTheyNeverSaw,
              Contents!NoOneNamesWhatTheyNeverSaw, Contents!CanView, Contents!CanManage,
              Contents!IsAdmin, Contents!IsOwner, Contents!HasAudience, Contents!GrantAdmits
<1> QED BY <1>1, <1>2, CellsStep

(***************************************************************************)
(* A cell names only facts that its writer put or could see, and is linked *)
(* only to cells that it could see, whoever writes, grants, revokes and    *)
(* moderates meanwhile.                                                    *)
(***************************************************************************)
THEOREM NamesWereSeen == ServerParts => []NoOneNamesWhatTheyNeverSaw
<1>1. ServerInit => CellInv
  BY CellsBegin
<1>2. CellInv /\ [ServerNext]_server_vars => CellInv'
  BY CellsStepOrStay
<1>3. CellInv => NoOneNamesWhatTheyNeverSaw
  BY DEF CellInv
<1> QED BY <1>1, <1>2, <1>3, PTL DEF ServerParts

(***************************************************************************)
(* A contribution that was rejected stays rejected, whatever other         *)
(* moderators and its writer do at once.                                   *)
(***************************************************************************)
THEOREM RejectionIsFinal == ServerParts => RejectedStaysRejected
<1>1. ServerInit => CellInv
  BY CellsBegin
<1>2. CellInv /\ [ServerNext]_server_vars => CellInv'
  BY CellsStepOrStay
<1>3. CellInv /\ [ServerNext]_server_vars =>
        [\A c \in Cells : cell[c].moderation = "rejected" => cell'[c].moderation = "rejected"
          ]_Contents!cell_vars
  BY CellsStepOrStay DEF RejectedStays
<1> QED BY <1>1, <1>2, <1>3, PTL DEF ServerParts, RejectedStaysRejected,
             Contents!RejectedStaysRejected

-----------------------------------------------------------------------------
(***************************************************************************)
(* The cookies of the sessions.  A cookie that has not ended is of a key   *)
(* of the environment and of the running server, as long as the keys are   *)
(* rotated by the book: the first key signs, and one that no longer does   *)
(* signed nothing that lives for longer than SessionAge after that.        *)
(***************************************************************************)
Runs == ring # <<>>

\* A weak key is last, behind another.
EnvironmentTypes ==
  /\ env_keys \in Seq(Nat) /\ env_keys # <<>>
  /\ \A i \in 1..Len(env_keys) :
       /\ env_keys[i] \in 0..MaxKey
       /\ i < Len(env_keys) \/ i = 1 => env_keys[i] # 0

CookieTypes ==
  /\ EnvironmentTypes
  /\ now \in Nat \ {0} /\ hasty \in BOOLEAN
  /\ ring \in Seq(Nat) /\ \A i \in 1..Len(ring) : ring[i] \in Cookies!KeyIds
  /\ signed_last \in [Cookies!KeyIds -> Nat]
  /\ cookie \in [Browsers -> [key : Nat, expires : Nat]]
  /\ row_expires \in [Browsers -> Nat]

InEnv(k) == \E i \in 1..Len(env_keys) : env_keys[i] = k
InRing(k) == \E i \in 1..Len(ring) : ring[i] = k

KeysOfTheEnvironment ==
  /\ \A i, j \in 1..Len(env_keys) : env_keys[i] = env_keys[j] => i = j
  /\ Runs /\ ~hasty => InEnv(ring[1])

LiveCookiesHold ==
  ~hasty => \A b \in Browsers : cookie[b].expires > now =>
              InEnv(cookie[b].key) /\ cookie[b].key # 0 /\ (Runs => InRing(cookie[b].key))

SignedWhileItSigned ==
  \A b \in Browsers :
    /\ cookie[b].expires <= now + SessionAge
    /\ cookie[b].key \in Cookies!KeyIds \/ cookie[b].expires = 0
    /\ cookie[b].expires # 0 =>
         \/ Runs /\ cookie[b].key = ring[1]
         \/ cookie[b].expires <= signed_last[cookie[b].key] + SessionAge

RowsAndCookiesAgree ==
  \A b \in Browsers :
    row_expires[b] # 0 => cookie[b] = Cookies!NoCookie \/ cookie[b].expires = row_expires[b]

CookieInv ==
  /\ CookieTypes /\ KeysOfTheEnvironment /\ LiveCookiesHold /\ SignedWhileItSigned
  /\ RowsAndCookiesAgree

\* The server and the clock: a key that stops signing has signed nothing that lasts.
LEMMA ServersBootAndStop ==
  ASSUME CookieInv, Cookies!Boot \/ Cookies!Stop \/ Cookies!Tick
  PROVE  CookieInv'
<1>1. CASE Cookies!Boot
  <2> USE <1>1 DEF Cookies!Boot, Cookies!ValidateKeyring
  <2>1. CookieTypes'
    BY DEF CookieInv, CookieTypes, EnvironmentTypes, Cookies!KeyIds
  <2>2. KeysOfTheEnvironment'
    BY DEF CookieInv, CookieTypes, EnvironmentTypes, KeysOfTheEnvironment, InEnv, Runs
  <2>3. LiveCookiesHold'
    BY DEF CookieInv, CookieTypes, LiveCookiesHold, InEnv, InRing, Runs
  <2>4. SignedWhileItSigned'
    BY DEF CookieInv, CookieTypes, SignedWhileItSigned, Runs
  <2>5. RowsAndCookiesAgree'
    BY DEF CookieInv, RowsAndCookiesAgree
  <2> QED BY <2>1, <2>2, <2>3, <2>4, <2>5 DEF CookieInv
<1>2. CASE Cookies!Stop
  <2> USE <1>2 DEF Cookies!Stop
  <2>1. ring[1] \in Cookies!KeyIds
    BY DEF CookieInv, CookieTypes
  <2>2. CookieTypes'
    BY <2>1 DEF CookieInv, CookieTypes, EnvironmentTypes
  <2>3. KeysOfTheEnvironment'
    BY DEF CookieInv, KeysOfTheEnvironment, Runs
  <2>4. LiveCookiesHold'
    BY DEF CookieInv, LiveCookiesHold, InEnv, Runs
  <2>5. SignedWhileItSigned'
    <3> SUFFICES ASSUME NEW b \in Browsers
                 PROVE  /\ cookie[b].expires <= now + SessionAge
                        /\ cookie[b].key \in Cookies!KeyIds \/ cookie[b].expires = 0
                        /\ cookie[b].expires # 0 =>
                             cookie[b].expires <= signed_last'[cookie[b].key] + SessionAge
      BY DEF SignedWhileItSigned
    <3>1. /\ cookie[b].expires <= now + SessionAge
          /\ cookie[b].key \in Cookies!KeyIds \/ cookie[b].expires = 0
          /\ cookie[b].expires # 0 =>
               \/ Runs /\ cookie[b].key = ring[1]
               \/ cookie[b].expires <= signed_last[cookie[b].key] + SessionAge
      BY DEF CookieInv, SignedWhileItSigned
    <3>2. signed_last'[ring[1]] = now
      BY <2>1 DEF CookieInv, CookieTypes
    <3>3. ASSUME cookie[b].expires # 0, cookie[b].key # ring[1]
          PROVE  signed_last'[cookie[b].key] = signed_last[cookie[b].key]
      BY <3>1, <3>3 DEF CookieInv, CookieTypes
    <3> QED BY <3>1, <3>2, <3>3
  <2>6. RowsAndCookiesAgree'
    BY DEF CookieInv, RowsAndCookiesAgree
  <2> QED BY <2>2, <2>3, <2>4, <2>5, <2>6 DEF CookieInv
<1>3. CASE Cookies!Tick
  <2> USE <1>3 DEF Cookies!Tick
  <2>1. CookieTypes' /\ KeysOfTheEnvironment' /\ RowsAndCookiesAgree'
    BY DEF CookieInv, CookieTypes, EnvironmentTypes, KeysOfTheEnvironment, RowsAndCookiesAgree,
           InEnv, Runs
  <2>2. \A b \in Browsers : cookie[b].expires > now' => cookie[b].expires > now
    BY DEF CookieInv, CookieTypes
  <2>4. LiveCookiesHold'
    BY <2>2 DEF CookieInv, LiveCookiesHold, InEnv, InRing, Runs
  <2>3. SignedWhileItSigned'
    BY CookiesAssumption DEF CookieInv, CookieTypes, SignedWhileItSigned, Runs
  <2> QED BY <2>1, <2>3, <2>4 DEF CookieInv
<1> QED BY <1>1, <1>2, <1>3

\* The browsers: what they are given is signed by the first key, and ends with its row.
LEMMA BrowsersSignIn ==
  ASSUME CookieInv, NEW b \in Browsers,
         Cookies!Login(b) \/ Cookies!Request(b) \/ Cookies!Revoke(b)
  PROVE  CookieInv'
<1>1. /\ UNCHANGED <<now, env_keys, ring, signed_last, hasty>>
      /\ Runs /\ ring[1] \in Cookies!KeyIds
  BY DEF CookieInv, CookieTypes, Runs, Cookies!Login, Cookies!Request, Cookies!Revoke
<1>2. /\ cookie' \in [Browsers -> [key : Nat, expires : Nat]]
      /\ row_expires' \in [Browsers -> Nat]
      /\ \A d \in Browsers \ {b} : cookie'[d] = cookie[d] /\ row_expires'[d] = row_expires[d]
      /\ \/ cookie'[b] = [key |-> ring[1], expires |-> now + SessionAge]
            /\ row_expires'[b] = now + SessionAge
         \/ /\ cookie'[b] = cookie[b] \/ cookie'[b] = Cookies!NoCookie
            /\ row_expires'[b] = row_expires[b] \/ row_expires'[b] = 0
  <2>1. CASE Cookies!Login(b)
    <3>1. /\ cookie' = [cookie EXCEPT ![b] = [key |-> ring[1], expires |-> now + SessionAge]]
          /\ row_expires' = [row_expires EXCEPT ![b] = now + SessionAge]
      BY <2>1 DEF Cookies!Login, Cookies!CreateSessionCookieValue, Cookies!Sign
    <3>2. [key |-> ring[1], expires |-> now + SessionAge] \in [key : Nat, expires : Nat]
      BY <1>1, CookiesAssumption DEF CookieInv, CookieTypes, Cookies!KeyIds
    <3>3. now + SessionAge \in Nat
      BY CookiesAssumption DEF CookieInv, CookieTypes
    <3> QED BY <3>1, <3>2, <3>3 DEF CookieInv, CookieTypes
  <2>2. CASE Cookies!Request(b)
    <3>1. Cookies!NoCookie \in [key : Nat, expires : Nat]
      BY DEF Cookies!NoCookie
    <3>2. /\ cookie' = cookie \/ cookie' = [cookie EXCEPT ![b] = Cookies!NoCookie]
          /\ row_expires' = row_expires
      BY <2>2 DEF Cookies!Request
    <3> QED BY <3>1, <3>2 DEF CookieInv, CookieTypes
  <2>3. CASE Cookies!Revoke(b)
    <3>1. Cookies!NoCookie \in [key : Nat, expires : Nat]
      BY DEF Cookies!NoCookie
    <3>2. /\ cookie' = cookie \/ cookie' = [cookie EXCEPT ![b] = Cookies!NoCookie]
          /\ row_expires' = [row_expires EXCEPT ![b] = 0]
      BY <2>3 DEF Cookies!Revoke
    <3> QED BY <3>1, <3>2 DEF CookieInv, CookieTypes
  <2> QED BY <2>1, <2>2, <2>3
<1>3. CookieTypes' /\ KeysOfTheEnvironment'
  BY <1>1, <1>2 DEF CookieInv, CookieTypes, EnvironmentTypes, KeysOfTheEnvironment, InEnv, Runs
<1>4. Cookies!NoCookie.expires = 0
  BY DEF Cookies!NoCookie
<1>5. LiveCookiesHold'
  <2>1. ~hasty => InEnv(ring[1])
    BY <1>1 DEF CookieInv, KeysOfTheEnvironment
  <2>2. InRing(ring[1]) /\ ring[1] # 0
    BY <1>1 DEF CookieInv, CookieTypes, Runs, InRing, Cookies!KeyIds
  <2>3. now \in Nat
    BY DEF CookieInv, CookieTypes
  <2> QED BY <1>1, <1>2, <1>4, <2>1, <2>2, <2>3 DEF CookieInv, LiveCookiesHold, InEnv, InRing, Runs
<1>6. SignedWhileItSigned'
  <2>1. now + SessionAge \in Nat
    BY CookiesAssumption DEF CookieInv, CookieTypes
  <2>2. \A d \in Browsers :
          \/ cookie'[d] = cookie[d]
          \/ cookie'[d].expires = 0
          \/ cookie'[d].key = ring[1] /\ cookie'[d].expires = now + SessionAge
    BY <1>2, <1>4
  <2> QED BY <1>1, <2>1, <2>2 DEF CookieInv, SignedWhileItSigned, Runs
<1>7. RowsAndCookiesAgree'
  BY <1>1, <1>2, <1>4 DEF CookieInv, RowsAndCookiesAgree
<1> QED BY <1>3, <1>5, <1>6, <1>7 DEF CookieInv

\* The operator, whose every step but the hasty one leaves the live cookies their keys.
LEMMA KeysAreRotated ==
  ASSUME CookieInv,
         \/ Cookies!PrependKey \/ Cookies!RemoveOldKey
         \/ Cookies!ReplaceKeys \/ Cookies!WeakKey
  PROVE  CookieInv'
<1>1. UNCHANGED <<now, ring, signed_last, cookie, row_expires>>
  BY DEF Cookies!PrependKey, Cookies!RemoveOldKey, Cookies!ReplaceKeys, Cookies!WeakKey
<1>2. RowsAndCookiesAgree' /\ SignedWhileItSigned'
  BY <1>1 DEF CookieInv, RowsAndCookiesAgree, SignedWhileItSigned, Runs
<1>3. Len(env_keys) \in Nat /\ Len(env_keys) > 0
  BY DEF CookieInv, CookieTypes, EnvironmentTypes
<1>4. CASE Cookies!PrependKey
  <2>1. PICK key \in Cookies!KeyIds : ~InEnv(key) /\ env_keys' = <<key>> \o env_keys
    <3>1. PICK key \in Cookies!KeyIds \ Cookies!ToSet(env_keys) : env_keys' = <<key>> \o env_keys
      BY <1>4 DEF Cookies!PrependKey
    <3>2. ~InEnv(key)
      BY <3>1 DEF Cookies!ToSet, InEnv, CookieInv, CookieTypes, EnvironmentTypes
    <3> QED BY <3>1, <3>2
  <2>2. /\ env_keys' \in Seq(Nat) /\ Len(env_keys') = Len(env_keys) + 1
        /\ env_keys'[1] = key
        /\ \A i \in 1..Len(env_keys) : env_keys'[i + 1] = env_keys[i]
        /\ \A i \in 1..Len(env_keys') : i = 1 \/ (i - 1 \in 1..Len(env_keys)
                                                  /\ env_keys'[i] = env_keys[i - 1])
    BY <1>3, <2>1 DEF CookieInv, CookieTypes, EnvironmentTypes, Cookies!KeyIds
  <2>3. CookieTypes'
    <3>1. EnvironmentTypes'
      <4>1. ASSUME NEW i \in 1..Len(env_keys')
            PROVE  /\ env_keys'[i] \in 0..MaxKey
                   /\ i < Len(env_keys') \/ i = 1 => env_keys'[i] # 0
        <5>1. CASE i = 1
          BY <2>1, <2>2, <5>1, CookiesAssumption DEF Cookies!KeyIds
        <5>2. CASE i # 1
          <6>1. /\ i - 1 \in 1..Len(env_keys) /\ env_keys'[i] = env_keys[i - 1]
                /\ i < Len(env_keys') => i - 1 < Len(env_keys)
            BY <1>3, <2>2, <4>1, <5>2
          <6> QED BY <5>2, <6>1 DEF CookieInv, CookieTypes, EnvironmentTypes
        <5> QED BY <5>1, <5>2
      <4>2. env_keys' # <<>>
        BY <1>3, <2>2
      <4> QED BY <2>2, <4>1, <4>2 DEF EnvironmentTypes
    <3> QED BY <1>1, <1>4, <3>1 DEF CookieInv, CookieTypes, Cookies!PrependKey
  <2>4. \A k : InEnv(k) => InEnv(k)'
    BY <1>3, <2>2 DEF InEnv
  <2>5. KeysOfTheEnvironment'
    <3>1. \A i, j \in 1..Len(env_keys') : env_keys'[i] = env_keys'[j] => i = j
      BY <1>3, <2>1, <2>2 DEF CookieInv, KeysOfTheEnvironment, InEnv
    <3> QED BY <1>1, <1>4, <2>4, <3>1 DEF CookieInv, KeysOfTheEnvironment, Runs, Cookies!PrependKey
  <2>6. LiveCookiesHold'
    BY <1>1, <1>4, <2>4 DEF CookieInv, LiveCookiesHold, InRing, Runs, Cookies!PrependKey
  <2> QED BY <1>2, <2>3, <2>5, <2>6 DEF CookieInv
<1>5. CASE Cookies!RemoveOldKey
  <2> DEFINE n == Len(env_keys)
  <2>1. /\ ring = env_keys /\ n > 1 /\ hasty' = hasty
        /\ now >= signed_last[env_keys[n]] + SessionAge
        /\ env_keys' = SubSeq(env_keys, 1, n - 1)
    BY <1>5 DEF Cookies!RemoveOldKey, Cookies!Last, Cookies!Front
  <2>2. /\ env_keys' \in Seq(Nat) /\ Len(env_keys') = n - 1
        /\ \A i \in 1..Len(env_keys') : i \in 1..n /\ i < n /\ env_keys'[i] = env_keys[i]
        /\ \A i \in 1..n : i < n => i \in 1..Len(env_keys')
    BY <1>3, <2>1 DEF CookieInv, CookieTypes, EnvironmentTypes
  <2>3. CookieTypes'
    <3>1. env_keys' # <<>>
      BY <1>3, <2>1, <2>2
    <3>2. EnvironmentTypes'
      BY <1>3, <2>1, <2>2, <3>1 DEF CookieInv, CookieTypes, EnvironmentTypes
    <3> QED BY <1>1, <2>1, <3>2 DEF CookieInv, CookieTypes
  <2>4. \A k : InEnv(k) /\ k # env_keys[n] => InEnv(k)'
    BY <1>3, <2>2 DEF InEnv
  <2>5. ring[1] # env_keys[n]
    BY <1>3, <2>1 DEF CookieInv, KeysOfTheEnvironment
  <2>6. KeysOfTheEnvironment'
    BY <1>1, <1>3, <2>1, <2>2, <2>4, <2>5 DEF CookieInv, KeysOfTheEnvironment, Runs
  <2>7. ASSUME NEW b \in Browsers, cookie[b].expires > now
        PROVE  cookie[b].key # env_keys[n]
    <3>1. /\ cookie[b].expires \in Nat /\ cookie[b].expires # 0 /\ now \in Nat
      BY <2>7 DEF CookieInv, CookieTypes
    <3>2. cookie[b].key = ring[1] \/ cookie[b].expires <= signed_last[cookie[b].key] + SessionAge
      BY <3>1 DEF CookieInv, SignedWhileItSigned
    <3>3. cookie[b].key \in Cookies!KeyIds
      BY <3>1 DEF CookieInv, SignedWhileItSigned
    <3>4. signed_last[cookie[b].key] \in Nat
      BY <3>3 DEF CookieInv, CookieTypes
    <3> QED BY <2>1, <2>5, <2>7, <3>1, <3>2, <3>4, CookiesAssumption
  <2>8. LiveCookiesHold'
    BY <1>1, <2>1, <2>4, <2>7 DEF CookieInv, LiveCookiesHold, InRing, Runs
  <2> QED BY <1>2, <2>3, <2>6, <2>8 DEF CookieInv
<1>6. CASE Cookies!ReplaceKeys
  <2>1. PICK key \in Cookies!KeyIds : env_keys' = <<key>> /\ hasty' = TRUE
    BY <1>6 DEF Cookies!ReplaceKeys
  <2>2. CookieTypes'
    BY <1>1, <2>1, CookiesAssumption DEF CookieInv, CookieTypes, EnvironmentTypes, Cookies!KeyIds
  <2>3. KeysOfTheEnvironment' /\ LiveCookiesHold'
    BY <2>1 DEF KeysOfTheEnvironment, LiveCookiesHold
  <2> QED BY <1>2, <2>2, <2>3 DEF CookieInv
<1>7. CASE Cookies!WeakKey
  <2> DEFINE n == Len(env_keys)
  <2>1. hasty' = hasty
    BY <1>7 DEF Cookies!WeakKey
  <2>2. CASE env_keys[n] = 0
    <3>1. env_keys' = SubSeq(env_keys, 1, n - 1) /\ n > 1
      BY <1>3, <1>7, <2>2 DEF Cookies!WeakKey, Cookies!Last, Cookies!Front,
          CookieInv, CookieTypes, EnvironmentTypes
    <3>2. /\ env_keys' \in Seq(Nat) /\ Len(env_keys') = n - 1
          /\ \A i \in 1..Len(env_keys') : i \in 1..n /\ i < n /\ env_keys'[i] = env_keys[i]
          /\ \A i \in 1..n : i < n => i \in 1..Len(env_keys')
      BY <1>3, <3>1 DEF CookieInv, CookieTypes, EnvironmentTypes
    <3>3. CookieTypes'
      <4>1. env_keys' # <<>>
        BY <1>3, <3>1, Len(env_keys') = n - 1, n - 1 > 0
      <4>2. EnvironmentTypes'
        BY <1>3, <3>1, <3>2, <4>1 DEF CookieInv, CookieTypes, EnvironmentTypes
      <4> QED BY <1>1, <2>1, <4>2 DEF CookieInv, CookieTypes
    <3>4. ASSUME NEW k, InEnv(k), k # 0 PROVE InEnv(k)'
      <4>1. PICK i \in 1..n : env_keys[i] = k
        BY <3>4 DEF InEnv
      <4>2. i < n
        BY <1>3, <2>2, <3>4, <4>1
      <4> QED BY <3>2, <4>1, <4>2 DEF InEnv
    <3>5. Runs => ring[1] # 0
      BY DEF CookieInv, CookieTypes, Runs, Cookies!KeyIds
    <3>6. KeysOfTheEnvironment'
      BY <1>1, <1>3, <2>1, <3>2, <3>4, <3>5 DEF CookieInv, KeysOfTheEnvironment, Runs
    <3>7. LiveCookiesHold'
      BY <1>1, <2>1, <3>4 DEF CookieInv, LiveCookiesHold, InRing, Runs
    <3> QED BY <1>2, <3>3, <3>6, <3>7 DEF CookieInv
  <2>3. CASE env_keys[n] # 0
    <3>1. env_keys' = Append(env_keys, 0)
      BY <1>7, <2>3 DEF Cookies!WeakKey, Cookies!Last
    <3>2. /\ env_keys' \in Seq(Nat) /\ Len(env_keys') = n + 1 /\ env_keys'[n + 1] = 0
          /\ \A i \in 1..n : i \in 1..Len(env_keys') /\ env_keys'[i] = env_keys[i]
          /\ \A i \in 1..Len(env_keys') : i \in 1..n \/ i = n + 1
      BY <1>3, <3>1 DEF CookieInv, CookieTypes, EnvironmentTypes
    <3>3. \A i \in 1..n : env_keys[i] # 0
      BY <1>3, <2>3 DEF CookieInv, CookieTypes, EnvironmentTypes
    <3>4. CookieTypes'
      <4>1. env_keys' # <<>> /\ n + 1 # 1
        BY <1>3, <3>2
      <4>2. ASSUME NEW i \in 1..Len(env_keys')
            PROVE  /\ env_keys'[i] \in 0..MaxKey
                   /\ i < Len(env_keys') \/ i = 1 => env_keys'[i] # 0
        <5>1. CASE i \in 1..n
          BY <3>2, <3>3, <5>1 DEF CookieInv, CookieTypes, EnvironmentTypes
        <5>2. CASE i = n + 1
          BY <1>3, <3>2, <4>1, <5>2, CookiesAssumption
        <5> QED BY <3>2, <5>1, <5>2
      <4>3. EnvironmentTypes'
        BY <3>2, <4>1, <4>2 DEF EnvironmentTypes
      <4> QED BY <1>1, <2>1, <4>3 DEF CookieInv, CookieTypes
    <3>5. \A k : InEnv(k) => InEnv(k)'
      BY <3>2 DEF InEnv
    <3>6. KeysOfTheEnvironment'
      BY <1>1, <1>3, <2>1, <3>2, <3>3, <3>5 DEF CookieInv, KeysOfTheEnvironment, Runs
    <3>7. LiveCookiesHold'
      BY <1>1, <2>1, <3>5 DEF CookieInv, LiveCookiesHold, InRing, Runs
    <3> QED BY <1>2, <3>4, <3>6, <3>7 DEF CookieInv
  <2> QED BY <2>2, <2>3
<1> QED BY <1>4, <1>5, <1>6, <1>7

(***************************************************************************)
(* Keys that are rotated by the book sign no one out, and no cookie holds  *)
(* longer than the row of its session: for any keys and any number of      *)
(* browsers and restarts.                                                  *)
(***************************************************************************)
THEOREM SessionsLast == ServerParts => []SessionsLastAsLongAsTheyShould
<1>1. ServerInit => CookieInv
  <2> SUFFICES ASSUME Cookies!CookiesInit PROVE CookieInv
    BY DEF ServerInit
  <2> USE DEF Cookies!CookiesInit
  <2>1. CookieTypes
    <3>1. /\ env_keys \in Seq(Nat) /\ env_keys # <<>> /\ Len(env_keys) = 1 /\ env_keys[1] = 1
          /\ ring \in Seq(Nat) /\ Len(ring) = 1 /\ ring[1] = 1
      OBVIOUS
    <3>2. Cookies!NoCookie \in [key : Nat, expires : Nat]
      BY DEF Cookies!NoCookie
    <3>3. EnvironmentTypes
      BY <3>1, CookiesAssumption DEF EnvironmentTypes
    <3>4. \A i \in 1..Len(ring) : ring[i] \in Cookies!KeyIds
      BY <3>1, CookiesAssumption DEF Cookies!KeyIds
    <3>5. signed_last \in [Cookies!KeyIds -> Nat] /\ row_expires \in [Browsers -> Nat]
      OBVIOUS
    <3>6. cookie \in [Browsers -> [key : Nat, expires : Nat]]
      BY <3>2
    <3>7. now = 1 /\ hasty = FALSE
      OBVIOUS
    <3>8. now \in Nat \ {0}
      BY ONLY <3>7
    <3>9. hasty \in BOOLEAN
      BY ONLY <3>7, Zenon
    <3> QED BY ONLY <3>1, <3>3, <3>4, <3>5, <3>6, <3>8, <3>9 DEF CookieTypes
  <2>2. KeysOfTheEnvironment
    BY DEF KeysOfTheEnvironment, InEnv
  <2>3. LiveCookiesHold /\ SignedWhileItSigned /\ RowsAndCookiesAgree
    BY CookiesAssumption DEF LiveCookiesHold, SignedWhileItSigned, RowsAndCookiesAgree,
       Cookies!NoCookie
  <2> QED BY <2>1, <2>2, <2>3 DEF CookieInv
<1>2. CookieInv /\ [ServerNext]_server_vars => CookieInv'
  <2> SUFFICES ASSUME CookieInv, [ServerNext]_server_vars PROVE CookieInv'
    OBVIOUS
  <2>1. Cookies!CookiesNext \/ UNCHANGED cookie_vars
    BY DEF ServerNext, server_vars, edge_vars
  <2>2. CASE UNCHANGED cookie_vars
    BY <2>2 DEF cookie_vars, CookieInv, CookieTypes, EnvironmentTypes, KeysOfTheEnvironment,
                LiveCookiesHold,
                SignedWhileItSigned, RowsAndCookiesAgree, InEnv, InRing, Runs
  <2>3. CASE Cookies!CookiesNext
    BY <2>3, ServersBootAndStop, KeysAreRotated, BrowsersSignIn DEF Cookies!CookiesNext
  <2> QED BY <2>1, <2>2, <2>3
<1>3. CookieInv => SessionsLastAsLongAsTheyShould
  <2> SUFFICES ASSUME CookieInv PROVE SessionsLastAsLongAsTheyShould
    OBVIOUS
  <2>1. \A b \in Browsers : /\ cookie[b].expires \in Nat /\ row_expires[b] \in Nat /\ now \in Nat
    BY DEF CookieInv, CookieTypes
  <2>2. Cookies!NoCookie.expires = 0
    BY DEF Cookies!NoCookie
  <2>3. Cookies!NoCookieOutlivesItsRow
    BY <2>1, <2>2 DEF CookieInv, RowsAndCookiesAgree, Cookies!NoCookieOutlivesItsRow
  <2>4. Cookies!RotationSignsNoOneOut
    <3> SUFFICES ASSUME NEW b \in Browsers, cookie[b] # Cookies!NoCookie, row_expires[b] > now,
                        Runs, ~hasty
                 PROVE  Cookies!ParseSession(cookie[b])
      BY DEF Cookies!RotationSignsNoOneOut, Runs
    <3>1. cookie[b].expires > now
      BY <2>1 DEF CookieInv, RowsAndCookiesAgree
    <3>2. PICK i \in 1..Len(ring) : ring[i] = cookie[b].key
      BY <3>1 DEF CookieInv, LiveCookiesHold, InRing
    <3>3. DOMAIN ring = 1..Len(ring)
      BY DEF CookieInv, CookieTypes
    <3> QED BY <3>1, <3>2, <3>3 DEF Cookies!ParseSession, Cookies!Verify
  <2> QED BY <2>3, <2>4 DEF SessionsLastAsLongAsTheyShould, Cookies!SessionsLastAsLongAsTheyShould
<1> QED BY <1>1, <1>2, <1>3, PTL DEF ServerParts

-----------------------------------------------------------------------------
(***************************************************************************)
(* Audit streams.  Whatever of its authority a stream has read still       *)
(* stands, or a close that names the stream is due, or was dropped.        *)
(***************************************************************************)
\* Of streams that registered one after another, no more than n have fewer than n after
\* them: the oldest of those has the others among its fewer than n.
LEMMA FewAreRecent ==
  ASSUME NEW S, IsFiniteSet(S), NEW since \in [S -> Nat],
         \A t, u \in S : since[t] = since[u] => t = u, NEW n \in Nat
  PROVE  Cardinality({t \in S : Cardinality({u \in S : since[u] < since[t]}) < n}) <= n
<1> DEFINE Newer(t) == {u \in S : since[u] < since[t]}
           N == {t \in S : Cardinality(Newer(t)) < n}
           OlderIn(t) == {u \in N : since[t] < since[u]}
           F == {OlderIn(t) : t \in N}
<1>1. N \subseteq S /\ IsFiniteSet(N)
  BY FS_Subset
<1>2. \A t \in S : IsFiniteSet(Newer(t)) /\ Cardinality(Newer(t)) \in Nat
  BY FS_Subset, FS_CardinalityType
<1>3. \A t \in N : Cardinality(Newer(t)) < n
  OBVIOUS
<1> HIDE DEF N
<1> SUFFICES Cardinality(N) <= n
  BY DEF N
<1>4. CASE N = {}
  BY <1>4, FS_EmptySet
<1>5. CASE N # {}
  <2>1. IsWellFoundedOn(StrictSubsetOrdering(N), SUBSET N)
    BY <1>1, FS_StrictSubsetOrderingWellFounded, FS_FiniteSubsetsOfFinite
  <2>2. F \subseteq SUBSET N /\ F # {}
    <3>1. PICK t \in N : TRUE
      BY <1>5
    <3>2. OlderIn(t) \in F /\ \A u \in N : OlderIn(u) \in SUBSET N
      OBVIOUS
    <3> QED BY <3>2
  <2> HIDE DEF F
  <2>3. PICK x \in F : \A y \in F : ~(<<y, x>> \in StrictSubsetOrdering(N))
    BY <2>1, <2>2, WFMin
  <2>4. PICK m \in N : x = OlderIn(m)
    BY <2>3 DEF F
  <2>5. ASSUME NEW t \in N PROVE since[t] <= since[m]
    <3>0. since[t] \in Nat /\ since[m] \in Nat /\ t \in S /\ m \in S
      BY <1>1
    <3> SUFFICES ASSUME since[m] < since[t] PROVE FALSE
      BY <3>0
    <3>1. OlderIn(t) \in F
      BY DEF F
    <3>2. t \in OlderIn(m) /\ t \notin OlderIn(t)
      BY <3>0
    <3>3. OlderIn(t) \subseteq OlderIn(m)
      <4> SUFFICES ASSUME NEW u \in N, since[t] < since[u] PROVE since[m] < since[u]
        OBVIOUS
      <4>1. since[u] \in Nat
        BY <1>1
      <4> QED BY <4>1, <3>0
    <3>4. <<OlderIn(t), x>> \in StrictSubsetOrdering(N)
      BY <2>4, <3>2, <3>3 DEF StrictSubsetOrdering
    <3> QED BY <2>3, <3>1, <3>4
  <2>6. N \subseteq Newer(m) \cup {m}
    <3> SUFFICES ASSUME NEW t \in N, t # m PROVE since[t] < since[m]
      BY <1>1
    <3>1. since[t] \in Nat /\ since[m] \in Nat /\ t \in S /\ m \in S /\ since[t] # since[m]
      BY <1>1
    <3> QED BY <2>5, <3>1
  <2>7. m \in S
    BY <1>1
  <2>8. /\ IsFiniteSet(Newer(m)) /\ Cardinality(Newer(m)) \in Nat
        /\ Cardinality(Newer(m)) < n
    BY <1>2, <1>3, <2>7
  <2> HIDE DEF Newer
  <2>9. /\ IsFiniteSet(Newer(m) \cup {m})
        /\ Cardinality(Newer(m) \cup {m}) =
             IF m \in Newer(m) THEN Cardinality(Newer(m)) ELSE Cardinality(Newer(m)) + 1
    BY <2>8, FS_AddElement
  <2>10. Cardinality(N) <= Cardinality(Newer(m) \cup {m})
    BY <2>6, <2>9, FS_Subset
  <2>11. Cardinality(N) \in Nat
    BY <1>1, FS_CardinalityType
  <2> QED BY <2>8, <2>9, <2>10, <2>11
<1> QED BY <1>4, <1>5

StreamPcs == {"authorize", "subscribe", "credential", "account", "role", "admit", "open"}

StreamRows ==
  [pc : {"idle", "ended"}]
    \cup [pc : StreamPcs, credential : Sessions \cup Tokens, queued : Int]

Subscribed == DOMAIN subscribers

StreamTypes ==
  /\ stream \in [Streams -> StreamRows]
  /\ Subscribed \subseteq Streams /\ IsFiniteSet(Subscribed)
  /\ subscribers \in [Subscribed -> Nat]
  /\ \A s, t \in Subscribed : subscribers[s] = subscribers[t] => s = t
  /\ stream_active \in BOOLEAN /\ role \in BOOLEAN /\ closing \in BOOLEAN

Due == closes \cup stream_unheard

RegisteredWhileOpen ==
  /\ \A s \in Subscribed : stream[s].pc \in {"credential", "account", "role", "admit", "open"}
  /\ \A s \in Streams : stream[s].pc = "open" => s \in Subscribed
  /\ closing => Subscribed = {}

ReadOrDue(s) ==
  /\ stream[s].pc # "credential" =>
       stream[s].credential \in stream_live \/ {"account", stream[s].credential} \cap Due # {}
  /\ stream[s].pc \in {"role", "admit", "open"} => stream_active \/ "account" \in Due
  /\ stream[s].pc \in {"admit", "open"} => role \/ "role" \in Due

SharesAreKept == \A c \in Sessions : Cardinality(Feeds!OpenUnder(c)) <= MaxPerScope

StreamInv ==
  /\ StreamTypes /\ RegisteredWhileOpen
  /\ \A s \in Subscribed : ReadOrDue(s)
  /\ SharesAreKept

\* The shape of a stream, field by field.
LEMMA StreamFields ==
  ASSUME StreamTypes, NEW s \in Streams
  PROVE  /\ stream[s] \in StreamRows
         /\ stream[s].pc \in StreamPcs =>
              stream[s] \in [pc : StreamPcs, credential : Sessions \cup Tokens, queued : Int]
BY DEF StreamTypes, StreamRows, StreamPcs

\* A stream goes on with the credential it came with.
LEMMA StreamGoesOn ==
  ASSUME StreamTypes, NEW s \in Streams, stream[s].pc \in StreamPcs,
         NEW pc \in StreamPcs \cup {"ended"}, Feeds!At(s, pc)
  PROVE  /\ stream' \in [Streams -> StreamRows] /\ stream'[s].pc = pc
         /\ pc # "ended" => stream'[s].credential = stream[s].credential
         /\ \A t \in Streams \ {s} : stream'[t] = stream[t]
<1>1. stream[s] \in [pc : StreamPcs, credential : Sessions \cup Tokens, queued : Int]
  BY StreamFields
<1>2. CASE pc = "ended"
  <2>1. stream' = [stream EXCEPT ![s] = Feeds!Over]
    BY <1>2 DEF Feeds!At
  <2>2. Feeds!Over \in StreamRows /\ Feeds!Over.pc = "ended"
    BY DEF Feeds!Over, StreamRows
  <2> QED BY <1>2, <2>1, <2>2 DEF StreamTypes
<1>3. CASE pc # "ended"
  <2> DEFINE next == [stream[s] EXCEPT !.pc = pc]
  <2>1. /\ next \in [pc : StreamPcs, credential : Sessions \cup Tokens, queued : Int]
        /\ next.pc = pc /\ next.credential = stream[s].credential
    BY <1>1, <1>3
  <2>2. stream' = [stream EXCEPT ![s] = next]
    BY <1>3 DEF Feeds!At
  <2> HIDE DEF next
  <2>3. next \in StreamRows
    BY <2>1 DEF StreamRows
  <2> QED BY <2>1, <2>2, <2>3 DEF StreamTypes
<1> QED BY <1>2, <1>3

\* What is due to a stream stays due while it is registered, and what it loses is due.
LEMMA DueStands ==
  ASSUME NEW s \in Streams, ReadOrDue(s),
         stream'[s].pc = stream[s].pc, stream'[s].credential = stream[s].credential,
         stream[s].credential \in stream_live \ stream_live' =>
           {"account", stream[s].credential} \cap Due' # {},
         stream_active => stream_active' \/ "account" \in Due',
         role => role' \/ "role" \in Due',
         Due \cap {"account", stream[s].credential} \subseteq Due',
         "role" \in Due => role' \/ "role" \in Due'
  PROVE  ReadOrDue(s)'
BY DEF ReadOrDue

\* Streams leave, others go on, and none opens.
LEMMA StreamsLeave ==
  ASSUME StreamInv, NEW gone, subscribers' = Feeds!Without(gone),
         stream' \in [Streams -> StreamRows],
         stream_active' \in BOOLEAN, role' \in BOOLEAN, closing' \in BOOLEAN,
         closing' => closing \/ Subscribed \subseteq gone,
         \A t \in Subscribed \ gone :
           stream'[t].pc \in {"credential", "account", "role", "admit", "open"},
         \A t \in Subscribed \ gone : ReadOrDue(t)',
         \A t \in Streams : stream'[t].pc = "open" =>
           /\ t \notin gone /\ stream[t].pc = "open"
           /\ stream'[t].credential = stream[t].credential
  PROVE  StreamInv'
<1>1. /\ Subscribed' = Subscribed \ gone
      /\ \A t \in Subscribed' : subscribers'[t] = subscribers[t]
      /\ subscribers' \in [Subscribed' -> Nat]
  BY DEF Feeds!Without, Subscribed, StreamInv, StreamTypes
<1>2. IsFiniteSet(Subscribed)
  BY DEF StreamInv, StreamTypes
<1>3. IsFiniteSet(Subscribed')
  BY <1>1, <1>2, FS_Subset
<1>4. StreamTypes'
  BY <1>1, <1>3 DEF StreamInv, StreamTypes
<1>5. RegisteredWhileOpen'
  BY <1>1 DEF StreamInv, RegisteredWhileOpen
<1>6. ASSUME NEW c \in Sessions PROVE Cardinality(Feeds!OpenUnder(c))' <= MaxPerScope
  <2>1. Feeds!OpenUnder(c)' \subseteq Feeds!OpenUnder(c)
    BY <1>1 DEF Feeds!OpenUnder, Feeds!IsOpen, Subscribed, StreamInv, StreamTypes
  <2>2. Feeds!OpenUnder(c) \subseteq Subscribed
    BY DEF Feeds!OpenUnder, Subscribed
  <2>3. /\ IsFiniteSet(Feeds!OpenUnder(c)) /\ Cardinality(Feeds!OpenUnder(c)) \in Nat
        /\ IsFiniteSet(Feeds!OpenUnder(c)') /\ Cardinality(Feeds!OpenUnder(c)') \in Nat
        /\ Cardinality(Feeds!OpenUnder(c)') <= Cardinality(Feeds!OpenUnder(c))
    BY <1>2, <2>1, <2>2, FS_Subset, FS_CardinalityType
  <2>4. Cardinality(Feeds!OpenUnder(c)) <= MaxPerScope
    BY DEF StreamInv, SharesAreKept
  <2> QED BY <2>3, <2>4, StreamsAssumption
<1> QED BY <1>1, <1>4, <1>5, <1>6 DEF StreamInv, SharesAreKept

\* A close, an end, the shutdown or an overflow: what leaves and is open is over.
LEMMA EndedStreams ==
  ASSUME StreamInv, NEW gone, Feeds!Ended(gone)
  PROVE  /\ subscribers' = Feeds!Without(gone)
         /\ stream' \in [Streams -> StreamRows]
         /\ \A t \in Streams : t \notin gone => stream'[t] = stream[t]
         /\ \A t \in Streams : stream'[t].pc = "open" => t \notin gone /\ stream[t].pc = "open"
<1>1. Feeds!Over \in StreamRows /\ Feeds!Over.pc = "ended"
  BY DEF Feeds!Over, StreamRows
<1>2. stream' = [t \in Streams |-> IF t \in gone /\ stream[t].pc = "open" THEN Feeds!Over ELSE stream[t]]
  BY DEF Feeds!Ended, Feeds!IsOpen
<1>3. \A t \in Streams : stream[t] \in StreamRows
  BY DEF StreamInv, StreamTypes
<1> QED BY <1>1, <1>2, <1>3 DEF Feeds!Ended

\* Streams that end, with their authority as it was.
LEMMA EndingKeeps ==
  ASSUME StreamInv, NEW gone, Feeds!Ended(gone),
         UNCHANGED <<stream_live, stream_active, role>>, closing' \in BOOLEAN,
         closing' => closing \/ Subscribed \subseteq gone,
         \A t \in Subscribed \ gone :
           Due \cap {"account", "role", stream[t].credential} \subseteq Due'
  PROVE  StreamInv'
<1>1. /\ subscribers' = Feeds!Without(gone)
      /\ stream' \in [Streams -> StreamRows]
      /\ \A t \in Streams : t \notin gone => stream'[t] = stream[t]
      /\ \A t \in Streams : stream'[t].pc = "open" => t \notin gone /\ stream[t].pc = "open"
  BY EndedStreams
<1>2. Subscribed \subseteq Streams /\ stream_active' \in BOOLEAN /\ role' \in BOOLEAN
  BY DEF StreamInv, StreamTypes
<1>3. \A t \in Subscribed \ gone :
        stream'[t].pc \in {"credential", "account", "role", "admit", "open"}
  BY <1>1, <1>2 DEF StreamInv, RegisteredWhileOpen
<1>4. ASSUME NEW t \in Subscribed \ gone PROVE ReadOrDue(t)'
  <2>1. stream'[t] = stream[t] /\ ReadOrDue(t) /\ t \in Streams
    BY <1>1, <1>2 DEF StreamInv
  <2>2. Due \cap {"account", "role", stream[t].credential} \subseteq Due'
    OBVIOUS
  <2> QED BY <2>1, <2>2, DueStands
<1>5. \A t \in Streams : stream'[t].pc = "open" =>
        /\ t \notin gone /\ stream[t].pc = "open"
        /\ stream'[t].credential = stream[t].credential
  BY <1>1
<1> QED BY <1>1, <1>2, <1>3, <1>4, <1>5, StreamsLeave

\* Authority goes or comes back; the streams stay as they are.
LEMMA AuthorityMoves ==
  ASSUME StreamInv, UNCHANGED <<stream, subscribers, closing>>,
         stream_active' \in BOOLEAN, role' \in BOOLEAN,
         \A t \in Subscribed : ReadOrDue(t)'
  PROVE  StreamInv'
<1>1. subscribers' = Feeds!Without({})
  BY DEF Feeds!Without, StreamInv, StreamTypes, Subscribed
<1>2. /\ stream' \in [Streams -> StreamRows] /\ closing' \in BOOLEAN
      /\ \A t \in Subscribed \ {} :
           stream'[t].pc \in {"credential", "account", "role", "admit", "open"}
  BY DEF StreamInv, StreamTypes, RegisteredWhileOpen
<1> QED BY <1>1, <1>2, StreamsLeave

\* A commit that takes authority away makes a close due that names who had it.
LEMMA AuthorityIsLost ==
  ASSUME StreamInv, UNCHANGED <<stream, subscribers, closing>>,
         stream_active' \in BOOLEAN, role' \in BOOLEAN, NEW target, Due' = Due \cup {target},
         \A t \in Subscribed : stream[t].credential \in stream_live \ stream_live' =>
           target \in {"account", stream[t].credential},
         stream_active => stream_active' \/ target = "account",
         role => role' \/ target = "role"
  PROVE  StreamInv'
<1>1. ASSUME NEW t \in Subscribed PROVE ReadOrDue(t)'
  <2>1. ReadOrDue(t) /\ t \in Streams
    BY DEF StreamInv, StreamTypes
  <2> QED BY <2>1, DueStands
<1> QED BY <1>1, AuthorityMoves

\* The revocations, the deletion, the grant and an expiry, one by one.
LEMMA LossesAreDue ==
  ASSUME StreamInv,
         \/ \E c \in Feeds!Credentials : Feeds!Revoke(c)
         \/ Feeds!RevokeAll(Sessions) \/ Feeds!RevokeAll(Tokens)
         \/ Feeds!DeleteAccount \/ Feeds!RevokeRole \/ Feeds!GrantRole
         \/ \E c \in Sessions : Feeds!Expire(c)
  PROVE  StreamInv'
<1>0. stream_active \in BOOLEAN /\ role \in BOOLEAN
  BY DEF StreamInv, StreamTypes
<1>1. ASSUME NEW target, Feeds!Commits(target)
      PROVE  Due' = Due \cup {target} /\ UNCHANGED <<stream, subscribers, closing>>
  BY <1>1 DEF Feeds!Commits, Due
<1>2. ASSUME NEW c, Feeds!Revoke(c) PROVE StreamInv'
  <2>1. /\ Feeds!Commits(c) /\ stream_live' = stream_live \ {c}
        /\ UNCHANGED <<stream_active, role>>
    BY <1>2 DEF Feeds!Revoke
  <2> QED BY <1>0, <1>1, <2>1, AuthorityIsLost
<1>3. ASSUME NEW kind, Feeds!RevokeAll(kind) PROVE StreamInv'
  <2>1. Feeds!Commits("account") /\ UNCHANGED <<stream_active, role>>
    BY <1>3 DEF Feeds!RevokeAll
  <2> QED BY <1>0, <1>1, <2>1, AuthorityIsLost
<1>4. CASE Feeds!DeleteAccount
  <2>1. Feeds!Commits("account") /\ stream_active' = FALSE /\ role' = role
    BY <1>4 DEF Feeds!DeleteAccount
  <2> QED BY <1>0, <1>1, <2>1, AuthorityIsLost
<1>5. CASE Feeds!RevokeRole
  <2>1. Feeds!Commits("role") /\ role' = FALSE /\ UNCHANGED <<stream_live, stream_active>>
    BY <1>5 DEF Feeds!RevokeRole
  <2> QED BY <1>0, <1>1, <2>1, AuthorityIsLost
<1>6. CASE Feeds!GrantRole
  <2>1. /\ role' = TRUE /\ Due \ {"role"} \subseteq Due'
        /\ UNCHANGED <<stream_live, stream_active, stream, subscribers, closing>>
    BY <1>6 DEF Feeds!GrantRole, Due
  <2>2. ASSUME NEW t \in Subscribed PROVE ReadOrDue(t)'
    <3>1. ReadOrDue(t) /\ t \in Streams /\ stream[t].pc \in StreamPcs
      BY DEF StreamInv, StreamTypes, RegisteredWhileOpen, StreamPcs
    <3>2. stream[t].credential # "role"
      BY <3>1, StreamFields, StreamsAssumption DEF StreamInv
    <3> QED BY <2>1, <3>1, <3>2, DueStands
  <2> QED BY <1>0, <2>1, <2>2, AuthorityMoves
<1>7. ASSUME NEW c \in Sessions, Feeds!Expire(c) PROVE StreamInv'
  <2>1. UNCHANGED <<stream_live, stream_active, role, closes, stream_unheard, stream,
                    subscribers, closing>>
    BY <1>7 DEF Feeds!Expire
  <2>2. ASSUME NEW t \in Subscribed PROVE ReadOrDue(t)'
    BY <2>1 DEF StreamInv, ReadOrDue, Due
  <2> QED BY <1>0, <2>1, <2>2, AuthorityMoves
<1> QED BY <1>2, <1>3, <1>4, <1>5, <1>6, <1>7

\* A close reaches every registration that it names, whatever its stage.
LEMMA ClosesReachAll ==
  ASSUME StreamInv,
         \/ \E target \in closes : Feeds!Close(target)
         \/ Feeds!CloseAll
         \/ \E s \in Streams : Feeds!DeadlineFires(s) \/ Feeds!Disconnect(s)
  PROVE  StreamInv'
<1>0. closing \in BOOLEAN
  BY DEF StreamInv, StreamTypes
<1>1. ASSUME NEW target, Feeds!Close(target) PROVE StreamInv'
  <2>1. /\ Feeds!Ended(Feeds!Named(target)) /\ closes' = closes \ {target}
        /\ UNCHANGED <<stream_live, stream_active, role, stream_unheard, closing>>
    BY <1>1 DEF Feeds!Close, Feeds!authority
  <2>2. ASSUME NEW t \in Subscribed \ Feeds!Named(target)
        PROVE  Due \cap {"account", "role", stream[t].credential} \subseteq Due'
    BY <2>1 DEF Feeds!Named, Subscribed, Due
  <2> QED BY <1>0, <2>1, <2>2, EndingKeeps
<1>2. CASE Feeds!CloseAll
  <2>1. /\ Feeds!Ended(Subscribed) /\ closing' = TRUE
        /\ UNCHANGED <<stream_live, stream_active, role>>
    BY <1>2 DEF Feeds!CloseAll, Feeds!authority, Subscribed
  <2> QED BY <2>1, EndingKeeps
<1>3. ASSUME NEW s \in Streams, Feeds!DeadlineFires(s) \/ Feeds!Disconnect(s) PROVE StreamInv'
  <2>1. /\ Feeds!Ended({s}) /\ Due' = Due
        /\ UNCHANGED <<stream_live, stream_active, role, closing>>
    BY <1>3 DEF Feeds!DeadlineFires, Feeds!Disconnect, Feeds!authority, Due
  <2> QED BY <1>0, <2>1, EndingKeeps
<1> QED BY <1>1, <1>2, <1>3

\* A frame goes out to streams that are open, or ends those that do not read.
LEMMA FramesGoOut ==
  ASSUME StreamInv,
         \/ Feeds!Broadcast
         \/ \E s \in Streams : Feeds!KeepAlive(s) \/ Feeds!FrameWritten(s)
  PROVE  StreamInv'
<1>0. /\ closing \in BOOLEAN /\ stream_active \in BOOLEAN /\ role \in BOOLEAN
      /\ Subscribed \subseteq Streams
  BY DEF StreamInv, StreamTypes
<1>1. ASSUME NEW gone \in SUBSET {t \in Streams : stream[t].pc = "open"},
             subscribers' = Feeds!Without(gone),
             UNCHANGED <<stream_live, stream_active, role, closes, stream_unheard, closing>>,
             stream' \in [Streams -> StreamRows],
             \A t \in Streams : IF t \in gone THEN stream'[t].pc = "ended"
                                ELSE /\ stream'[t].pc = stream[t].pc
                                     /\ stream[t].pc = "open" \/ t \in Subscribed =>
                                          stream'[t].credential = stream[t].credential
      PROVE  StreamInv'
  <2>1. ASSUME NEW t \in Subscribed \ gone PROVE ReadOrDue(t)'
    <3>1. t \in Streams /\ ReadOrDue(t)
      BY <1>0 DEF StreamInv
    <3> QED BY <1>1, <3>1 DEF ReadOrDue, Due
  <2>2. \A t \in Subscribed \ gone :
          stream'[t].pc \in {"credential", "account", "role", "admit", "open"}
    BY <1>0, <1>1 DEF StreamInv, RegisteredWhileOpen
  <2> QED BY <1>0, <1>1, <2>1, <2>2, StreamsLeave
<1>2. /\ Feeds!Over \in StreamRows /\ Feeds!Over.pc = "ended"
  BY DEF Feeds!Over, StreamRows
<1>3. ASSUME NEW t \in Streams, stream[t].pc = "open"
      PROVE  LET next == [stream[t] EXCEPT !.queued = @ + 1]
             IN  next \in StreamRows /\ next.pc = "open" /\ next.credential = stream[t].credential
  <2>1. stream[t] \in [pc : StreamPcs, credential : Sessions \cup Tokens, queued : Int]
    BY <1>3, StreamFields DEF StreamInv, StreamPcs
  <2>2. [stream[t] EXCEPT !.queued = @ + 1] \in
          [pc : StreamPcs, credential : Sessions \cup Tokens, queued : Int]
    BY <2>1
  <2> QED BY <1>3, <2>1, <2>2 DEF StreamRows
<1>4. ASSUME NEW to \in SUBSET {t \in Streams : stream[t].pc = "open"}, Feeds!Send(to)
      PROVE  StreamInv'
  <2>1. PICK full \in SUBSET to :
           /\ subscribers' = Feeds!Without(full)
           /\ stream' = [s \in Streams |->
                IF s \in full THEN Feeds!Over
                ELSE IF s \in to THEN [stream[s] EXCEPT !.queued = @ + 1] ELSE stream[s]]
           /\ UNCHANGED <<stream_live, stream_active, role, closes, stream_unheard, closing>>
    BY <1>4 DEF Feeds!Send, Feeds!authority
  <2>2. ASSUME NEW t \in Streams
        PROVE  /\ stream'[t] \in StreamRows
               /\ IF t \in full THEN stream'[t].pc = "ended"
                  ELSE stream'[t].pc = stream[t].pc
                       /\ stream'[t].credential = stream[t].credential
    <3>1. CASE t \in full
      BY <1>2, <2>1, <3>1
    <3>2. CASE t \in to \ full
      BY <1>3, <2>1, <3>2
    <3>3. CASE t \notin to
      <4>1. stream[t] \in StreamRows
        BY StreamFields DEF StreamInv
      <4> QED BY <2>1, <3>3, <4>1
    <3> QED BY <3>1, <3>2, <3>3
  <2>3. stream' \in [Streams -> StreamRows]
    BY <2>1, <2>2
  <2> QED BY <1>1, <2>1, <2>2, <2>3
<1>5. CASE Feeds!Broadcast
  BY <1>4, <1>5 DEF Feeds!Broadcast, Feeds!IsOpen
<1>6. ASSUME NEW s \in Streams, Feeds!KeepAlive(s) PROVE StreamInv'
  BY <1>4, <1>6 DEF Feeds!KeepAlive, Feeds!IsOpen
<1>7. ASSUME NEW s \in Streams, Feeds!FrameWritten(s) PROVE StreamInv'
  <2>1. /\ stream[s].pc = "open" /\ stream' = [stream EXCEPT ![s].queued = @ - 1]
        /\ UNCHANGED <<stream_live, stream_active, role, closes, stream_unheard, closing,
                        subscribers>>
    BY <1>7 DEF Feeds!FrameWritten, Feeds!IsOpen, Feeds!authority
  <2> DEFINE next == [stream[s] EXCEPT !.queued = @ - 1]
  <2>2. next \in StreamRows /\ next.pc = "open" /\ next.credential = stream[s].credential
    <3>1. stream[s] \in [pc : StreamPcs, credential : Sessions \cup Tokens, queued : Int]
      BY <2>1, StreamFields DEF StreamInv, StreamPcs
    <3>2. next \in [pc : StreamPcs, credential : Sessions \cup Tokens, queued : Int]
      BY <3>1
    <3> QED BY <2>1, <3>1, <3>2 DEF StreamRows
  <2>3. stream' = [stream EXCEPT ![s] = next]
    BY <2>1
  <2> HIDE DEF next
  <2>4. /\ stream' \in [Streams -> StreamRows]
        /\ \A t \in Streams : stream'[t].pc = stream[t].pc
                              /\ stream'[t].credential = stream[t].credential
    BY <2>1, <2>2, <2>3 DEF StreamInv, StreamTypes
  <2>5. subscribers' = Feeds!Without({})
    BY <2>1 DEF Feeds!Without, StreamInv, StreamTypes, Subscribed
  <2> QED BY <1>1, <2>1, <2>4, <2>5
<1> QED BY <1>5, <1>6, <1>7

\* An opening that goes on, or ends and takes its registration away.
LEMMA OpeningMoves ==
  ASSUME StreamInv, NEW s \in Streams, stream[s].pc \in StreamPcs, stream[s].pc # "open",
         NEW pc \in (StreamPcs \ {"open"}) \cup {"ended"}, Feeds!At(s, pc),
         UNCHANGED <<stream_live, stream_active, role, closes, stream_unheard, closing>>,
         NEW gone \in {{}, {s}}, subscribers' = Feeds!Without(gone),
         s \in Subscribed \ gone =>
           pc \in {"credential", "account", "role", "admit"} /\ ReadOrDue(s)'
  PROVE  StreamInv'
<1>1. /\ stream' \in [Streams -> StreamRows] /\ stream'[s].pc = pc
      /\ pc # "ended" => stream'[s].credential = stream[s].credential
      /\ \A t \in Streams \ {s} : stream'[t] = stream[t]
  <2>1. StreamTypes /\ pc \in StreamPcs \cup {"ended"}
    BY DEF StreamInv
  <2> QED BY <2>1, StreamGoesOn
<1>2. /\ closing' \in BOOLEAN /\ stream_active' \in BOOLEAN /\ role' \in BOOLEAN
      /\ Subscribed \subseteq Streams
  BY DEF StreamInv, StreamTypes
<1>3. \A t \in Subscribed \ gone :
        stream'[t].pc \in {"credential", "account", "role", "admit", "open"}
  BY <1>1, <1>2 DEF StreamInv, RegisteredWhileOpen
<1>4. ASSUME NEW t \in Subscribed \ gone PROVE ReadOrDue(t)'
  <2>1. CASE t = s
    BY <2>1
  <2>2. CASE t # s
    <3>1. stream'[t] = stream[t] /\ ReadOrDue(t)
      BY <1>1, <1>2, <2>2 DEF StreamInv
    <3> QED BY <3>1 DEF ReadOrDue, Due
  <2> QED BY <2>1, <2>2
<1>5. \A t \in Streams : stream'[t].pc = "open" =>
        /\ t \notin gone /\ stream[t].pc = "open"
        /\ stream'[t].credential = stream[t].credential
  BY <1>1
<1> QED BY <1>1, <1>2, <1>3, <1>4, <1>5, StreamsLeave

\* The gates and the reads of an opening.
LEMMA OpeningsGoOn ==
  ASSUME StreamInv, NEW s \in Streams,
         \/ \E c \in Feeds!Credentials : Feeds!Authenticate(s, c)
         \/ Feeds!Authorize(s) \/ Feeds!RecheckCredential(s) \/ Feeds!RecheckAccount(s)
         \/ Feeds!RecheckRole(s) \/ Feeds!RecheckFails(s)
  PROVE  StreamInv'
<1>0. subscribers = Feeds!Without({})
  BY DEF Feeds!Without, StreamInv, StreamTypes, Subscribed
<1>1. ASSUME NEW c \in Feeds!Credentials, Feeds!Authenticate(s, c) PROVE StreamInv'
  <2> DEFINE new == [pc |-> "authorize", credential |-> c, queued |-> 0]
  <2>1. /\ stream[s].pc = "idle" /\ stream' = [stream EXCEPT ![s] = new]
        /\ UNCHANGED <<stream_live, stream_active, role, closes, stream_unheard, closing,
                        subscribers>>
    BY <1>1 DEF Feeds!Authenticate, Feeds!authority
  <2>2. new \in StreamRows /\ new.pc = "authorize"
    BY DEF StreamRows, StreamPcs, Feeds!Credentials
  <2>3. s \notin Subscribed /\ Subscribed \subseteq Streams
    BY <2>1 DEF StreamInv, StreamTypes, RegisteredWhileOpen
  <2> HIDE DEF new
  <2>4. /\ stream' \in [Streams -> StreamRows]
        /\ stream'[s].pc = "authorize" /\ \A t \in Streams \ {s} : stream'[t] = stream[t]
    BY <2>1, <2>2 DEF StreamInv, StreamTypes
  <2>5. ASSUME NEW t \in Subscribed PROVE ReadOrDue(t)'
    <3>1. stream'[t] = stream[t] /\ ReadOrDue(t)
      BY <2>3, <2>4 DEF StreamInv
    <3> QED BY <2>1, <3>1 DEF ReadOrDue, Due
  <2>6. \A t \in Subscribed \ {} :
          stream'[t].pc \in {"credential", "account", "role", "admit", "open"}
    BY <2>3, <2>4 DEF StreamInv, RegisteredWhileOpen
  <2>7. closing' \in BOOLEAN /\ stream_active' \in BOOLEAN /\ role' \in BOOLEAN
    BY <2>1 DEF StreamInv, StreamTypes
  <2>8. subscribers' = Feeds!Without({})
    BY <1>0, <2>1
  <2> QED BY <2>1, <2>4, <2>5, <2>6, <2>7, <2>8, StreamsLeave
<1>2. CASE Feeds!Authorize(s)
  <2>1. PICK pc \in {"subscribe", "ended"} :
          /\ stream[s].pc = "authorize" /\ Feeds!At(s, pc)
          /\ UNCHANGED <<stream_live, stream_active, role, closes, stream_unheard, closing,
                         subscribers>>
    BY <1>2 DEF Feeds!Authorize, Feeds!authority
  <2>2. s \notin Subscribed
    BY <2>1 DEF StreamInv, RegisteredWhileOpen
  <2>3. /\ pc \in (StreamPcs \ {"open"}) \cup {"ended"} /\ stream[s].pc \in StreamPcs
        /\ subscribers' = Feeds!Without({})
    BY <1>0, <2>1 DEF StreamPcs
  <2> QED BY <2>1, <2>2, <2>3, OpeningMoves
<1>3. ASSUME NEW here \in {"credential", "account", "role"}, NEW holds \in BOOLEAN,
             NEW next \in {"account", "role", "admit"}, Feeds!Recheck(s, here, holds, next),
             s \in Subscribed /\ holds /\ stream'[s].pc = next
               /\ stream'[s].credential = stream[s].credential => ReadOrDue(s)'
      PROVE  StreamInv'
  <2>1. /\ stream[s].pc = here
        /\ UNCHANGED <<stream_live, stream_active, role, closes, stream_unheard, closing>>
        /\ stream[s].pc \in StreamPcs /\ stream[s].pc # "open"
    BY <1>3 DEF Feeds!Recheck, Feeds!authority, StreamPcs
  <2>2. CASE holds
    <3>1. Feeds!At(s, next) /\ subscribers' = Feeds!Without({})
      BY <1>0, <1>3, <2>2 DEF Feeds!Recheck
    <3>2. next \in StreamPcs \cup {"ended"} /\ next # "ended" /\ StreamTypes
          /\ next \in (StreamPcs \ {"open"}) \cup {"ended"}
      BY DEF StreamPcs, StreamInv
    <3>3. stream'[s].pc = next /\ stream'[s].credential = stream[s].credential
      BY <2>1, <3>1, <3>2, StreamGoesOn
    <3>4. s \in Subscribed \ {} => next \in {"credential", "account", "role", "admit"} /\ ReadOrDue(s)'
      BY <1>3, <2>2, <3>3
    <3> QED BY <2>1, <3>1, <3>2, <3>4, OpeningMoves
  <2>3. CASE ~holds
    <3>1. Feeds!At(s, "ended") /\ subscribers' = Feeds!Without({s})
      BY <1>3, <2>3 DEF Feeds!Recheck
    <3> QED BY <2>1, <3>1, OpeningMoves
  <2> QED BY <2>2, <2>3
<1>4. CASE Feeds!RecheckCredential(s)
  <2> DEFINE holds == stream[s].credential \in stream_live \ stream_expired
  <2>1. Feeds!Recheck(s, "credential", holds, "account") /\ stream_live' = stream_live
    BY <1>4 DEF Feeds!RecheckCredential, Feeds!Recheck, Feeds!authority
  <2>2. stream'[s].pc = "account" /\ stream'[s].credential = stream[s].credential /\ holds
          => ReadOrDue(s)'
    BY <2>1 DEF ReadOrDue
  <2>3. holds \in BOOLEAN
    OBVIOUS
  <2> HIDE DEF holds
  <2> QED BY <1>3, <2>1, <2>2, <2>3
<1>5. CASE Feeds!RecheckAccount(s)
  <2>1. /\ Feeds!Recheck(s, "account", stream_active, "role") /\ stream[s].pc = "account"
        /\ UNCHANGED <<stream_live, stream_active, closes, stream_unheard>>
    BY <1>5 DEF Feeds!RecheckAccount, Feeds!Recheck, Feeds!authority
  <2>3. stream_active \in BOOLEAN
    BY DEF StreamInv, StreamTypes
  <2>2. ASSUME s \in Subscribed, stream'[s].pc = "role",
               stream'[s].credential = stream[s].credential, stream_active
        PROVE  ReadOrDue(s)'
    <3>1. ReadOrDue(s) /\ stream_active = TRUE
      BY <2>2, <2>3 DEF StreamInv
    <3> QED BY <2>1, <2>2, <3>1 DEF ReadOrDue, Due
  <2> QED BY <1>3, <2>1, <2>2, <2>3
<1>6. CASE Feeds!RecheckRole(s)
  <2>1. /\ Feeds!Recheck(s, "role", role, "admit") /\ stream[s].pc = "role"
        /\ UNCHANGED <<stream_live, stream_active, role, closes, stream_unheard>>
    BY <1>6 DEF Feeds!RecheckRole, Feeds!Recheck, Feeds!authority
  <2>3. role \in BOOLEAN
    BY DEF StreamInv, StreamTypes
  <2>2. ASSUME s \in Subscribed, stream'[s].pc = "admit",
               stream'[s].credential = stream[s].credential, role
        PROVE  ReadOrDue(s)'
    <3>1. ReadOrDue(s) /\ role = TRUE
      BY <2>2, <2>3 DEF StreamInv
    <3> QED BY <2>1, <2>2, <3>1 DEF ReadOrDue, Due
  <2> QED BY <1>3, <2>1, <2>2, <2>3
<1>7. CASE Feeds!RecheckFails(s)
  <2>1. PICK pc \in {"admit", "ended"} :
          /\ stream[s].pc \in {"credential", "account", "role"} /\ Feeds!At(s, pc)
          /\ subscribers' = Feeds!Without({s})
          /\ UNCHANGED <<stream_live, stream_active, role, closes, stream_unheard, closing>>
    BY <1>7 DEF Feeds!RecheckFails, Feeds!authority
  <2>2. /\ pc \in (StreamPcs \ {"open"}) \cup {"ended"} /\ stream[s].pc \in StreamPcs
        /\ stream[s].pc # "open"
    BY <2>1 DEF StreamPcs
  <2> QED BY <2>1, <2>2, OpeningMoves
<1> QED BY <1>1, <1>2, <1>4, <1>5, <1>6, <1>7

\* A registration is the newest, and one that comes after the shutdown is none.
LEMMA StreamsRegister ==
  ASSUME StreamInv, NEW s \in Streams, Feeds!SubscribePending(s)
  PROVE  StreamInv'
<1>1. /\ stream[s].pc = "subscribe" /\ s \notin Subscribed /\ StreamTypes
      /\ UNCHANGED <<stream_live, stream_active, role, closes, stream_unheard, closing>>
      /\ stream[s].pc \in StreamPcs
  BY DEF Feeds!SubscribePending, Feeds!authority, StreamInv, RegisteredWhileOpen, StreamPcs
<1>2. CASE closing
  <2>1. Feeds!At(s, "admit") /\ subscribers' = Feeds!Without({})
    BY <1>2 DEF Feeds!SubscribePending, Feeds!Without, StreamInv, StreamTypes, Subscribed
  <2>2. "admit" \in (StreamPcs \ {"open"}) \cup {"ended"} /\ stream[s].pc # "open"
    BY <1>1 DEF StreamPcs
  <2> QED BY <1>1, <2>1, <2>2, OpeningMoves
<1>3. CASE ~closing
  <2>1. /\ Feeds!At(s, "credential")
        /\ subscribers' = [t \in Subscribed \cup {s} |->
                            IF t = s THEN 0 ELSE subscribers[t] + 1]
    BY <1>3 DEF Feeds!SubscribePending, Subscribed
  <2>2. /\ stream' \in [Streams -> StreamRows] /\ stream'[s].pc = "credential"
        /\ \A t \in Streams \ {s} : stream'[t] = stream[t]
    <3>1. "credential" \in StreamPcs \cup {"ended"}
      BY DEF StreamPcs
    <3> QED BY <1>1, <2>1, <3>1, StreamGoesOn
  <2>3. Subscribed' = Subscribed \cup {s} /\ Subscribed \subseteq Streams
    BY <2>1 DEF Subscribed, StreamInv, StreamTypes
  <2>4. StreamTypes'
    <3>1. IsFiniteSet(Subscribed')
      BY <2>3, FS_AddElement DEF StreamInv, StreamTypes
    <3>2. subscribers' \in [Subscribed' -> Nat]
      BY <2>1, <2>3 DEF StreamInv, StreamTypes
    <3>3. \A t, u \in Subscribed' : subscribers'[t] = subscribers'[u] => t = u
      <4>1. \A t \in Subscribed : subscribers[t] \in Nat
        BY DEF StreamInv, StreamTypes
      <4>2. \A t, u \in Subscribed : subscribers[t] = subscribers[u] => t = u
        BY DEF StreamInv, StreamTypes
      <4> QED BY <1>1, <2>1, <2>3, <4>1, <4>2
    <3> QED BY <1>1, <2>2, <2>3, <3>1, <3>2, <3>3 DEF StreamInv, StreamTypes
  <2>5. RegisteredWhileOpen'
    BY <1>1, <1>3, <2>2, <2>3 DEF StreamInv, RegisteredWhileOpen
  <2>6. ASSUME NEW t \in Subscribed' PROVE ReadOrDue(t)'
    <3>1. CASE t = s
      BY <2>2, <3>1 DEF ReadOrDue
    <3>2. CASE t # s
      <4>1. stream'[t] = stream[t] /\ ReadOrDue(t)
        BY <2>2, <2>3, <3>2 DEF StreamInv
      <4> QED BY <1>1, <4>1 DEF ReadOrDue, Due
    <3> QED BY <3>1, <3>2
  <2>7. \A c \in Sessions : Feeds!OpenUnder(c)' = Feeds!OpenUnder(c)
    BY <1>1, <2>2, <2>3 DEF Feeds!OpenUnder, Feeds!IsOpen, Subscribed
  <2> QED BY <2>4, <2>5, <2>6, <2>7 DEF StreamInv, SharesAreKept
<1> QED BY <1>2, <1>3

\* The streams' instance brings a Cardinality of its own.
LEMMA StreamCardinality == \A S : Feeds!Cardinality(S) = Cardinality(S)
  BY DEF Feeds!Cardinality, Cardinality

\* An admission makes room for itself among the streams of its session.
LEMMA EvictionMakesRoom ==
  ASSUME StreamInv, NEW s \in Subscribed, stream[s].credential \in Sessions
  PROVE  Cardinality(Feeds!OpenUnder(stream[s].credential) \ Feeds!Evicted(s)) <= MaxPerScope - 1
<1> DEFINE same == Feeds!OpenUnder(stream[s].credential)
           since == [t \in same |-> subscribers[t]]
           Newer(t) == {u \in same : subscribers[u] < subscribers[t]}
           n == MaxPerScope - 1
<1>1. same \subseteq Subscribed
  BY DEF Feeds!OpenUnder, Subscribed
<1>2. IsFiniteSet(same)
  BY <1>1, FS_Subset DEF StreamInv, StreamTypes
<1>3. \A t \in same : Cardinality(Newer(t)) \in Nat
  BY <1>2, FS_Subset, FS_CardinalityType
<1>4. Feeds!Evicted(s) = {t \in same : Cardinality(Newer(t)) >= n}
  BY StreamCardinality DEF Feeds!Evicted
<1>5. n \in Nat
  BY StreamsAssumption
<1>6. same \ Feeds!Evicted(s) = {t \in same : Cardinality(Newer(t)) < n}
  <2> HIDE DEF same, Newer, n
  <2> QED BY <1>3, <1>4, <1>5
<1>7. since \in [same -> Nat] /\ \A t, u \in same : since[t] = since[u] => t = u
  <2> HIDE DEF same
  <2> QED BY <1>1 DEF StreamInv, StreamTypes
<1>8. \A t \in same : Newer(t) = {u \in same : since[u] < since[t]}
  <2> HIDE DEF same
  <2> QED OBVIOUS
<1>9. Cardinality({t \in same : Cardinality({u \in same : since[u] < since[t]}) < n}) <= n
  <2> HIDE DEF same, since, n
  <2> QED BY <1>2, <1>5, <1>7, FewAreRecent
<1>10. {t \in same : Cardinality(Newer(t)) < n} =
         {t \in same : Cardinality({u \in same : since[u] < since[t]}) < n}
  <2> HIDE DEF same, since, n, Newer
  <2> QED BY <1>8
<1> QED BY <1>6, <1>9, <1>10

\* An admission opens the stream and evicts the oldest of its session; one whose
\* registration is gone opens nothing.
LEMMA StreamsAreAdmitted ==
  ASSUME StreamInv, NEW s \in Streams, Feeds!Admit(s)
  PROVE  StreamInv'
<1>1. /\ stream[s].pc = "admit" /\ stream[s].pc \in StreamPcs
      /\ UNCHANGED <<stream_live, stream_active, role, closes, stream_unheard, closing>>
      /\ StreamTypes
  BY DEF Feeds!Admit, Feeds!authority, StreamPcs, StreamInv
<1>2. CASE s \notin Subscribed
  <2>1. Feeds!At(s, "ended") /\ subscribers' = Feeds!Without({})
    BY <1>2 DEF Feeds!Admit, Feeds!Without, StreamInv, StreamTypes, Subscribed
  <2> QED BY <1>1, <1>2, <2>1, OpeningMoves
<1>3. CASE s \in Subscribed
  <2> DEFINE c == stream[s].credential
             gone == Feeds!Evicted(s)
  <2>1. /\ stream' = [t \in Streams |-> IF t = s THEN Feeds!Opened(s)
                                        ELSE IF t \in gone THEN Feeds!Over ELSE stream[t]]
        /\ subscribers' = Feeds!Without(gone)
    BY <1>3 DEF Feeds!Admit, Subscribed
  <2>2. /\ \A t \in gone : t \in Subscribed /\ stream[t].pc = "open" /\ stream[t].credential = c
        /\ s \notin gone /\ (gone # {} => c \in Sessions)
    BY <1>1 DEF Feeds!Evicted, Feeds!OpenUnder, Feeds!IsOpen, Subscribed
  <2>3. /\ Feeds!Over \in StreamRows /\ Feeds!Over.pc = "ended"
    BY DEF Feeds!Over, StreamRows
  <2>4. /\ Feeds!Opened(s) \in StreamRows /\ Feeds!Opened(s).pc = "open"
        /\ Feeds!Opened(s).credential = c
    <3>1. stream[s] \in [pc : StreamPcs, credential : Sessions \cup Tokens, queued : Int]
      BY <1>1, StreamFields
    <3> DEFINE under == [stream[s] EXCEPT !.pc = "open"]
    <3>2. /\ under \in [pc : StreamPcs, credential : Sessions \cup Tokens, queued : Int]
          /\ under.pc = "open" /\ under.credential = c
      BY <3>1 DEF StreamPcs
    <3>3. Feeds!Opened(s) = [under EXCEPT !.queued = 1]
      BY DEF Feeds!Opened
    <3> HIDE DEF under, c
    <3>4. /\ Feeds!Opened(s) \in [pc : StreamPcs, credential : Sessions \cup Tokens, queued : Int]
          /\ Feeds!Opened(s).pc = "open" /\ Feeds!Opened(s).credential = c
      BY <3>2, <3>3
    <3> QED BY <3>4 DEF StreamRows
  <2> HIDE DEF gone
  <2>5. ASSUME NEW t \in Streams
        PROVE  /\ stream'[t] \in StreamRows
               /\ t # s /\ t \notin gone => stream'[t] = stream[t]
               /\ t \in gone => stream'[t].pc = "ended"
    <3>1. stream[t] \in StreamRows
      BY <1>1 DEF StreamTypes
    <3> QED BY <2>1, <2>2, <2>3, <2>4, <3>1
  <2>6. stream'[s].pc = "open" /\ stream'[s].credential = c
    BY <2>1, <2>4
  <2>7. /\ Subscribed' = Subscribed \ gone /\ Subscribed' \subseteq Streams
        /\ \A t \in Subscribed' : subscribers'[t] = subscribers[t]
        /\ subscribers' \in [Subscribed' -> Nat]
    BY <1>1, <2>1 DEF Feeds!Without, Subscribed, StreamTypes
  <2>8. StreamTypes'
    <3>1. stream' \in [Streams -> StreamRows]
      BY <2>1, <2>5
    <3>2. IsFiniteSet(Subscribed')
      BY <1>1, <2>7, FS_Subset DEF StreamTypes
    <3> QED BY <1>1, <2>7, <3>1, <3>2 DEF StreamTypes
  <2>9. RegisteredWhileOpen'
    BY <1>1, <1>3, <2>2, <2>5, <2>6, <2>7 DEF StreamInv, RegisteredWhileOpen
  <2>10. ASSUME NEW t \in Subscribed' PROVE ReadOrDue(t)'
    <3>1. ReadOrDue(t)
      BY <2>7 DEF StreamInv
    <3>2. stream'[t].credential = stream[t].credential
          /\ (stream'[t].pc = stream[t].pc \/ stream[t].pc = "admit")
      BY <1>1, <2>5, <2>6, <2>7
    <3> QED BY <1>1, <3>1, <3>2 DEF ReadOrDue, Due
  <2>11. ASSUME NEW d \in Sessions PROVE Cardinality(Feeds!OpenUnder(d)') <= MaxPerScope
    <3> DEFINE same == Feeds!OpenUnder(d)
    <3>1. IsFiniteSet(same) /\ Cardinality(same) \in Nat
      <4>1. same \subseteq Subscribed
        BY DEF Feeds!OpenUnder, Subscribed
      <4> QED BY <1>1, <4>1, FS_Subset, FS_CardinalityType DEF StreamTypes
    <3>2. IsFiniteSet(same \ gone) /\ Cardinality(same \ gone) \in Nat
          /\ Cardinality(same \ gone) <= Cardinality(same)
      BY <3>1, FS_Subset, FS_CardinalityType
    <3>3. Cardinality(same) <= MaxPerScope /\ MaxPerScope \in Nat \ {0}
      BY StreamsAssumption DEF StreamInv, SharesAreKept
    <3>4. CASE d # c
      <4>1. Feeds!OpenUnder(d)' = same \ gone
        BY <2>5, <2>6, <2>7, <3>4 DEF Feeds!OpenUnder, Feeds!IsOpen, Subscribed
      <4>2. Cardinality(same \ gone) <= MaxPerScope
        <5> HIDE DEF same
        <5> QED BY <3>1, <3>2, <3>3
      <4> QED BY <4>1, <4>2
    <3>5. CASE d = c
      <4>1. Feeds!OpenUnder(d)' = (same \ gone) \cup {s}
        BY <1>3, <2>2, <2>5, <2>6, <2>7, <3>5 DEF Feeds!OpenUnder, Feeds!IsOpen, Subscribed
      <4>2. Cardinality(same \ gone) <= MaxPerScope - 1
        BY <1>3, <3>5, EvictionMakesRoom DEF gone
      <4> HIDE DEF same, c
      <4>3. Cardinality((same \ gone) \cup {s}) \in
              {Cardinality(same \ gone), Cardinality(same \ gone) + 1}
        BY <3>2, FS_AddElement
      <4> QED BY <3>2, <3>3, <4>1, <4>2, <4>3
    <3> QED BY <3>4, <3>5
  <2> QED BY <2>8, <2>9, <2>10, <2>11 DEF StreamInv, SharesAreKept
<1> QED BY <1>2, <1>3

\* Nothing is open at first.
LEMMA StreamsBegin == ASSUME Feeds!StreamsInit PROVE StreamInv
<1>1. /\ stream = [s \in Streams |-> [pc |-> "idle"]] /\ subscribers = <<>>
      /\ stream_active = TRUE /\ role = TRUE /\ closing = FALSE
  BY DEF Feeds!StreamsInit
<1>2. Subscribed = {}
  BY <1>1 DEF Subscribed
<1>3. /\ stream_active \in BOOLEAN /\ role \in BOOLEAN /\ closing \in BOOLEAN
  BY <1>1
<1>4. subscribers \in [Subscribed -> Nat]
  BY <1>1, <1>2
<1>5. StreamTypes
  BY <1>1, <1>2, <1>3, <1>4, FS_EmptySet DEF StreamTypes, StreamRows
<1>6. RegisteredWhileOpen
  BY <1>1, <1>2 DEF RegisteredWhileOpen
<1>7. \A c \in Sessions : Feeds!OpenUnder(c) = {}
  BY <1>2 DEF Feeds!OpenUnder, Subscribed
<1>8. Cardinality({}) = 0
  BY FS_EmptySet
<1> QED BY <1>2, <1>5, <1>6, <1>7, <1>8, StreamsAssumption DEF StreamInv, SharesAreKept

(***************************************************************************)
(* An open stream has its credential, its account and the role, or a close *)
(* that names it is due (or was dropped with a commit reported as failed); *)
(* none is open once the server has closed them all, and a session has no  *)
(* more than its share: for any streams, credentials and share.            *)
(***************************************************************************)
THEOREM StreamsAreEntitled == ServerParts => []OnlyEntitledStreamsStay
<1>1. ServerInit => StreamInv
  BY StreamsBegin DEF ServerInit
<1>2. StreamInv /\ [ServerNext]_server_vars => StreamInv'
  <2> SUFFICES ASSUME StreamInv, [ServerNext]_server_vars PROVE StreamInv'
    OBVIOUS
  <2>1. Feeds!StreamsNext \/ UNCHANGED stream_vars
    BY DEF ServerNext, server_vars
  <2>2. CASE UNCHANGED stream_vars
    BY <2>2 DEF stream_vars, StreamInv, StreamTypes, RegisteredWhileOpen, ReadOrDue, Due,
                SharesAreKept, Feeds!OpenUnder, Feeds!IsOpen, Subscribed
  <2>3. CASE Feeds!StreamsNext
    BY <2>3, LossesAreDue, ClosesReachAll, FramesGoOut, OpeningsGoOn, StreamsRegister,
       StreamsAreAdmitted DEF Feeds!StreamsNext
  <2> QED BY <2>1, <2>2, <2>3
<1>3. StreamInv => OnlyEntitledStreamsStay
  <2> SUFFICES ASSUME StreamInv PROVE Feeds!OnlyEntitledStreamsStay
    BY DEF OnlyEntitledStreamsStay
  <2>1. ASSUME NEW s \in Streams, stream[s].pc = "open"
        PROVE  /\ \/ stream[s].credential \in stream_live /\ stream_active /\ role
                  \/ {"account", "role", stream[s].credential} \cap Due # {}
               /\ s \in Subscribed /\ ~closing
    BY <2>1 DEF StreamInv, StreamTypes, RegisteredWhileOpen, ReadOrDue
  <2>2. \A c \in Sessions :
          {s \in Streams : Feeds!IsOpen(s) /\ stream[s].credential = c} = Feeds!OpenUnder(c)
    BY <2>1 DEF Feeds!OpenUnder, Feeds!IsOpen, Subscribed, StreamInv, StreamTypes
  <2>3. \A c \in Sessions : Feeds!Cardinality(Feeds!OpenUnder(c)) <= MaxPerScope
    BY StreamCardinality DEF StreamInv, SharesAreKept
  <2> QED BY <2>1, <2>2, <2>3 DEF Feeds!OnlyEntitledStreamsStay, Feeds!IsOpen, Due, Subscribed
<1> QED BY <1>1, <1>2, <1>3, PTL DEF ServerParts

-----------------------------------------------------------------------------
(***************************************************************************)
(* Migrations.  The tracker is a list, for its rows have the places from 1 *)
(* on and each name once; and what the transactions under way have written *)
(* clashes with nothing, so that whichever of them commits extends it.     *)
(***************************************************************************)
SchemaRows == [name : STRING, sequence : Nat \ {0}]

BootRows ==
  [pc : {"down", "failed", "ready", "migrating"}, applied : Seq(STRING), wrote : Seq(SchemaRows)]

MigrationTypes ==
  /\ boot \in [Processes -> BootRows]
  /\ tracker \subseteq SchemaRows /\ IsFiniteSet(tracker)
  /\ taken \in [Boots!MigrationNames -> Nat]

TrackerIsAList ==
  /\ \A one, other \in tracker : Boots!Clashes(one, other) => one = other
  /\ \A row_ \in tracker : \A i \in 1 .. (row_.sequence - 1) :
       \E before \in tracker : before.sequence = i

\* The row of a build's migration in a place, the rows that a boot has written, and the
\* place that it has come to.
RowOf(p, i) == [name |-> Builds[p][i], sequence |-> i]
Written(p) == Boots!Range(boot[p].wrote)
Reached(p) == Len(boot[p].applied) + Len(boot[p].wrote)

WritesItsTail(p) ==
  boot[p].pc = "migrating" =>
    /\ Reached(p) <= Len(Builds[p])
    /\ \A i \in 1 .. Len(boot[p].applied) : RowOf(p, i) \in tracker
    /\ Written(p) = {RowOf(p, i) : i \in (Len(boot[p].applied) + 1) .. Reached(p)}
    /\ \A row_ \in Written(p) :
         /\ \A other \in tracker : ~Boots!Clashes(row_, other)
         /\ \A other \in Written(p) : Boots!Clashes(row_, other) => row_ = other

BootsApart(p, q) ==
  boot[p].pc = "migrating" /\ boot[q].pc = "migrating" =>
    \A row_ \in Written(p), other \in Written(q) : ~Boots!Clashes(row_, other)

HasItsSchema(p) ==
  boot[p].pc = "ready" => \A i \in 1 .. Len(Builds[p]) : RowOf(p, i) \in tracker

TakenOnce ==
  /\ \A n \in Boots!MigrationNames :
       taken[n] = IF n \notin promoted /\ \E row_ \in tracker : row_.name = n THEN 1 ELSE 0
  /\ \A n \in promoted : \E row_ \in tracker : row_.name = n

MigrationInv ==
  /\ MigrationTypes /\ TrackerIsAList /\ TakenOnce
  /\ \A p \in Processes : WritesItsTail(p) /\ HasItsSchema(p)
  /\ \A p \in Processes : \A q \in Processes \ {p} : BootsApart(p, q)

\* The migrations count as this module does.
LEMMA MigrationCardinality == \A S : Boots!Cardinality(S) = Cardinality(S)
  BY DEF Boots!Cardinality, Cardinality

\* As many rows come before a row as its place says, and there is a row in each place up
\* to their number.
LEMMA PlacesAreCounted ==
  ASSUME MigrationTypes, TrackerIsAList
  PROVE  /\ Cardinality(tracker) \in Nat
         /\ \A row_ \in tracker :
              /\ Cardinality({other \in tracker : other.sequence < row_.sequence})
                   = row_.sequence - 1
              /\ row_.sequence <= Cardinality(tracker)
         /\ \A i \in 1 .. Cardinality(tracker) : \E row_ \in tracker : row_.sequence = i
<1> DEFINE Before(row_) == {other \in tracker : other.sequence < row_.sequence}
           n == Cardinality(tracker)
<1>1. /\ IsFiniteSet(tracker) /\ n \in Nat
      /\ \A row_ \in tracker : row_.sequence \in Nat \ {0}
  BY FS_CardinalityType DEF MigrationTypes, SchemaRows
<1>2. \A one, other \in tracker : one.sequence = other.sequence => one = other
  BY DEF TrackerIsAList, Boots!Clashes
<1>3. ASSUME NEW row_ \in tracker
      PROVE  Cardinality(Before(row_)) = row_.sequence - 1 /\ row_.sequence <= n
  <2> DEFINE k == row_.sequence - 1
             place == [other \in Before(row_) |-> other.sequence]
  <2>1. k \in Nat
    BY <1>1
  <2>2. place \in [Before(row_) -> 1 .. k]
    BY <1>1
  <2>3. \A one, other \in Before(row_) : place[one] = place[other] => one = other
    BY <1>2
  <2>4. ASSUME NEW i \in 1 .. k PROVE \E other \in Before(row_) : place[other] = i
    <3>1. PICK other \in tracker : other.sequence = i
      BY DEF TrackerIsAList
    <3>2. other \in Before(row_)
      BY <1>1, <3>1
    <3> QED BY <3>1, <3>2
  <2>5. place \in Bijection(Before(row_), 1 .. k)
    <3> HIDE DEF place, Before, k
    <3> QED BY <2>2, <2>3, <2>4 DEF Bijection, Injection, Surjection, IsInjective
  <2>6. IsFiniteSet(Before(row_)) /\ Cardinality(Before(row_)) <= n
    BY <1>1, FS_Subset
  <2>7. Cardinality(1 .. k) = Cardinality(Before(row_))
    <3>1. ExistsBijection(Before(row_), 1 .. k)
      BY <2>5 DEF ExistsBijection
    <3> QED BY <2>6, <3>1, FS_Bijection
  <2>8. Cardinality(1 .. k) = k
    BY <2>1, FS_Interval
  <2>9. Cardinality(Before(row_)) < n
    <3>1. Before(row_) # tracker
      <4>1. row_ \notin Before(row_)
        BY <1>1
      <4> QED BY <4>1
    <3>2. Cardinality(Before(row_)) # n
      BY <1>1, <3>1, FS_Subset
    <3>3. Cardinality(Before(row_)) \in Nat
      BY <2>6, FS_CardinalityType
    <3> HIDE DEF Before, n
    <3> QED BY <1>1, <2>6, <3>2, <3>3
  <2> HIDE DEF Before, n
  <2> QED BY <1>1, <2>7, <2>8, <2>9
<1>4. ASSUME NEW i \in 1 .. n PROVE \E row_ \in tracker : row_.sequence = i
  <2> DEFINE place == [row_ \in tracker |-> row_.sequence]
  <2>1. place \in [tracker -> 1 .. n] /\ \A one, other \in tracker : place[one] = place[other] => one = other
    <3> HIDE DEF n, Before
    <3> QED BY <1>1, <1>2, <1>3
  <2>2. place \in Injection(tracker, 1 .. n)
    <3> HIDE DEF place, n
    <3> QED BY <2>1 DEF Injection, IsInjective
  <2>3. IsFiniteSet(1 .. n) /\ Cardinality(1 .. n) = n
    BY <1>1, FS_Interval
  <2>4. place \in Surjection(tracker, 1 .. n)
    <3> HIDE DEF place
    <3> QED BY <2>2, <2>3, FS_Injection
  <2> HIDE DEF n
  <2> QED BY <2>4 DEF Surjection
<1> QED BY <1>1, <1>3, <1>4

\* What the ordered read of the tracker returns: in each place the name of its row.
LEMMA AppliedInOrder ==
  ASSUME MigrationTypes, TrackerIsAList
  PROVE  /\ Boots!Applied \in Seq(STRING) /\ Len(Boots!Applied) = Cardinality(tracker)
         /\ \A i \in 1 .. Len(Boots!Applied) :
              [name |-> Boots!Applied[i], sequence |-> i] \in tracker
         /\ \A row_ \in tracker : row_.sequence \in 1 .. Len(Boots!Applied)
                               /\ Boots!Applied[row_.sequence] = row_.name
<1> DEFINE n == Cardinality(tracker)
           Before(row_) == {other \in tracker : other.sequence < row_.sequence}
           there(i) == CHOOSE row_ \in tracker : Boots!Cardinality(Before(row_)) = i - 1
<1>1. Boots!Applied = [i \in 1 .. n |-> there(i).name]
  <2>1. Boots!Applied = [i \in 1 .. Boots!Cardinality(tracker) |-> there(i).name]
    BY DEF Boots!Applied
  <2>2. Boots!Cardinality(tracker) = n
    BY MigrationCardinality
  <2> HIDE DEF there, n
  <2> QED BY <2>1, <2>2
<1>2. /\ n \in Nat
      /\ \A row_ \in tracker : Cardinality(Before(row_)) = row_.sequence - 1 /\ row_.sequence <= n
      /\ \A i \in 1 .. n : \E row_ \in tracker : row_.sequence = i
  BY PlacesAreCounted
<1>3. \A row_ \in tracker : row_ \in SchemaRows /\ row_.sequence \in Nat \ {0} /\ row_.name \in STRING
                          /\ row_ = [name |-> row_.name, sequence |-> row_.sequence]
  BY DEF MigrationTypes, SchemaRows
<1>4. ASSUME NEW i \in 1 .. n
      PROVE  there(i) \in tracker /\ there(i).sequence = i
  <2>1. \E row_ \in tracker : Boots!Cardinality(Before(row_)) = i - 1
    <3> HIDE DEF n, Before
    <3> QED BY <1>2, MigrationCardinality
  <2>2. there(i) \in tracker /\ Cardinality(Before(there(i))) = i - 1
    BY <2>1, MigrationCardinality
  <2> HIDE DEF there, Before
  <2> QED BY <1>2, <1>3, <2>2
<1> HIDE DEF there, n, Before
<1>5. Boots!Applied \in [1 .. n -> STRING]
  BY <1>1, <1>3, <1>4
<1>6. Boots!Applied \in Seq(STRING) /\ Len(Boots!Applied) = n
  BY <1>2, <1>5, IsASeq, LenProperties
<1>7. ASSUME NEW i \in 1 .. n PROVE [name |-> Boots!Applied[i], sequence |-> i] \in tracker
  <2>1. there(i) = [name |-> there(i).name, sequence |-> i] /\ Boots!Applied[i] = there(i).name
    BY <1>1, <1>3, <1>4
  <2> QED BY <1>4, <2>1
<1>8. ASSUME NEW row_ \in tracker
      PROVE  row_.sequence \in 1 .. n /\ Boots!Applied[row_.sequence] = row_.name
  <2>1. row_.sequence \in 1 .. n
    BY <1>2, <1>3
  <2>2. there(row_.sequence) = row_
    BY <1>4, <2>1 DEF TrackerIsAList, Boots!Clashes
  <2> QED BY <1>1, <2>1, <2>2
<1> QED BY <1>6, <1>7, <1>8 DEF n

\* A prefix agrees in each of its places.
LEMMA PrefixesAgree ==
  ASSUME NEW S, NEW s \in Seq(S), NEW t \in Seq(S)
  PROVE  Boots!IsPrefix(s, t) <=> Len(s) <= Len(t) /\ \A i \in 1 .. Len(s) : s[i] = t[i]
<1>1. /\ Len(s) \in Nat /\ Len(t) \in Nat
      /\ \A i \in 1 .. Len(s) : s[i] \in S
      /\ \A i \in 1 .. Len(t) : t[i] \in S
  BY ElementOfSeq, LenProperties
<1>2. CASE ~(Len(s) <= Len(t))
  BY <1>2 DEF Boots!IsPrefix
<1>3. CASE Len(s) <= Len(t)
  <2>1. \A i \in 1 .. Len(s) : i \in 1 .. Len(t)
    BY <1>1, <1>3
  <2>2. /\ SubSeq(s, 1, Len(s)) \in Seq(S) /\ Len(SubSeq(s, 1, Len(s))) = Len(s)
        /\ \A i \in 1 .. Len(s) : SubSeq(s, 1, Len(s))[i] = s[i]
    <3>1. /\ SubSeq(s, 1, Len(s)) \in Seq(S)
          /\ Len(SubSeq(s, 1, Len(s))) = IF 1 <= Len(s) THEN Len(s) - 1 + 1 ELSE 0
          /\ \A i \in 1 .. (Len(s) - 1 + 1) : SubSeq(s, 1, Len(s))[i] = s[1 + i - 1]
      BY <1>1, SubSeqProperties
    <3> QED BY <1>1, <3>1
  <2>3. /\ SubSeq(t, 1, Len(s)) \in Seq(S) /\ Len(SubSeq(t, 1, Len(s))) = Len(s)
        /\ \A i \in 1 .. Len(s) : SubSeq(t, 1, Len(s))[i] = t[i]
    <3>1. /\ SubSeq(t, 1, Len(s)) \in Seq(S)
          /\ Len(SubSeq(t, 1, Len(s))) = IF 1 <= Len(s) THEN Len(s) - 1 + 1 ELSE 0
          /\ \A i \in 1 .. (Len(s) - 1 + 1) : SubSeq(t, 1, Len(s))[i] = t[1 + i - 1]
      BY <1>1, <2>1, SubSeqProperties
    <3> QED BY <1>1, <3>1
  <2>4. PICK a, b : a = SubSeq(s, 1, Len(s)) /\ b = SubSeq(t, 1, Len(s))
    OBVIOUS
  <2>5. /\ a \in Seq(S) /\ b \in Seq(S) /\ Len(a) = Len(b) /\ Len(a) = Len(s)
        /\ \A i \in 1 .. Len(s) : a[i] = s[i] /\ b[i] = t[i]
    BY <2>2, <2>3, <2>4
  <2>6. a = b <=> \A i \in 1 .. Len(s) : s[i] = t[i]
    <3>1. (\A i \in 1 .. Len(a) : a[i] = b[i]) => a = b
      BY ONLY <2>5, SeqEqual
    <3> QED BY ONLY <2>5, <3>1
  <2>7. Boots!IsPrefix(s, t) <=> a = b
    BY <1>3, <2>4 DEF Boots!IsPrefix
  <2> QED BY <1>3, <2>6, <2>7
<1> QED BY <1>2, <1>3

\* A boot, field by field, and the sequence of its build.
LEMMA BootFields ==
  ASSUME MigrationInv, NEW p \in Processes
  PROVE  /\ boot[p] \in BootRows /\ Builds[p] \in Seq(STRING)
         /\ Len(Builds[p]) \in Nat
         /\ Len(boot[p].applied) \in Nat /\ Len(boot[p].wrote) \in Nat /\ Reached(p) \in Nat
<1>1. boot[p] \in BootRows /\ Builds[p] \in Seq(STRING)
  BY BuildsAssumption DEF MigrationInv, MigrationTypes
<1>2. boot[p].applied \in Seq(STRING) /\ boot[p].wrote \in Seq(SchemaRows)
  BY <1>1 DEF BootRows
<1>3. /\ Len(Builds[p]) \in Nat /\ Len(boot[p].applied) \in Nat /\ Len(boot[p].wrote) \in Nat
  BY <1>1, <1>2, LenProperties
<1>4. PICK a \in Nat, b \in Nat : a = Len(boot[p].applied) /\ b = Len(boot[p].wrote)
  BY <1>3
<1>5. Reached(p) = a + b
  BY <1>4 DEF Reached
<1>6. Reached(p) \in Nat
  BY <1>5
<1> QED BY <1>1, <1>3, <1>6

\* Of the lengths that make up a place.
LEMMA OneFurther ==
  ASSUME NEW a \in Nat, NEW b \in Nat
  PROVE  a + (b + 1) = (a + b) + 1 /\ a <= a + b
OBVIOUS

\* One boot goes on, and nothing commits.
LEMMA OneBootMoves ==
  ASSUME MigrationInv, NEW p \in Processes, NEW new \in BootRows,
         boot' = [boot EXCEPT ![p] = new], UNCHANGED <<tracker, taken, promoted>>,
         WritesItsTail(p)', HasItsSchema(p)',
         new.pc = "migrating" =>
           \A q \in Processes \ {p} : boot[q].pc = "migrating" =>
             \A row_ \in Boots!Range(new.wrote), other \in Written(q) :
               ~Boots!Clashes(row_, other)
  PROVE  MigrationInv'
<1>1. /\ boot' \in [Processes -> BootRows] /\ boot'[p] = new
      /\ \A q \in Processes \ {p} : boot'[q] = boot[q]
  BY DEF MigrationInv, MigrationTypes
<1>2. MigrationTypes' /\ TrackerIsAList' /\ TakenOnce'
  BY <1>1 DEF MigrationInv, MigrationTypes, TrackerIsAList, TakenOnce
<1>3. ASSUME NEW q \in Processes PROVE WritesItsTail(q)' /\ HasItsSchema(q)'
  <2>1. CASE q = p
    BY <2>1
  <2>2. CASE q # p
    <3>1. boot'[q] = boot[q] /\ WritesItsTail(q) /\ HasItsSchema(q)
      BY <1>1, <2>2 DEF MigrationInv
    <3> QED BY <3>1 DEF WritesItsTail, HasItsSchema, Written, Reached
  <2> QED BY <2>1, <2>2
<1>4. ASSUME NEW q \in Processes, NEW r \in Processes \ {q} PROVE BootsApart(q, r)'
  <2>1. \A one, other : Boots!Clashes(one, other) <=> Boots!Clashes(other, one)
    BY DEF Boots!Clashes
  <2>2. Written(p)' = Boots!Range(new.wrote)
        /\ \A u \in Processes \ {p} : Written(u)' = Written(u)
    BY <1>1 DEF Written
  <2>3. CASE q = p
    BY <1>1, <2>2, <2>3 DEF BootsApart
  <2>4. CASE r = p
    BY <1>1, <2>1, <2>2, <2>4 DEF BootsApart
  <2>5. CASE q # p /\ r # p
    <3>1. boot'[q] = boot[q] /\ boot'[r] = boot[r] /\ BootsApart(q, r)
      BY <1>1, <2>5 DEF MigrationInv
    <3> QED BY <2>2, <2>5, <3>1 DEF BootsApart
  <2> QED BY <2>3, <2>4, <2>5
<1> QED BY <1>2, <1>3, <1>4 DEF MigrationInv

\* A boot whose transaction is over, one field after the other.
LEMMA BootBecomes ==
  ASSUME MigrationInv, NEW p \in Processes, NEW pc \in {"down", "failed", "ready"},
         boot' = [boot EXCEPT ![p].pc = pc, ![p].wrote = <<>>]
  PROVE  LET new == [pc |-> pc, applied |-> boot[p].applied, wrote |-> <<>>]
         IN  new \in BootRows /\ boot' = [boot EXCEPT ![p] = new]
<1> DEFINE b == boot[p]
           under == [pc |-> pc, applied |-> b.applied, wrote |-> b.wrote]
           new == [pc |-> pc, applied |-> b.applied, wrote |-> <<>>]
<1>1. b \in BootRows /\ boot \in [Processes -> BootRows] /\ <<>> \in Seq(SchemaRows)
  BY BootFields, EmptySeq DEF MigrationInv, MigrationTypes
<1>2. new \in BootRows
  BY <1>1 DEF BootRows
<1>3. [b EXCEPT !.pc = pc] = under
  BY <1>1 DEF BootRows
<1>4. [under EXCEPT !.wrote = <<>>] = new
  OBVIOUS
<1> HIDE DEF under, new
<1>5. boot' = [[boot EXCEPT ![p] = under] EXCEPT ![p].wrote = <<>>]
  BY <1>3
<1>6. boot' = [boot EXCEPT ![p] = new]
  BY <1>1, <1>4, <1>5
<1> QED BY <1>2, <1>6 DEF new

\* A boot that fails or crashes has nothing under way.
LEMMA BootsEnd ==
  ASSUME MigrationInv, NEW p \in Processes,
         Boots!Fails(p) \/ boot' = [boot EXCEPT ![p] = Boots!Down],
         UNCHANGED <<tracker, taken, promoted>>
  PROVE  MigrationInv'
<1>1. boot[p] \in BootRows /\ <<>> \in Seq(SchemaRows) /\ <<>> \in Seq(STRING)
  BY BootFields, EmptySeq
<1>2. CASE Boots!Fails(p)
  <2> DEFINE new == [pc |-> "failed", applied |-> boot[p].applied, wrote |-> <<>>]
  <2>1. new \in BootRows /\ boot' = [boot EXCEPT ![p] = new] /\ new.pc = "failed"
    <3>1. boot' = [boot EXCEPT ![p].pc = "failed", ![p].wrote = <<>>]
      BY <1>2 DEF Boots!Fails
    <3> QED BY <3>1, BootBecomes
  <2> HIDE DEF new
  <2>3. boot'[p] = new
    BY <2>1 DEF MigrationInv, MigrationTypes
  <2>4. WritesItsTail(p)' /\ HasItsSchema(p)'
    BY <2>1, <2>3 DEF WritesItsTail, HasItsSchema
  <2> QED BY <2>1, <2>4, OneBootMoves
<1>3. CASE boot' = [boot EXCEPT ![p] = Boots!Down]
  <2>1. Boots!Down \in BootRows /\ Boots!Down.pc = "down"
    BY <1>1 DEF BootRows, Boots!Down
  <2>2. boot'[p] = Boots!Down
    BY <1>3 DEF MigrationInv, MigrationTypes
  <2>3. WritesItsTail(p)' /\ HasItsSchema(p)'
    BY <2>1, <2>2 DEF WritesItsTail, HasItsSchema
  <2> QED BY <1>3, <2>1, <2>3, OneBootMoves
<1> QED BY <1>2, <1>3

\* A boot reads the tracker: where it goes on, that is the beginning of its build.
LEMMA BootsRead ==
  ASSUME MigrationInv, NEW p \in Processes, Boots!ReadTracker(p)
  PROVE  MigrationInv'
<1> DEFINE known == Builds[p]
           applied == Boots!Applied
<1>1. /\ applied \in Seq(STRING) /\ Len(applied) = Cardinality(tracker)
      /\ \A i \in 1 .. Len(applied) : [name |-> applied[i], sequence |-> i] \in tracker
  BY AppliedInOrder DEF MigrationInv
<1>2. known \in Seq(STRING) /\ Len(known) \in Nat /\ Len(applied) \in Nat
  BY <1>1, BootFields, LenProperties
<1>3. PICK new :
        /\ new = [pc |-> new.pc, applied |-> applied, wrote |-> <<>>]
        /\ boot' = [boot EXCEPT ![p] = new]
        /\ new.pc \in {"failed", "ready", "migrating"}
        /\ new.pc = "migrating" => IF p \in Baselines THEN tracker = {} ELSE Boots!IsPrefix(applied, known)
        /\ new.pc = "ready" => applied = known
        /\ UNCHANGED <<tracker, taken, promoted>>
  <2> DEFINE refused == IF p \in Baselines THEN tracker # {} ELSE ~Boots!IsPrefix(applied, known)
             current == p \notin Baselines /\ applied = known
             pc == IF refused THEN "failed" ELSE IF current THEN "ready" ELSE "migrating"
             new == [pc |-> pc, applied |-> applied, wrote |-> <<>>]
  <2>1. boot' = [boot EXCEPT ![p] = new] /\ UNCHANGED <<tracker, taken, promoted>>
    BY DEF Boots!ReadTracker, Boots!Drifted
  <2>2. /\ pc \in {"failed", "ready", "migrating"}
        /\ pc = "migrating" => IF p \in Baselines THEN tracker = {} ELSE Boots!IsPrefix(applied, known)
        /\ pc = "ready" => applied = known
    OBVIOUS
  <2> HIDE DEF pc
  <2>3. new.pc = pc
    OBVIOUS
  <2> QED BY <2>1, <2>2, <2>3
<1>4. new \in BootRows /\ Boots!Range(new.wrote) = {}
  <2>1. <<>> \in Seq(SchemaRows) /\ Boots!Range(<<>>) = {}
    BY EmptySeq DEF Boots!Range
  <2>2. /\ new.pc \in {"failed", "ready", "migrating"} /\ applied \in Seq(STRING)
        /\ new = [pc |-> new.pc, applied |-> applied, wrote |-> <<>>]
    BY <1>1, <1>3
  <2>3. new \in BootRows
    <3>1. PICK pc, names, none : pc = new.pc /\ names = applied /\ none = <<>>
      OBVIOUS
    <3>2. /\ new = [pc |-> pc, applied |-> names, wrote |-> none]
          /\ pc \in {"failed", "ready", "migrating"} /\ names \in Seq(STRING)
          /\ none \in Seq(SchemaRows)
      BY <2>1, <2>2, <3>1
    <3> QED BY ONLY <3>2 DEF BootRows
  <2>4. new.wrote = <<>>
    <3> HIDE DEF applied
    <3> QED BY ONLY <2>2
  <2> QED BY <2>1, <2>3, <2>4
<1>5. boot'[p] = new /\ tracker' = tracker
  BY <1>3 DEF MigrationInv, MigrationTypes
<1>6. ASSUME new.pc = "migrating"
      PROVE  Len(applied) <= Len(known) /\ \A i \in 1 .. Len(applied) : applied[i] = known[i]
  <2>1. CASE p \in Baselines
    <3>1. Len(applied) = 0
      BY <1>1, <1>3, <1>6, <2>1, FS_EmptySet
    <3> HIDE DEF applied, known
    <3> QED BY <1>2, <3>1
  <2>2. CASE p \notin Baselines
    <3>1. Boots!IsPrefix(applied, known)
      BY <1>3, <1>6, <2>2
    <3> HIDE DEF applied, known
    <3> QED BY <1>1, <1>2, <3>1, PrefixesAgree
  <2> QED BY <2>1, <2>2
<1>7. WritesItsTail(p)'
  <2> SUFFICES ASSUME new.pc = "migrating" PROVE WritesItsTail(p)'
    BY <1>5 DEF WritesItsTail
  <2>1. /\ boot'[p].applied = applied /\ Len(boot'[p].wrote) = 0 /\ Written(p)' = {}
    BY <1>3, <1>4, <1>5, EmptySeq DEF Written
  <2>2. Reached(p)' = Len(applied)
    <3> HIDE DEF applied
    <3> QED BY <1>2, <2>1 DEF Reached
  <2>3. \A i \in 1 .. Len(applied) : RowOf(p, i) \in tracker'
    BY <1>1, <1>5, <1>6 DEF RowOf
  <2>4. {RowOf(p, i) : i \in (Len(applied) + 1) .. Len(applied)} = {}
    <3> HIDE DEF applied
    <3> QED BY <1>2
  <2> HIDE DEF applied, known
  <2> QED BY <1>6, <2>1, <2>2, <2>3, <2>4 DEF WritesItsTail, known
<1>8. HasItsSchema(p)'
  <2> SUFFICES ASSUME new.pc = "ready" PROVE HasItsSchema(p)'
    BY <1>5 DEF HasItsSchema
  <2>1. applied = known
    BY <1>3
  <2> QED BY <1>1, <1>5, <2>1 DEF HasItsSchema, RowOf
<1> QED BY <1>3, <1>4, <1>7, <1>8, OneBootMoves

\* What appending adds to the members of a sequence.
LEMMA AppendedRange ==
  ASSUME NEW S, NEW s \in Seq(S), NEW e \in S
  PROVE  /\ Append(s, e) \in Seq(S) /\ Len(Append(s, e)) = Len(s) + 1
         /\ Boots!Range(Append(s, e)) = Boots!Range(s) \cup {e}
<1>1. /\ Len(s) \in Nat /\ DOMAIN s = 1 .. Len(s)
  BY LenProperties
<1>2. /\ Append(s, e) \in Seq(S) /\ Len(Append(s, e)) = Len(s) + 1
      /\ \A i \in 1 .. Len(s) : Append(s, e)[i] = s[i]
      /\ Append(s, e)[Len(s) + 1] = e
  BY AppendProperties
<1>3. DOMAIN Append(s, e) = 1 .. (Len(s) + 1)
  BY <1>2, LenProperties
<1>4. PICK t : t = Append(s, e)
  OBVIOUS
<1>5. Boots!Range(t) = Boots!Range(s) \cup {e}
  <2>1. DOMAIN t = 1 .. (Len(s) + 1) /\ t[Len(s) + 1] = e /\ \A i \in 1 .. Len(s) : t[i] = s[i]
    BY <1>2, <1>3, <1>4
  <2>2. 1 .. (Len(s) + 1) = (1 .. Len(s)) \cup {Len(s) + 1}
    BY <1>1
  <2> QED BY ONLY <1>1, <2>1, <2>2 DEF Boots!Range
<1> QED BY <1>2, <1>4, <1>5

\* A row is inserted that clashes neither with a committed one nor with one under way.
LEMMA BootsApply ==
  ASSUME MigrationInv, NEW p \in Processes, Boots!Apply(p)
  PROVE  MigrationInv'
<1> DEFINE row_ == Boots!NextRow(p)
           clash == \E other \in tracker \cup Written(p) : Boots!Clashes(row_, other)
           new == [pc |-> "migrating", applied |-> boot[p].applied,
                   wrote |-> Append(boot[p].wrote, row_)]
<1>1. /\ boot[p].pc = "migrating" /\ Boots!Pending(p) <= Len(Builds[p]) /\ ~Boots!Blocked(p)
      /\ clash => Boots!Fails(p)
      /\ ~clash => boot' = [boot EXCEPT ![p].wrote = Append(@, row_)]
      /\ UNCHANGED <<tracker, taken, promoted>>
  BY DEF Boots!Apply, Written
<1>2. CASE clash
  BY <1>1, <1>2, BootsEnd
<1>3. CASE ~clash
  <2>1. /\ boot[p] \in BootRows /\ boot \in [Processes -> BootRows]
        /\ boot[p].wrote \in Seq(SchemaRows) /\ boot[p].applied \in Seq(STRING)
        /\ Len(boot[p].applied) \in Nat /\ Reached(p) \in Nat /\ Len(boot[p].wrote) \in Nat
        /\ Builds[p] \in Seq(STRING) /\ Len(Builds[p]) \in Nat
    BY BootFields DEF BootRows, MigrationInv, MigrationTypes
  <2>2. Boots!Pending(p) = Reached(p) + 1 /\ row_ = RowOf(p, Reached(p) + 1)
    BY DEF Boots!Pending, Boots!NextRow, RowOf, Reached
  <2>3. Reached(p) + 1 \in 1 .. Len(Builds[p]) /\ Reached(p) + 1 \in Nat \ {0}
    BY <1>1, <2>1, <2>2
  <2>4. row_ \in SchemaRows
    <3>1. Builds[p][Reached(p) + 1] \in STRING
      BY <2>1, <2>3, ElementOfSeq
    <3> HIDE DEF row_
    <3> QED BY <2>2, <2>3, <3>1 DEF SchemaRows, RowOf
  <2>5. /\ new.wrote \in Seq(SchemaRows) /\ Len(new.wrote) = Len(boot[p].wrote) + 1
        /\ Boots!Range(new.wrote) = Written(p) \cup {row_}
    <3> HIDE DEF row_
    <3> QED BY <2>1, <2>4, AppendedRange DEF Written
  <2>6. new \in BootRows /\ new.pc = "migrating" /\ new.applied = boot[p].applied
    <3>1. new.wrote \in Seq(SchemaRows)
      BY <2>5
    <3>2. PICK w : w = Append(boot[p].wrote, row_)
      OBVIOUS
    <3>3. w \in Seq(SchemaRows) /\ new = [pc |-> "migrating", applied |-> boot[p].applied, wrote |-> w]
      BY <2>5, <3>2
    <3> HIDE DEF new, row_
    <3> QED BY ONLY <2>1, <3>3 DEF BootRows
  <2>7. boot' = [boot EXCEPT ![p] = new]
    <3>1. PICK w : w = Append(boot[p].wrote, row_)
      OBVIOUS
    <3>2. boot' = [boot EXCEPT ![p].wrote = w]
      BY <1>1, <1>3, <3>1
    <3>3. new = [pc |-> "migrating", applied |-> boot[p].applied, wrote |-> w]
      BY <3>1
    <3>4. [boot[p] EXCEPT !.wrote = w] = new
      <4>1. boot[p].pc = "migrating" /\ boot[p] \in BootRows
        BY <1>1, <2>1
      <4> HIDE DEF new, row_
      <4> QED BY ONLY <4>1, <3>3 DEF BootRows
    <3> HIDE DEF new, row_
    <3> QED BY <3>2, <3>4
  <2>8. boot'[p] = new
    <3> HIDE DEF new
    <3> QED BY <2>7 DEF MigrationInv, MigrationTypes
  <2>9. /\ Reached(p)' = Reached(p) + 1 /\ Written(p)' = Written(p) \cup {row_}
        /\ boot'[p].applied = boot[p].applied /\ boot'[p].pc = "migrating"
    <3>1. Len(boot'[p].wrote) = Len(boot[p].wrote) + 1 /\ boot'[p].applied = boot[p].applied
          /\ boot'[p].pc = "migrating" /\ Boots!Range(boot'[p].wrote) = Written(p) \cup {row_}
      <4> HIDE DEF new
      <4> QED BY <2>5, <2>6, <2>8
    <3>2. Reached(p)' = Len(boot[p].applied) + (Len(boot[p].wrote) + 1)
      BY <3>1 DEF Reached
    <3>3. Reached(p) = Len(boot[p].applied) + Len(boot[p].wrote)
      BY DEF Reached
    <3>4. Reached(p)' = Reached(p) + 1
      BY <2>1, <3>2, <3>3, OneFurther
    <3> HIDE DEF row_
    <3> QED BY <3>1, <3>4 DEF Written
  <2> HIDE DEF new, row_
  <2>10. WritesItsTail(p)
    BY DEF MigrationInv
  <2>11. WritesItsTail(p)'
    <3>1. {RowOf(p, i) : i \in (Len(boot[p].applied) + 1) .. (Reached(p) + 1)}
            = Written(p) \cup {row_}
      <4>1. Written(p) = {RowOf(p, i) : i \in (Len(boot[p].applied) + 1) .. Reached(p)}
        BY <1>1, <2>10 DEF WritesItsTail
      <4>2. Len(boot[p].applied) <= Reached(p)
        BY <2>1, OneFurther DEF Reached
      <4>3. (Len(boot[p].applied) + 1) .. (Reached(p) + 1)
              = ((Len(boot[p].applied) + 1) .. Reached(p)) \cup {Reached(p) + 1}
        BY <2>1, <4>2
      <4> QED BY <2>2, <4>1, <4>3
    <3>2. \A one, other : Boots!Clashes(one, other) <=> Boots!Clashes(other, one)
      BY DEF Boots!Clashes
    <3>3. \A other \in tracker \cup Written(p) : ~Boots!Clashes(row_, other)
      BY <1>3
    <3>4. \A i \in 1 .. Len(boot[p].applied) : RowOf(p, i) \in tracker'
      BY <1>1, <2>10 DEF WritesItsTail
    <3>5. Written(p)' = {RowOf(p, i) : i \in (Len(boot[p].applied) + 1) .. Reached(p)'}
      BY <2>9, <3>1
    <3>6. \A one \in Written(p)' :
            /\ \A other \in tracker' : ~Boots!Clashes(one, other)
            /\ \A other \in Written(p)' : Boots!Clashes(one, other) => one = other
      BY <1>1, <2>9, <2>10, <3>2, <3>3 DEF WritesItsTail
    <3>7. Reached(p)' <= Len(Builds[p])
      BY <2>1, <2>3, <2>9
    <3> QED BY <2>9, <3>4, <3>5, <3>6, <3>7 DEF WritesItsTail
  <2>12. HasItsSchema(p)'
    BY <2>9 DEF HasItsSchema
  <2>13. ASSUME NEW q \in Processes \ {p}, boot[q].pc = "migrating",
                NEW one \in Boots!Range(new.wrote), NEW other \in Written(q)
         PROVE  ~Boots!Clashes(one, other)
    <3>1. CASE one \in Written(p)
      BY <1>1, <2>13, <3>1 DEF MigrationInv, BootsApart
    <3>2. CASE one = row_
      BY <1>1, <2>13, <3>2 DEF Boots!Blocked, Written, row_
    <3> QED BY <2>5, <3>1, <3>2
  <2> QED BY <1>1, <2>6, <2>7, <2>11, <2>12, <2>13, OneBootMoves
<1> QED BY <1>2, <1>3

\* The rows of a transaction that commits are as the tracker's, and clash with none.
LEMMA BootsCommitRows ==
  ASSUME MigrationInv, NEW p \in Processes, Boots!Commits(p)
  PROVE  /\ tracker' = tracker \cup Written(p) /\ boot[p].pc = "migrating"
         /\ tracker' \subseteq SchemaRows /\ IsFiniteSet(tracker')
         /\ TrackerIsAList'
         /\ \A i \in 1 .. Len(Builds[p]) : RowOf(p, i) \in tracker'
<1>1. /\ boot[p].pc = "migrating" /\ Boots!Pending(p) > Len(Builds[p])
      /\ tracker' = tracker \cup Written(p)
  BY DEF Boots!Commits, Written
<1>2. /\ boot[p].wrote \in Seq(SchemaRows) /\ Len(boot[p].wrote) \in Nat
      /\ Len(boot[p].applied) \in Nat /\ Reached(p) \in Nat /\ Len(Builds[p]) \in Nat
      /\ Builds[p] \in Seq(STRING)
  BY BootFields DEF BootRows
<1>3. WritesItsTail(p)
  BY DEF MigrationInv
<1>4. Reached(p) = Len(Builds[p])
  <2>1. Boots!Pending(p) = Reached(p) + 1
    BY DEF Boots!Pending, Reached
  <2>2. Reached(p) <= Len(Builds[p])
    BY <1>1, <1>3 DEF WritesItsTail
  <2> QED BY <1>1, <1>2, <2>1, <2>2
<1>5. PICK a \in Nat, n \in Nat : a = Len(boot[p].applied) /\ n = Len(Builds[p])
  BY <1>2
<1>6. /\ \A i \in 1 .. a : RowOf(p, i) \in tracker
      /\ Written(p) = {RowOf(p, i) : i \in (a + 1) .. n}
      /\ \A row_ \in Written(p) :
           /\ \A other \in tracker : ~Boots!Clashes(row_, other)
           /\ \A other \in Written(p) : Boots!Clashes(row_, other) => row_ = other
  BY <1>1, <1>3, <1>4, <1>5 DEF WritesItsTail
<1>7. \A i \in 1 .. n : RowOf(p, i) \in tracker'
  <2> SUFFICES ASSUME NEW i \in 1 .. n PROVE RowOf(p, i) \in tracker'
    OBVIOUS
  <2>1. CASE i \in 1 .. a
    BY <1>1, <1>6, <2>1
  <2>2. CASE i \in (a + 1) .. n
    BY <1>1, <1>6, <2>2
  <2>3. i \in 1 .. a \/ i \in (a + 1) .. n
    OBVIOUS
  <2> QED BY <2>1, <2>2, <2>3
<1>8. tracker' \subseteq SchemaRows
  <2>1. \A i \in 1 .. n : Builds[p][i] \in STRING
    BY <1>2, <1>5, ElementOfSeq
  <2>2. Written(p) \subseteq SchemaRows
    BY <1>6, <2>1 DEF RowOf, SchemaRows
  <2> QED BY <1>1, <2>2 DEF MigrationInv, MigrationTypes
<1>9. IsFiniteSet(tracker')
  <2> DEFINE row_ == [i \in (a + 1) .. n |-> RowOf(p, i)]
  <2>1. row_ \in Surjection((a + 1) .. n, Written(p))
    BY <1>6 DEF Surjection
  <2>2. IsFiniteSet((a + 1) .. n)
    BY FS_Interval
  <2>3. IsFiniteSet(Written(p))
    <3> HIDE DEF row_
    <3> QED BY <2>1, <2>2, FS_Surjection
  <2> QED BY <1>1, <2>3, FS_Union DEF MigrationInv, MigrationTypes
<1>10. TrackerIsAList'
  <2>1. \A one, other : Boots!Clashes(one, other) <=> Boots!Clashes(other, one)
    BY DEF Boots!Clashes
  <2>2. \A one, other \in tracker' : Boots!Clashes(one, other) => one = other
    BY <1>1, <1>6, <2>1 DEF MigrationInv, TrackerIsAList
  <2>3. ASSUME NEW row_ \in tracker', NEW i \in 1 .. (row_.sequence - 1)
        PROVE  \E before \in tracker' : before.sequence = i
    <3>1. CASE row_ \in tracker
      BY <1>1, <3>1 DEF MigrationInv, TrackerIsAList
    <3>2. CASE row_ \in Written(p)
      <4>1. PICK j \in (a + 1) .. n : row_ = RowOf(p, j)
        BY <1>6, <3>2
      <4>2. row_.sequence = j
        BY <4>1 DEF RowOf
      <4>3. i \in 1 .. n
        BY <4>2
      <4>4. RowOf(p, i) \in tracker' /\ RowOf(p, i).sequence = i
        BY <1>7, <4>3 DEF RowOf
      <4> QED BY <4>4
    <3> QED BY <1>1, <3>1, <3>2
  <2> QED BY <2>2, <2>3 DEF TrackerIsAList
<1> QED BY <1>1, <1>5, <1>7, <1>8, <1>9, <1>10

\* A migration is counted when its row commits, unless it is only recorded.
LEMMA BootsCommitCounts ==
  ASSUME MigrationInv, NEW p \in Processes, Boots!Commits(p)
  PROVE  taken' \in [Boots!MigrationNames -> Nat] /\ TakenOnce'
<1> DEFINE wrote == {row_.name : row_ \in Written(p)}
<1>1. /\ tracker' = tracker \cup Written(p)
      /\ IF p \in Baselines
         THEN promoted' = promoted \cup wrote /\ taken' = taken
         ELSE /\ promoted' = promoted
              /\ taken' = [n \in Boots!MigrationNames |->
                            IF n \in wrote THEN taken[n] + 1 ELSE taken[n]]
  BY DEF Boots!Commits, Written
<1>2. \A n \in wrote : \A row_ \in tracker : row_.name # n
  <2>1. \A row_ \in Written(p) : \A other \in tracker : ~Boots!Clashes(row_, other)
    BY DEF Boots!Commits, MigrationInv, WritesItsTail
  <2> QED BY <2>1 DEF Boots!Clashes
<1>3. \A n : (\E row_ \in tracker' : row_.name = n) <=> (n \in wrote \/ \E row_ \in tracker : row_.name = n)
  BY <1>1
<1>4. taken \in [Boots!MigrationNames -> Nat] /\ TakenOnce
  BY DEF MigrationInv, MigrationTypes
<1>5. UNCHANGED Boots!MigrationNames
  BY DEF Boots!MigrationNames
<1> HIDE DEF wrote
<1>6. CASE p \in Baselines
  BY <1>1, <1>2, <1>3, <1>4, <1>5, <1>6 DEF TakenOnce
<1>7. CASE p \notin Baselines
  BY <1>1, <1>2, <1>3, <1>4, <1>5, <1>7 DEF TakenOnce
<1> QED BY <1>6, <1>7

\* A transaction commits: its boot serves if the answer is heard and it built the schema.
LEMMA BootsCommit ==
  ASSUME MigrationInv, NEW p \in Processes, Boots!Commit(p) \/ Boots!CommitUnheard(p)
  PROVE  MigrationInv'
<1>1. Boots!Commits(p)
  BY DEF Boots!Commit, Boots!CommitUnheard
<1>2. /\ tracker' = tracker \cup Written(p) /\ boot[p].pc = "migrating"
      /\ tracker' \subseteq SchemaRows /\ IsFiniteSet(tracker') /\ TrackerIsAList'
      /\ \A i \in 1 .. Len(Builds[p]) : RowOf(p, i) \in tracker'
  BY <1>1, BootsCommitRows
<1>3. taken' \in [Boots!MigrationNames -> Nat] /\ TakenOnce'
  BY <1>1, BootsCommitCounts
<1>4. PICK new \in BootRows : boot' = [boot EXCEPT ![p] = new] /\ new.pc # "migrating"
  <2>1. PICK pc \in {"down", "failed", "ready"} : boot' = [boot EXCEPT ![p].pc = pc, ![p].wrote = <<>>]
    <3>1. CASE Boots!CommitUnheard(p)
      BY <3>1 DEF Boots!CommitUnheard, Boots!Fails
    <3>2. CASE Boots!Commit(p)
      <4>1. PICK pc : pc = IF p \in Baselines THEN "down" ELSE "ready"
        OBVIOUS
      <4>2. boot' = [boot EXCEPT ![p].pc = pc, ![p].wrote = <<>>]
        BY <3>2, <4>1 DEF Boots!Commit
      <4>3. pc \in {"down", "failed", "ready"}
        BY <4>1
      <4> QED BY <4>2, <4>3
    <3> QED BY <3>1, <3>2
  <2> DEFINE new == [pc |-> pc, applied |-> boot[p].applied, wrote |-> <<>>]
  <2>2. new \in BootRows /\ boot' = [boot EXCEPT ![p] = new]
    BY <2>1, BootBecomes
  <2>3. new.pc # "migrating"
    OBVIOUS
  <2> HIDE DEF new
  <2> QED BY <2>2, <2>3
<1>5. /\ boot' \in [Processes -> BootRows] /\ boot'[p] = new
      /\ \A q \in Processes \ {p} : boot'[q] = boot[q]
  BY <1>4 DEF MigrationInv, MigrationTypes
<1>6. MigrationTypes'
  <2>1. UNCHANGED Boots!MigrationNames
    BY DEF Boots!MigrationNames
  <2> QED BY <1>2, <1>3, <1>5, <2>1 DEF MigrationTypes
<1>7. ASSUME NEW q \in Processes PROVE WritesItsTail(q)' /\ HasItsSchema(q)'
  <2>1. CASE q = p
    <3>1. WritesItsTail(p)'
      BY <1>4, <1>5 DEF WritesItsTail
    <3>2. HasItsSchema(p)'
      BY <1>2 DEF HasItsSchema, RowOf
    <3> QED BY <2>1, <3>1, <3>2
  <2>2. CASE q # p
    <3>1. boot'[q] = boot[q] /\ WritesItsTail(q) /\ HasItsSchema(q) /\ BootsApart(q, p)
      BY <1>5, <2>2 DEF MigrationInv
    <3>2. Written(q)' = Written(q) /\ Reached(q)' = Reached(q)
      BY <3>1 DEF Written, Reached
    <3>3. HasItsSchema(q)'
      BY <1>2, <3>1 DEF HasItsSchema, RowOf
    <3>4. WritesItsTail(q)'
      <4> SUFFICES ASSUME boot[q].pc = "migrating" PROVE WritesItsTail(q)'
        BY <3>1 DEF WritesItsTail
      <4>1. \A i \in 1 .. Len(boot'[q].applied) : RowOf(q, i) \in tracker'
        BY <1>2, <3>1 DEF WritesItsTail
      <4>2. \A row_ \in Written(q) : \A other \in tracker' : ~Boots!Clashes(row_, other)
        BY <1>2, <3>1 DEF WritesItsTail, BootsApart
      <4> QED BY <3>1, <3>2, <4>1, <4>2 DEF WritesItsTail, RowOf
    <3> QED BY <3>3, <3>4
  <2> QED BY <2>1, <2>2
<1>8. ASSUME NEW q \in Processes, NEW r \in Processes \ {q} PROVE BootsApart(q, r)'
  <2>1. CASE q = p \/ r = p
    BY <1>4, <1>5, <2>1 DEF BootsApart
  <2>2. CASE q # p /\ r # p
    <3>1. boot'[q] = boot[q] /\ boot'[r] = boot[r] /\ BootsApart(q, r)
      BY <1>5, <2>2 DEF MigrationInv
    <3> QED BY <3>1 DEF BootsApart, Written
  <2> QED BY <2>1, <2>2
<1> QED BY <1>2, <1>3, <1>6, <1>7, <1>8 DEF MigrationInv

\* A step of the migrations.
LEMMA MigrationsMove ==
  ASSUME MigrationInv, Boots!MigrationsNext
  PROVE  MigrationInv'
<1> PICK p \in Processes :
      \/ Boots!ReadTracker(p) \/ Boots!Apply(p) \/ Boots!FailMigration(p)
      \/ Boots!Commit(p) \/ Boots!CommitUnheard(p) \/ Boots!Crash(p)
  BY DEF Boots!MigrationsNext
<1>1. CASE Boots!ReadTracker(p)
  BY <1>1, BootsRead
<1>2. CASE Boots!Apply(p)
  BY <1>2, BootsApply
<1>3. CASE Boots!FailMigration(p)
  <2>1. Boots!Fails(p) /\ UNCHANGED <<tracker, taken, promoted>>
    BY <1>3 DEF Boots!FailMigration
  <2> QED BY <2>1, BootsEnd
<1>4. CASE Boots!Commit(p) \/ Boots!CommitUnheard(p)
  BY <1>4, BootsCommit
<1>5. CASE Boots!Crash(p)
  <2>1. boot' = [boot EXCEPT ![p] = Boots!Down] /\ UNCHANGED <<tracker, taken, promoted>>
    BY <1>5 DEF Boots!Crash
  <2> QED BY <2>1, BootsEnd
<1> QED BY <1>1, <1>2, <1>3, <1>4, <1>5

\* Nothing has been recorded before the first boot.
LEMMA MigrationsBegin ==
  ASSUME Boots!MigrationsInit
  PROVE  MigrationInv
<1>1. Boots!Down \in BootRows /\ Boots!Down.pc = "down"
  <2>1. <<>> \in Seq(SchemaRows) /\ <<>> \in Seq(STRING)
    BY EmptySeq
  <2> QED BY <2>1 DEF BootRows, Boots!Down
<1>2. /\ tracker = {} /\ promoted = {} /\ taken = [n \in Boots!MigrationNames |-> 0]
      /\ boot = [p \in Processes |-> Boots!Down]
  BY DEF Boots!MigrationsInit
<1>3. MigrationTypes
  BY <1>1, <1>2, FS_EmptySet DEF MigrationTypes
<1>4. TrackerIsAList /\ TakenOnce
  BY <1>2 DEF TrackerIsAList, TakenOnce
<1>5. \A p \in Processes : boot[p].pc = "down"
  BY <1>1, <1>2
<1>6. \A p \in Processes : WritesItsTail(p) /\ HasItsSchema(p)
  BY <1>5 DEF WritesItsTail, HasItsSchema
<1>7. \A p \in Processes : \A q \in Processes \ {p} : BootsApart(p, q)
  BY <1>5 DEF BootsApart
<1> QED BY <1>3, <1>4, <1>6, <1>7 DEF MigrationInv

\* What the invariant says of the property.
LEMMA SchemaIsRecorded ==
  ASSUME MigrationInv
  PROVE  SchemaIsWhatWasRecorded
<1>1. /\ Boots!Applied \in Seq(STRING) /\ Len(Boots!Applied) = Cardinality(tracker)
      /\ \A row_ \in tracker : row_.sequence \in 1 .. Len(Boots!Applied)
                            /\ Boots!Applied[row_.sequence] = row_.name
  BY AppliedInOrder DEF MigrationInv
<1>2. ASSUME NEW p \in Processes, boot[p].pc = "ready"
      PROVE  Boots!IsPrefix(Builds[p], Boots!Applied)
  <2>1. \A i \in 1 .. Len(Builds[p]) : RowOf(p, i) \in tracker
    BY <1>2 DEF MigrationInv, HasItsSchema
  <2>2. Builds[p] \in Seq(STRING) /\ Len(Builds[p]) \in Nat /\ Len(Boots!Applied) \in Nat
    BY <1>1, BootFields, LenProperties
  <2>3. ASSUME NEW i \in 1 .. Len(Builds[p])
        PROVE  i \in 1 .. Len(Boots!Applied) /\ Boots!Applied[i] = Builds[p][i]
    <3>1. RowOf(p, i) \in tracker /\ RowOf(p, i).sequence = i /\ RowOf(p, i).name = Builds[p][i]
      BY <2>1 DEF RowOf
    <3> QED BY <1>1, <3>1
  <2>4. PICK m \in Nat, n \in Nat : m = Len(Builds[p]) /\ n = Len(Boots!Applied)
    BY <2>2
  <2>5. \A i \in 1 .. m : i \in 1 .. n
    BY <2>3, <2>4
  <2>6. m <= n
    BY ONLY <2>5, m \in Nat, n \in Nat
  <2> QED BY <1>1, <2>2, <2>3, <2>4, <2>6, PrefixesAgree
<1>3. ASSUME NEW n \in Boots!MigrationNames
      PROVE  taken[n] = Boots!Cardinality({row_ \in tracker : row_.name = n /\ n \notin promoted})
  <2> DEFINE S == {row_ \in tracker : row_.name = n /\ n \notin promoted}
  <2>1. taken[n] = IF n \notin promoted /\ \E row_ \in tracker : row_.name = n THEN 1 ELSE 0
    BY DEF MigrationInv, TakenOnce
  <2>2. CASE n \notin promoted /\ \E row_ \in tracker : row_.name = n
    <3>1. PICK row_ \in tracker : row_.name = n
      BY <2>2
    <3>2. S = {row_}
      BY <2>2, <3>1 DEF MigrationInv, TrackerIsAList, Boots!Clashes
    <3>3. Boots!Cardinality(S) = 1
      <4> HIDE DEF S
      <4> QED BY <3>2, FS_Singleton, MigrationCardinality
    <3> QED BY <2>1, <2>2, <3>3
  <2>3. CASE ~(n \notin promoted /\ \E row_ \in tracker : row_.name = n)
    <3>1. S = {}
      BY <2>3
    <3>2. Boots!Cardinality(S) = 0
      <4> HIDE DEF S
      <4> QED BY <3>1, FS_EmptySet, MigrationCardinality
    <3> QED BY <2>1, <2>3, <3>2
  <2> QED BY <2>2, <2>3
<1> QED BY <1>2, <1>3 DEF SchemaIsWhatWasRecorded, Boots!SchemaIsWhatWasRecorded

(***************************************************************************)
(* A process that serves runs over its own migrations, all of them, in     *)
(* their order and before any other, and the committed schema took the     *)
(* body of a migration once if a build recorded it and never if not: for   *)
(* any processes and builds, however many boots race, fail or crash.       *)
(***************************************************************************)
THEOREM SchemaIsAsRecorded == ServerParts => []SchemaIsWhatWasRecorded
<1>1. ServerInit => MigrationInv
  BY MigrationsBegin DEF ServerInit
<1>2. MigrationInv /\ [ServerNext]_server_vars => MigrationInv'
  <2> SUFFICES ASSUME MigrationInv, [ServerNext]_server_vars PROVE MigrationInv'
    OBVIOUS
  <2>1. Boots!MigrationsNext \/ UNCHANGED migration_vars
    BY DEF ServerNext, server_vars
  <2>2. CASE UNCHANGED migration_vars
    <3>1. UNCHANGED Boots!MigrationNames
      BY DEF Boots!MigrationNames
    <3> QED BY <2>2, <3>1 DEF migration_vars, MigrationInv, MigrationTypes, TrackerIsAList,
               TakenOnce, WritesItsTail, HasItsSchema, BootsApart, Written, Reached
  <2>3. CASE Boots!MigrationsNext
    BY <2>3, MigrationsMove
  <2> QED BY <2>1, <2>2, <2>3
<1>3. MigrationInv => SchemaIsWhatWasRecorded
  BY SchemaIsRecorded
<1> QED BY <1>1, <1>2, <1>3, PTL DEF ServerParts

-----------------------------------------------------------------------------
(***************************************************************************)
(* Audit rows.  A success row is announced by the effect that waits for    *)
(* it, and by no other: until that has run nobody has heard the row, and   *)
(* then everybody has who was there.                                       *)
(***************************************************************************)
DeliveryPcs == {"received", "handler", "flush", "flushing", "done"}

DeliveryRequests ==
  [pc : DeliveryPcs, tx : BOOLEAN, queue : SUBSET Nat, awaiting : SUBSET Nat, failed : BOOLEAN]

AuditRows ==
  [by : AuditRequests, outcome : {"success", "failure"},
   at : {"transaction", "writing", "landed", "written", "gone", "unheard"},
   to : SUBSET Listeners]

DeliveryTypes ==
  /\ audited \in [AuditRequests -> DeliveryRequests]
  /\ rows \in Seq(AuditRows) /\ heard \in Seq([Listeners -> Nat]) /\ Len(heard) = Len(rows)
  /\ listeners \subseteq Listeners /\ listeners \cap fresh = {}

\* The success rows of a request, and whether the effect that will announce one is queued.
Successes(r) == {i \in DOMAIN rows : rows[i].by = r /\ rows[i].outcome = "success"}
Awaited(i) == i \in audited[rows[i].by].queue \cup audited[rows[i].by].awaiting

QueuesFit(r) ==
  /\ audited[r].queue # {} => audited[r].pc \in {"handler", "flush"} /\ ~audited[r].failed
  /\ audited[r].awaiting # {} =>
       audited[r].pc = "flushing" /\ ~audited[r].failed /\ ~audited[r].tx
  /\ audited[r].queue \subseteq Successes(r) \cup {Delivery!ThrowingEffect}
  /\ audited[r].awaiting \subseteq Successes(r)
  /\ audited[r].failed => audited[r].pc \in {"flush", "flushing", "done"}

WriteFits(i) ==
  LET q == audited[rows[i].by] IN
  /\ q.pc # "received"
  /\ rows[i].at = "transaction" => q.pc = "handler"
  /\ rows[i].outcome = "failure" => rows[i].at # "transaction"
  /\ rows[i].outcome = "success" /\ q.tx =>
       /\ rows[i].at \notin {"writing", "landed"}
       /\ q.pc = "handler" => rows[i].at = "transaction"
       /\ q.pc = "flush" /\ ~q.failed => rows[i].at = "written"
  /\ ~q.tx => rows[i].at # "transaction"
  /\ q.pc = "done" => rows[i].at \notin {"writing", "landed"}

HeardFits(i) ==
  LET q == audited[rows[i].by] IN
  /\ rows[i].to \cap fresh = {}
  /\ \A l \in Listeners :
       heard[i][l] \in {0, 1} /\ (heard[i][l] = 1 => rows[i].at = "written" /\ ~Awaited(i))
  /\ rows[i].outcome = "failure" /\ rows[i].at = "written" =>
       \A l \in rows[i].to \cap listeners : heard[i][l] = 1
  /\ rows[i].outcome = "success" /\ ~q.failed /\ ~Awaited(i) =>
       /\ rows[i].at \in {"written", "gone", "unheard"}
       /\ rows[i].at = "written" => \A l \in rows[i].to \cap listeners : heard[i][l] = 1

DeliveryInv ==
  /\ DeliveryTypes
  /\ \A r \in AuditRequests : QueuesFit(r)
  /\ \A i \in DOMAIN rows : WriteFits(i) /\ HeardFits(i)

LEMMA RowFields ==
  ASSUME DeliveryTypes
  PROVE  /\ Len(rows) \in Nat /\ DOMAIN rows = 1 .. Len(rows) /\ DOMAIN heard = DOMAIN rows
         /\ \A i \in DOMAIN rows : rows[i] \in AuditRows /\ heard[i] \in [Listeners -> Nat]
<1>1. rows \in Seq(AuditRows) /\ heard \in Seq([Listeners -> Nat]) /\ Len(heard) = Len(rows)
  BY DEF DeliveryTypes
<1>2. /\ Len(rows) \in Nat /\ DOMAIN rows = 1 .. Len(rows) /\ rows \in [1 .. Len(rows) -> AuditRows]
      /\ DOMAIN heard = 1 .. Len(heard) /\ heard \in [1 .. Len(heard) -> [Listeners -> Nat]]
  BY <1>1, LenProperties
<1> QED BY <1>1, <1>2

\* A row is as right as it was if its request is where it was.
LEMMA RowStands ==
  ASSUME DeliveryInv, NEW i \in DOMAIN rows,
         rows'[i] = rows[i], heard'[i] = heard[i],
         listeners' \subseteq listeners \cup fresh, fresh' \subseteq fresh,
         LET q == audited[rows[i].by]
             n == audited'[rows[i].by]
         IN  /\ n.pc = q.pc /\ n.tx = q.tx /\ n.failed = q.failed
             /\ (i \in n.queue \cup n.awaiting <=> i \in q.queue \cup q.awaiting)
  PROVE  WriteFits(i)' /\ HeardFits(i)'
<1>1. WriteFits(i) /\ HeardFits(i)
  BY DEF DeliveryInv
<1>2. Awaited(i)' <=> Awaited(i)
  BY DEF Awaited
<1>3. WriteFits(i)'
  BY <1>1 DEF WriteFits
<1>4. HeardFits(i)'
  BY <1>1, <1>2 DEF HeardFits
<1> QED BY <1>3, <1>4

LEMMA DeliveryBegins == ASSUME Delivery!AuditInit PROVE DeliveryInv
<1>1. rows = <<>> /\ heard = <<>> /\ DOMAIN rows = {}
  BY DEF Delivery!AuditInit
<1>2. rows \in Seq(AuditRows) /\ heard \in Seq([Listeners -> Nat])
  BY <1>1, EmptySeq
<1>3. /\ listeners = Listeners \ Late /\ fresh = Late
      /\ audited = [r \in AuditRequests |->
            [pc |-> "received", tx |-> FALSE, queue |-> {}, awaiting |-> {}, failed |-> FALSE]]
  BY DEF Delivery!AuditInit
<1>4. DeliveryTypes
  BY <1>1, <1>2, <1>3 DEF DeliveryTypes, DeliveryRequests, DeliveryPcs
<1>5. \A r \in AuditRequests : QueuesFit(r)
  BY <1>3 DEF QueuesFit
<1> QED BY <1>1, <1>4, <1>5 DEF DeliveryInv

\* Only one request goes on.
OthersStay(f, g, r) ==
  /\ f \in [AuditRequests -> DeliveryRequests] /\ g \in [AuditRequests -> DeliveryRequests]
  /\ \A q \in AuditRequests \ {r} : g[q] = f[q]

\* A field of a request changes.
PcSet(f, r, value) == [f EXCEPT ![r].pc = value]
TxSet(f, r, value) == [f EXCEPT ![r].tx = value]
QueueSet(f, r, value) == [f EXCEPT ![r].queue = value]
AwaitingSet(f, r, value) == [f EXCEPT ![r].awaiting = value]
FailedSet(f, r, value) == [f EXCEPT ![r].failed = value]

LEMMA PcChanges ==
  ASSUME NEW f \in [AuditRequests -> DeliveryRequests], NEW r \in AuditRequests,
         NEW value \in DeliveryPcs, NEW g, g = PcSet(f, r, value)
  PROVE  /\ OthersStay(f, g, r) /\ g[r].pc = value
         /\ g[r].tx = f[r].tx /\ g[r].queue = f[r].queue /\ g[r].awaiting = f[r].awaiting /\ g[r].failed = f[r].failed
<1> DEFINE new ==
         [pc |-> value, tx |-> f[r].tx, queue |-> f[r].queue,
          awaiting |-> f[r].awaiting, failed |-> f[r].failed]
<1>1. PICK q \in DeliveryRequests : q = f[r]
  OBVIOUS
<1>2. [q EXCEPT !.pc = value] = new
  BY <1>1 DEF DeliveryRequests
<1>3. /\ new \in DeliveryRequests /\ new.pc = value
      /\ new.tx = f[r].tx /\ new.queue = f[r].queue /\ new.awaiting = f[r].awaiting /\ new.failed = f[r].failed
  BY <1>1 DEF DeliveryRequests
<1> HIDE DEF new
<1>4. g = [f EXCEPT ![r] = new]
  BY <1>1, <1>2, Zenon DEF PcSet
<1>5. g[r] = new
  BY <1>4
<1>6. OthersStay(f, g, r)
  BY <1>3, <1>4 DEF OthersStay
<1> QED BY <1>3, <1>5, <1>6, Zenon

LEMMA TxChanges ==
  ASSUME NEW f \in [AuditRequests -> DeliveryRequests], NEW r \in AuditRequests,
         NEW value \in BOOLEAN, NEW g, g = TxSet(f, r, value)
  PROVE  /\ OthersStay(f, g, r) /\ g[r].tx = value
         /\ g[r].pc = f[r].pc /\ g[r].queue = f[r].queue /\ g[r].awaiting = f[r].awaiting /\ g[r].failed = f[r].failed
<1> DEFINE new ==
         [pc |-> f[r].pc, tx |-> value, queue |-> f[r].queue,
          awaiting |-> f[r].awaiting, failed |-> f[r].failed]
<1>1. PICK q \in DeliveryRequests : q = f[r]
  OBVIOUS
<1>2. [q EXCEPT !.tx = value] = new
  BY <1>1 DEF DeliveryRequests
<1>3. /\ new \in DeliveryRequests /\ new.tx = value
      /\ new.pc = f[r].pc /\ new.queue = f[r].queue /\ new.awaiting = f[r].awaiting /\ new.failed = f[r].failed
  BY <1>1 DEF DeliveryRequests
<1> HIDE DEF new
<1>4. g = [f EXCEPT ![r] = new]
  BY <1>1, <1>2, Zenon DEF TxSet
<1>5. g[r] = new
  BY <1>4
<1>6. OthersStay(f, g, r)
  BY <1>3, <1>4 DEF OthersStay
<1> QED BY <1>3, <1>5, <1>6, Zenon

LEMMA QueueChanges ==
  ASSUME NEW f \in [AuditRequests -> DeliveryRequests], NEW r \in AuditRequests,
         NEW value \in SUBSET Nat, NEW g, g = QueueSet(f, r, value)
  PROVE  /\ OthersStay(f, g, r) /\ g[r].queue = value
         /\ g[r].pc = f[r].pc /\ g[r].tx = f[r].tx /\ g[r].awaiting = f[r].awaiting /\ g[r].failed = f[r].failed
<1> DEFINE new ==
         [pc |-> f[r].pc, tx |-> f[r].tx, queue |-> value,
          awaiting |-> f[r].awaiting, failed |-> f[r].failed]
<1>1. PICK q \in DeliveryRequests : q = f[r]
  OBVIOUS
<1>2. [q EXCEPT !.queue = value] = new
  BY <1>1 DEF DeliveryRequests
<1>3. /\ new \in DeliveryRequests /\ new.queue = value
      /\ new.pc = f[r].pc /\ new.tx = f[r].tx /\ new.awaiting = f[r].awaiting /\ new.failed = f[r].failed
  BY <1>1 DEF DeliveryRequests
<1> HIDE DEF new
<1>4. g = [f EXCEPT ![r] = new]
  BY <1>1, <1>2, Zenon DEF QueueSet
<1>5. g[r] = new
  BY <1>4
<1>6. OthersStay(f, g, r)
  BY <1>3, <1>4 DEF OthersStay
<1> QED BY <1>3, <1>5, <1>6, Zenon

LEMMA AwaitingChanges ==
  ASSUME NEW f \in [AuditRequests -> DeliveryRequests], NEW r \in AuditRequests,
         NEW value \in SUBSET Nat, NEW g, g = AwaitingSet(f, r, value)
  PROVE  /\ OthersStay(f, g, r) /\ g[r].awaiting = value
         /\ g[r].pc = f[r].pc /\ g[r].tx = f[r].tx /\ g[r].queue = f[r].queue /\ g[r].failed = f[r].failed
<1> DEFINE new ==
         [pc |-> f[r].pc, tx |-> f[r].tx, queue |-> f[r].queue,
          awaiting |-> value, failed |-> f[r].failed]
<1>1. PICK q \in DeliveryRequests : q = f[r]
  OBVIOUS
<1>2. [q EXCEPT !.awaiting = value] = new
  BY <1>1 DEF DeliveryRequests
<1>3. /\ new \in DeliveryRequests /\ new.awaiting = value
      /\ new.pc = f[r].pc /\ new.tx = f[r].tx /\ new.queue = f[r].queue /\ new.failed = f[r].failed
  BY <1>1 DEF DeliveryRequests
<1> HIDE DEF new
<1>4. g = [f EXCEPT ![r] = new]
  BY <1>1, <1>2, Zenon DEF AwaitingSet
<1>5. g[r] = new
  BY <1>4
<1>6. OthersStay(f, g, r)
  BY <1>3, <1>4 DEF OthersStay
<1> QED BY <1>3, <1>5, <1>6, Zenon

LEMMA FailedChanges ==
  ASSUME NEW f \in [AuditRequests -> DeliveryRequests], NEW r \in AuditRequests,
         NEW value \in BOOLEAN, NEW g, g = FailedSet(f, r, value)
  PROVE  /\ OthersStay(f, g, r) /\ g[r].failed = value
         /\ g[r].pc = f[r].pc /\ g[r].tx = f[r].tx /\ g[r].queue = f[r].queue /\ g[r].awaiting = f[r].awaiting
<1> DEFINE new ==
         [pc |-> f[r].pc, tx |-> f[r].tx, queue |-> f[r].queue,
          awaiting |-> f[r].awaiting, failed |-> value]
<1>1. PICK q \in DeliveryRequests : q = f[r]
  OBVIOUS
<1>2. [q EXCEPT !.failed = value] = new
  BY <1>1 DEF DeliveryRequests
<1>3. /\ new \in DeliveryRequests /\ new.failed = value
      /\ new.pc = f[r].pc /\ new.tx = f[r].tx /\ new.queue = f[r].queue /\ new.awaiting = f[r].awaiting
  BY <1>1 DEF DeliveryRequests
<1> HIDE DEF new
<1>4. g = [f EXCEPT ![r] = new]
  BY <1>1, <1>2, Zenon DEF FailedSet
<1>5. g[r] = new
  BY <1>4
<1>6. OthersStay(f, g, r)
  BY <1>3, <1>4 DEF OthersStay
<1> QED BY <1>3, <1>5, <1>6, Zenon

\* The fields of a request.
LEMMA RequestFields ==
  ASSUME DeliveryInv, NEW r \in AuditRequests
  PROVE  /\ audited[r] \in DeliveryRequests
         /\ audited[r] = [pc |-> audited[r].pc, tx |-> audited[r].tx,
                          queue |-> audited[r].queue, awaiting |-> audited[r].awaiting,
                          failed |-> audited[r].failed]
         /\ audited[r].pc \in DeliveryPcs
         /\ audited[r].queue \subseteq Nat /\ audited[r].awaiting \subseteq Nat
         /\ audited[r].tx \in BOOLEAN /\ audited[r].failed \in BOOLEAN
<1>1. audited[r] \in DeliveryRequests
  BY DEF DeliveryInv, DeliveryTypes
<1> QED BY <1>1 DEF DeliveryRequests

\* A request that has no rows, or goes on where its rows are as they may be.
LEMMA QuietMoves ==
  ASSUME DeliveryInv, NEW r \in AuditRequests, OthersStay(audited, audited', r),
         UNCHANGED <<rows, listeners, heard, fresh>>,
         QueuesFit(r)',
         \A i \in DOMAIN rows : rows[i].by = r =>
           /\ audited'[r].tx = audited[r].tx /\ audited'[r].failed = audited[r].failed
           /\ i \in audited'[r].queue \cup audited'[r].awaiting <=> Awaited(i)
           /\ WriteFits(i)'
  PROVE  DeliveryInv'
<1>1. /\ audited' \in [AuditRequests -> DeliveryRequests]
      /\ \A q \in AuditRequests \ {r} : audited'[q] = audited[q]
  BY DEF OthersStay
<1>2. DeliveryTypes'
  BY <1>1 DEF DeliveryInv, DeliveryTypes
<1>3. ASSUME NEW q \in AuditRequests PROVE QueuesFit(q)'
  <2>1. Successes(q)' = Successes(q)
    BY DEF Successes
  <2>2. CASE q # r
    BY <1>1, <2>1, <2>2 DEF DeliveryInv, QueuesFit
  <2> QED BY <2>2
<1>4. ASSUME NEW i \in DOMAIN rows PROVE WriteFits(i)' /\ HeardFits(i)'
  <2>1. rows[i].by \in AuditRequests
    BY RowFields DEF DeliveryInv, AuditRows
  <2>2. CASE rows[i].by # r
    <3>1. audited'[rows[i].by] = audited[rows[i].by]
      BY <1>1, <2>1, <2>2
    <3> QED BY <3>1, RowStands
  <2>3. CASE rows[i].by = r
    <3>1. Awaited(i)' <=> Awaited(i)
      BY <1>1, <2>3 DEF Awaited
    <3>2. HeardFits(i) /\ audited'[r].failed = audited[r].failed
      BY <1>1, <2>3 DEF DeliveryInv
    <3>3. HeardFits(i)'
      BY <2>3, <3>1, <3>2 DEF HeardFits
    <3> QED BY <2>3, <3>3
  <2> QED BY <2>2, <2>3
<1> QED BY <1>2, <1>3, <1>4 DEF DeliveryInv


\* A request is refused, or comes to its handler.
LEMMA RequestsArrive ==
  ASSUME DeliveryInv, NEW r \in AuditRequests,
         Delivery!Refuse(r) \/ \E tx \in BOOLEAN : Delivery!Enter(r, tx)
  PROVE  DeliveryInv'
<1> DEFINE q == audited[r]
<1>1. q.pc = "received" /\ UNCHANGED <<rows, listeners, heard, fresh>>
  BY DEF Delivery!Refuse, Delivery!Enter
<1>2. QueuesFit(r)
  BY DEF DeliveryInv
<1>3. q.queue = {} /\ q.awaiting = {} /\ ~q.failed
  BY <1>1, <1>2 DEF QueuesFit
<1>4. \A i \in DOMAIN rows : rows[i].by # r
  BY <1>1 DEF DeliveryInv, WriteFits
<1>5. /\ audited \in [AuditRequests -> DeliveryRequests]
      /\ "done" \in DeliveryPcs /\ "handler" \in DeliveryPcs
  BY DEF DeliveryInv, DeliveryTypes, DeliveryPcs
<1>6. OthersStay(audited, audited', r) /\ audited'[r].queue = {} /\ audited'[r].awaiting = {}
      /\ ~audited'[r].failed
  <2>1. CASE Delivery!Refuse(r)
    <3>1. audited' = PcSet(audited, r, "done")
      BY <2>1, Zenon DEF Delivery!Refuse, PcSet
    <3> QED BY <1>3, <1>5, <3>1, PcChanges
  <2>2. ASSUME NEW tx \in BOOLEAN, Delivery!Enter(r, tx)
        PROVE  OthersStay(audited, audited', r) /\ audited'[r].queue = {}
               /\ audited'[r].awaiting = {} /\ ~audited'[r].failed
    <3>1. PICK one : one = PcSet(audited, r, "handler")
      OBVIOUS
    <3>2. OthersStay(audited, one, r) /\ one[r].queue = {} /\ one[r].awaiting = {}
          /\ ~one[r].failed
      BY <1>3, <1>5, <3>1, PcChanges
    <3>3. audited' = TxSet(one, r, tx)
      BY <2>2, <3>1, Zenon DEF Delivery!Enter, PcSet, TxSet
    <3>4. one \in [AuditRequests -> DeliveryRequests]
      BY <3>2 DEF OthersStay
    <3>5. OthersStay(one, audited', r) /\ audited'[r].queue = {} /\ audited'[r].awaiting = {}
          /\ ~audited'[r].failed
      BY <3>2, <3>3, <3>4, TxChanges
    <3> QED BY <3>2, <3>5 DEF OthersStay
  <2> QED BY <2>1, <2>2
<1>7. QueuesFit(r)'
  BY <1>6 DEF QueuesFit
<1> QED BY <1>1, <1>4, <1>6, <1>7, QuietMoves

\* An effect other than an announcement is queued, and a request whose effects have settled
\* is over.
LEMMA RequestsQueueAndEnd ==
  ASSUME DeliveryInv, NEW r \in AuditRequests, Delivery!QueueEffect(r) \/ Delivery!Flushed(r)
  PROVE  DeliveryInv'
<1> DEFINE q == audited[r]
<1>1. UNCHANGED <<rows, listeners, heard, fresh>> /\ Successes(r)' = Successes(r)
  BY DEF Delivery!QueueEffect, Delivery!Flushed, Successes
<1>2. QueuesFit(r) /\ q \in DeliveryRequests /\ q.queue \subseteq Nat
  BY RequestFields DEF DeliveryInv
<1>5. audited \in [AuditRequests -> DeliveryRequests]
  BY DEF DeliveryInv, DeliveryTypes
<1>3. CASE Delivery!QueueEffect(r)
  <2>1. q.queue \cup {0} \in SUBSET Nat
    BY <1>2
  <2>2. audited' = QueueSet(audited, r, q.queue \cup {0}) /\ q.pc = "handler"
    BY <1>3, Zenon DEF Delivery!QueueEffect, Delivery!ThrowingEffect, QueueSet
  <2>3. /\ OthersStay(audited, audited', r) /\ audited'[r].queue = q.queue \cup {0}
        /\ audited'[r].pc = q.pc /\ audited'[r].tx = q.tx
        /\ audited'[r].awaiting = q.awaiting /\ audited'[r].failed = q.failed
    BY <1>5, <2>1, <2>2, QueueChanges
  <2> HIDE DEF q
  <2>4. QueuesFit(r)'
    BY <1>1, <1>2, <2>2, <2>3 DEF QueuesFit, Delivery!ThrowingEffect, q
  <2>5. ASSUME NEW i \in DOMAIN rows, rows[i].by = r
        PROVE  (i \in audited'[r].queue \cup audited'[r].awaiting <=> Awaited(i))
               /\ WriteFits(i)'
    <3>1. i # 0
      BY <2>5, RowFields DEF DeliveryInv
    <3>2. WriteFits(i)
      BY DEF DeliveryInv
    <3> QED BY <1>1, <2>3, <2>5, <3>1, <3>2 DEF Awaited, WriteFits, q
  <2> QED BY <1>1, <2>3, <2>4, <2>5, QuietMoves DEF q
<1>4. CASE Delivery!Flushed(r)
  <2>1. /\ audited' = PcSet(audited, r, "done")
        /\ "done" \in DeliveryPcs
    BY <1>4, Zenon DEF Delivery!Flushed, DeliveryPcs, PcSet
  <2>2. q.pc = "flushing" /\ q.awaiting = {}
        /\ \A i \in DOMAIN rows : rows[i].by = r => rows[i].at \notin {"writing", "landed"}
    BY <1>4 DEF Delivery!Flushed, Delivery!RowsOf, Delivery!Row
  <2>3. /\ OthersStay(audited, audited', r) /\ audited'[r].queue = q.queue
        /\ audited'[r].pc = "done" /\ audited'[r].tx = q.tx
        /\ audited'[r].awaiting = q.awaiting /\ audited'[r].failed = q.failed
    BY <1>5, <2>1, PcChanges
  <2> HIDE DEF q
  <2>4. QueuesFit(r)'
    BY <1>1, <1>2, <2>2, <2>3 DEF QueuesFit, q
  <2>5. ASSUME NEW i \in DOMAIN rows, rows[i].by = r
        PROVE  (i \in audited'[r].queue \cup audited'[r].awaiting <=> Awaited(i))
               /\ WriteFits(i)'
    <3>1. WriteFits(i)
      BY DEF DeliveryInv
    <3> QED BY <1>1, <2>2, <2>3, <2>5, <3>1 DEF Awaited, WriteFits, q
  <2> QED BY <1>1, <2>3, <2>4, <2>5, QuietMoves DEF q
<1> QED BY <1>3, <1>4

\* A listener leaves, or comes: it is not among those that a row of before waits for.
LEMMA ListenersChange ==
  ASSUME DeliveryInv, NEW l \in Listeners, Delivery!RemoveListener(l) \/ Delivery!AddListener(l)
  PROVE  DeliveryInv'
<1>1. /\ UNCHANGED <<audited, rows, heard>> /\ fresh' \subseteq fresh
      /\ listeners' \subseteq listeners \cup fresh /\ listeners' \subseteq Listeners
      /\ listeners' \cap fresh' = {}
  BY DEF Delivery!RemoveListener, Delivery!AddListener, DeliveryInv, DeliveryTypes
<1>2. DeliveryTypes'
  BY <1>1 DEF DeliveryInv, DeliveryTypes
<1>3. \A r \in AuditRequests : QueuesFit(r)'
  BY <1>1 DEF DeliveryInv, QueuesFit, Successes
<1>4. \A i \in DOMAIN rows : WriteFits(i)' /\ HeardFits(i)'
  BY <1>1, RowStands
<1> QED BY <1>1, <1>2, <1>3, <1>4 DEF DeliveryInv

\* A row is emitted: nobody has heard it, and an effect waits for it if it is a success.
LEMMA RowsAreEmitted ==
  ASSUME DeliveryInv, NEW r \in AuditRequests,
         Delivery!EmitFailure(r) \/ Delivery!EmitSuccess(r)
  PROVE  DeliveryInv'
<1> DEFINE q == audited[r]
<1>0. PICK n : n = Len(rows) + 1
  OBVIOUS
<1>1. PICK new : /\ rows' = Append(rows, new) /\ new.by = r /\ new.to = listeners
                 /\ new \in AuditRows
                 /\ \/ /\ Delivery!EmitFailure(r) /\ new.outcome = "failure" /\ new.at = "writing"
                    \/ /\ Delivery!EmitSuccess(r) /\ new.outcome = "success"
                       /\ q.tx => new.at = "transaction"
                       /\ ~q.tx => new.at = "writing"
  <2>1. CASE Delivery!EmitFailure(r)
    BY <2>1 DEF Delivery!EmitFailure, Delivery!Emitted, AuditRows, DeliveryInv, DeliveryTypes
  <2>2. CASE Delivery!EmitSuccess(r)
    <3>1. CASE q.tx
      BY <2>2, <3>1 DEF Delivery!EmitSuccess, Delivery!Emitted, AuditRows, DeliveryInv, DeliveryTypes
    <3>2. CASE ~q.tx
      <4>1. rows' = Append(rows, [by |-> r, outcome |-> "success", at |-> "writing",
                                  to |-> listeners])
        BY <2>2, <3>2, Zenon DEF Delivery!EmitSuccess, Delivery!Emitted
      <4> QED BY <2>2, <3>2, <4>1 DEF AuditRows, DeliveryInv, DeliveryTypes
    <3> QED BY <3>1, <3>2
  <2> QED BY <2>1, <2>2
<1>2. PICK untold : /\ heard' = Append(heard, untold) /\ untold \in [Listeners -> Nat]
                      /\ \A l \in Listeners : untold[l] = 0
  BY DEF Delivery!EmitFailure, Delivery!EmitSuccess, Delivery!Emitted
<1>3. /\ DOMAIN rows = 1 .. Len(rows) /\ Len(rows) \in Nat /\ Len(heard) = Len(rows)
      /\ rows \in Seq(AuditRows) /\ heard \in Seq([Listeners -> Nat])
  BY RowFields DEF DeliveryInv, DeliveryTypes
<1>4. /\ rows' \in Seq(AuditRows) /\ heard' \in Seq([Listeners -> Nat])
      /\ Len(rows') = n /\ Len(heard') = n /\ DOMAIN rows' = 1 .. n
      /\ rows'[n] = new /\ heard'[n] = untold
      /\ \A i \in 1 .. Len(rows) : rows'[i] = rows[i] /\ heard'[i] = heard[i]
  BY <1>1, <1>2, <1>3, <1>0, AppendProperties, LenProperties
<1>5. n \notin DOMAIN rows /\ DOMAIN rows' = DOMAIN rows \cup {n} /\ n \in Nat
  BY <1>0, <1>3, <1>4
<1>6. UNCHANGED <<listeners, fresh>> /\ q.pc = "handler" /\ q \in DeliveryRequests
      /\ q.queue \subseteq Nat /\ audited \in [AuditRequests -> DeliveryRequests]
  BY RequestFields DEF Delivery!EmitFailure, Delivery!EmitSuccess, DeliveryInv, DeliveryTypes
<1>7. /\ OthersStay(audited, audited', r)
      /\ audited'[r].pc = q.pc /\ audited'[r].tx = q.tx /\ audited'[r].failed = q.failed
      /\ audited'[r].awaiting = q.awaiting
      /\ audited'[r].queue = IF new.outcome = "success" THEN q.queue \cup {n} ELSE q.queue
  <2>1. CASE Delivery!EmitFailure(r) /\ new.outcome = "failure"
    BY <1>6, <2>1 DEF Delivery!EmitFailure, OthersStay
  <2>2. CASE Delivery!EmitSuccess(r) /\ new.outcome = "success"
    <3>1. audited' = QueueSet(audited, r, q.queue \cup {n})
      BY <1>0, <2>2, Zenon DEF Delivery!EmitSuccess, QueueSet
    <3>2. q.queue \cup {n} \in SUBSET Nat
      BY <1>5, <1>6
    <3> QED BY <1>6, <2>2, <3>1, <3>2, QueueChanges
  <2> QED BY <1>1, <2>1, <2>2
<1> HIDE DEF q
<1>8. DeliveryTypes'
  BY <1>4, <1>6, <1>7 DEF DeliveryInv, DeliveryTypes, OthersStay
<1>9. ASSUME NEW o \in AuditRequests PROVE QueuesFit(o)'
  <2>1. Successes(o) \subseteq Successes(o)' /\ (new.outcome = "success" => n \in Successes(r)')
    BY <1>1, <1>3, <1>4, <1>5 DEF Successes
  <2>2. QueuesFit(o)
    BY DEF DeliveryInv
  <2>3. CASE o # r
    BY <1>7, <2>1, <2>2, <2>3 DEF QueuesFit, OthersStay
  <2>4. CASE o = r
    BY <1>6, <1>7, <2>1, <2>2, <2>4 DEF QueuesFit, q
  <2> QED BY <2>3, <2>4
<1>10. ASSUME NEW i \in DOMAIN rows PROVE WriteFits(i)' /\ HeardFits(i)'
  <2>1. rows'[i] = rows[i] /\ heard'[i] = heard[i] /\ i # n
    BY <1>3, <1>4, <1>5
  <2>2. rows[i].by \in AuditRequests
    BY RowFields DEF DeliveryInv, AuditRows
  <2>3. CASE rows[i].by # r
    BY <1>6, <1>7, <2>1, <2>2, <2>3, RowStands DEF OthersStay
  <2>4. CASE rows[i].by = r
    BY <1>6, <1>7, <2>1, <2>2, <2>4, RowStands DEF q
  <2> QED BY <2>3, <2>4
<1>11. WriteFits(n)' /\ HeardFits(n)'
  <2>1. listeners \cap fresh = {} /\ QueuesFit(r)
    BY DEF DeliveryInv, DeliveryTypes
  <2>2. ~q.failed
    BY <1>6, <2>1 DEF QueuesFit, q
  <2>3. Awaited(n)' <=> n \in audited'[r].queue \cup audited'[r].awaiting
    BY <1>1, <1>4 DEF Awaited
  <2>4. WriteFits(n)'
    BY <1>1, <1>4, <1>6, <1>7 DEF WriteFits, q
  <2>5. HeardFits(n)'
    BY <1>1, <1>2, <1>4, <1>6, <1>7, <2>1, <2>3 DEF HeardFits
  <2> QED BY <2>4, <2>5
<1> QED BY <1>5, <1>8, <1>9, <1>10, <1>11 DEF DeliveryInv

\* A list by its elements.
LEMMA ListOf ==
  ASSUME NEW S, NEW n \in Nat, NEW f, DOMAIN f = 1 .. n, f = [i \in 1 .. n |-> f[i]],
         \A i \in 1 .. n : f[i] \in S
  PROVE  f \in Seq(S) /\ Len(f) = n
<1>1. f \in [1 .. n -> S]
  OBVIOUS
<1> QED BY <1>1

\* The writes go on of some rows, and the rest of each stays as it is.
WritesMove(moved) ==
  /\ rows' \in Seq(AuditRows) /\ Len(rows') = Len(rows) /\ DOMAIN rows' = DOMAIN rows
  /\ \A i \in DOMAIN rows :
       rows'[i].by = rows[i].by /\ rows'[i].outcome = rows[i].outcome /\ rows'[i].to = rows[i].to
  /\ \A i \in DOMAIN rows \ moved : rows'[i] = rows[i]

LEMMA TransactionsSettle ==
  ASSUME DeliveryInv, NEW r \in AuditRequests, NEW at \in {"written", "gone", "unheard"},
         Delivery!Settle(r, at)
  PROVE  /\ WritesMove({i \in DOMAIN rows : rows[i].by = r /\ rows[i].at = "transaction"})
         /\ \A i \in DOMAIN rows :
              rows[i].by = r /\ rows[i].at = "transaction" => rows'[i].at = at
<1> DEFINE moves(i) == rows[i].by = r /\ rows[i].at = "transaction"
<1>1. /\ Len(rows) \in Nat /\ DOMAIN rows = 1 .. Len(rows)
      /\ \A i \in DOMAIN rows : rows[i] \in AuditRows
  BY RowFields DEF DeliveryInv
<1>2. rows' = [i \in DOMAIN rows |-> IF moves(i) THEN [rows[i] EXCEPT !.at = at] ELSE rows[i]]
  BY DEF Delivery!Settle, Delivery!Row
<1>3. ASSUME NEW i \in DOMAIN rows
      PROVE  /\ rows'[i] \in AuditRows /\ rows'[i].by = rows[i].by
             /\ rows'[i].outcome = rows[i].outcome /\ rows'[i].to = rows[i].to
             /\ moves(i) => rows'[i].at = at
             /\ ~moves(i) => rows'[i] = rows[i]
  <2>1. rows[i] \in AuditRows
    BY <1>1
  <2>2. CASE moves(i)
    <3>1. rows'[i] = [rows[i] EXCEPT !.at = at]
      BY <1>2, <2>2
    <3>2. [rows[i] EXCEPT !.at = at] =
            [by |-> rows[i].by, outcome |-> rows[i].outcome, at |-> at, to |-> rows[i].to]
      BY <2>1 DEF AuditRows
    <3> QED BY <2>1, <2>2, <3>1, <3>2 DEF AuditRows
  <2>3. CASE ~moves(i)
    BY <1>2, <2>1, <2>3
  <2> QED BY <2>2, <2>3
<1>4. DOMAIN rows' = DOMAIN rows /\ rows' = [i \in DOMAIN rows |-> rows'[i]]
  BY <1>2
<1> HIDE DEF moves
<1>5. rows' \in Seq(AuditRows) /\ Len(rows') = Len(rows)
  BY <1>1, <1>3, <1>4, ListOf
<1> QED BY <1>3, <1>4, <1>5 DEF WritesMove, moves

LEMMA OneWriteMoves ==
  ASSUME DeliveryInv, NEW i \in DOMAIN rows,
         NEW at \in {"landed", "written", "gone", "unheard"},
         rows' = [rows EXCEPT ![i].at = at]
  PROVE  WritesMove({i}) /\ rows'[i].at = at
<1>1. /\ Len(rows) \in Nat /\ DOMAIN rows = 1 .. Len(rows)
      /\ \A j \in DOMAIN rows : rows[j] \in AuditRows
  BY RowFields DEF DeliveryInv
<1> DEFINE new == [by |-> rows[i].by, outcome |-> rows[i].outcome, at |-> at, to |-> rows[i].to]
<1>2. [rows[i] EXCEPT !.at = at] = new
  BY <1>1 DEF AuditRows
<1>3. /\ new \in AuditRows /\ new.at = at /\ new.by = rows[i].by
      /\ new.outcome = rows[i].outcome /\ new.to = rows[i].to
  BY <1>1 DEF AuditRows
<1> HIDE DEF new
<1>4. rows' = [rows EXCEPT ![i] = new]
  BY <1>2, Zenon
<1>5. rows \in [1 .. Len(rows) -> AuditRows]
  BY LenProperties DEF DeliveryInv, DeliveryTypes
<1>6. /\ DOMAIN rows' = 1 .. Len(rows) /\ rows' = [j \in 1 .. Len(rows) |-> rows'[j]]
      /\ rows'[i] = new /\ \A j \in DOMAIN rows \ {i} : rows'[j] = rows[j]
  BY <1>1, <1>4, <1>5
<1>7. \A j \in 1 .. Len(rows) : rows'[j] \in AuditRows
  BY <1>1, <1>3, <1>6
<1>8. rows' \in Seq(AuditRows) /\ Len(rows') = Len(rows)
  <2>0. PICK f : f = rows'
    OBVIOUS
  <2>1. PICK n \in Nat : f = rows' /\ n = Len(rows)
    BY <1>1, <2>0
  <2>2. DOMAIN f = 1 .. n /\ f = [j \in 1 .. n |-> f[j]]
    BY <1>6, <2>1, Zenon
  <2>3. \A j \in 1 .. n : f[j] \in AuditRows
    BY <1>7, <2>1
  <2>4. f \in Seq(AuditRows) /\ Len(f) = n
    BY <2>2, <2>3, ListOf
  <2> QED BY <2>1, <2>4
<1> QED BY <1>1, <1>3, <1>6, <1>8 DEF WritesMove

\* What a request may expect of its rows survives their writes.
LEMMA QueuesFitStill ==
  ASSUME DeliveryInv, NEW moved, WritesMove(moved), NEW r \in AuditRequests,
         audited'[r] = audited[r]
  PROVE  QueuesFit(r)' /\ Successes(r)' = Successes(r)
<1>1. Successes(r)' = Successes(r)
  BY DEF WritesMove, Successes
<1>2. QueuesFit(r)
  BY DEF DeliveryInv
<1> QED BY <1>1, <1>2 DEF QueuesFit

\* The handler returns or throws, and with it its transaction.
LEMMA HandlersEnd ==
  ASSUME DeliveryInv, NEW r \in AuditRequests, Delivery!Return(r) \/ Delivery!Throw(r)
  PROVE  DeliveryInv'
<1> DEFINE q == audited[r]
           moved == {i \in DOMAIN rows : rows[i].by = r /\ rows[i].at = "transaction"}
<1>1. /\ UNCHANGED <<listeners, heard, fresh>> /\ q.pc = "handler"
      /\ audited \in [AuditRequests -> DeliveryRequests] /\ q \in DeliveryRequests
      /\ "flush" \in DeliveryPcs /\ {} \in SUBSET Nat
  BY RequestFields DEF Delivery!Return, Delivery!Throw, DeliveryInv, DeliveryTypes, DeliveryPcs
<1>2. QueuesFit(r)
  BY DEF DeliveryInv
<1>3. q.awaiting = {} /\ ~q.failed
  BY <1>1, <1>2 DEF QueuesFit
<1>4. PICK at \in {"written", "gone", "unheard"} :
        /\ Delivery!Settle(r, at) /\ OthersStay(audited, audited', r)
        /\ audited'[r].pc = "flush" /\ audited'[r].tx = q.tx /\ audited'[r].awaiting = {}
        /\ \/ at = "written" /\ ~audited'[r].failed /\ audited'[r].queue = q.queue
           \/ at # "written" /\ audited'[r].failed /\ audited'[r].queue = {}
  <2>1. CASE Delivery!Return(r)
    <3>1. audited' = PcSet(audited, r, "flush") /\ Delivery!Settle(r, "written")
      BY <2>1, Zenon DEF Delivery!Return, PcSet
    <3> HIDE DEF q
    <3>2. /\ OthersStay(audited, audited', r) /\ audited'[r].pc = "flush"
          /\ audited'[r].tx = q.tx /\ audited'[r].awaiting = q.awaiting
          /\ audited'[r].queue = q.queue /\ audited'[r].failed = q.failed
      BY <1>1, <3>1, PcChanges DEF q
    <3>3. ~audited'[r].failed /\ audited'[r].awaiting = {}
      BY <1>3, <3>2, Zenon
    <3> QED BY <3>1, <3>2, <3>3
  <2>2. CASE Delivery!Throw(r)
    <3>1. PICK at \in {"gone", "unheard"} : Delivery!Settle(r, at)
      BY <2>2 DEF Delivery!Throw
    <3>2. PICK one : one = PcSet(audited, r, "flush")
      OBVIOUS
    <3>3. PICK two : two = QueueSet(one, r, {})
      OBVIOUS
    <3>12. PICK yes \in BOOLEAN : yes = TRUE
      OBVIOUS
    <3>4. audited' = FailedSet(two, r, yes)
      BY <2>2, <3>2, <3>3, <3>12, Zenon DEF Delivery!Throw, PcSet, QueueSet, FailedSet
    <3> HIDE DEF q
    <3>5. /\ OthersStay(audited, one, r) /\ one[r].pc = "flush"
          /\ one[r].tx = q.tx /\ one[r].awaiting = q.awaiting
      BY <1>1, <3>2, PcChanges DEF q
    <3>6. one \in [AuditRequests -> DeliveryRequests]
      BY <3>5 DEF OthersStay
    <3>7. /\ OthersStay(one, two, r) /\ two[r].pc = one[r].pc /\ two[r].queue = {}
          /\ two[r].tx = one[r].tx /\ two[r].awaiting = one[r].awaiting
      BY <1>1, <3>3, <3>6, QueueChanges
    <3>8. two \in [AuditRequests -> DeliveryRequests] 
      BY <3>7 DEF OthersStay
    <3>9. /\ OthersStay(two, audited', r) /\ audited'[r].pc = two[r].pc
          /\ audited'[r].queue = two[r].queue /\ audited'[r].failed = yes
          /\ audited'[r].tx = two[r].tx /\ audited'[r].awaiting = two[r].awaiting
      BY <3>4, <3>8, FailedChanges
    <3>10. OthersStay(audited, audited', r)
      BY <3>5, <3>7, <3>9 DEF OthersStay
    <3>11. /\ audited'[r].pc = "flush" /\ audited'[r].tx = q.tx /\ audited'[r].awaiting = {}
           /\ audited'[r].failed /\ audited'[r].queue = {}
      BY <1>3, <3>5, <3>7, <3>9, <3>12, Zenon
    <3> QED BY <3>1, <3>10, <3>11
  <2> QED BY <2>1, <2>2
<1>5. /\ WritesMove(moved)
      /\ \A i \in DOMAIN rows : rows[i].by = r /\ rows[i].at = "transaction" => rows'[i].at = at
  BY <1>4, TransactionsSettle
<1> HIDE DEF q, moved
<1>6. DeliveryTypes'
  BY <1>1, <1>4, <1>5 DEF DeliveryInv, DeliveryTypes, OthersStay, WritesMove
<1>7. ASSUME NEW o \in AuditRequests PROVE QueuesFit(o)'
  <2>1. CASE o # r
    <3>1. audited'[o] = audited[o]
      BY <1>4, <2>1 DEF OthersStay
    <3> QED BY <1>5, <3>1, QueuesFitStill
  <2>2. CASE o = r
    <3>1. Successes(r)' = Successes(r)
      BY <1>5 DEF WritesMove, Successes
    <3> QED BY <1>2, <1>4, <2>2, <3>1 DEF QueuesFit, q
  <2> QED BY <2>1, <2>2
<1>8. ASSUME NEW i \in DOMAIN rows PROVE WriteFits(i)' /\ HeardFits(i)'
  <2>1. rows[i].by \in AuditRequests /\ WriteFits(i) /\ HeardFits(i)
        /\ rows[i].outcome \in {"success", "failure"}
    BY RowFields DEF DeliveryInv, AuditRows
  <2>2. CASE rows[i].by # r
    <3>1. rows'[i] = rows[i] /\ audited'[rows[i].by] = audited[rows[i].by]
      BY <1>4, <1>5, <2>1, <2>2 DEF OthersStay, WritesMove, moved
    <3> QED BY <1>1, <3>1, RowStands
  <2>3. CASE rows[i].by = r
    <3>1. /\ rows'[i].by = r /\ rows'[i].outcome = rows[i].outcome /\ rows'[i].to = rows[i].to
          /\ rows[i].at = "transaction" => rows'[i].at = at
          /\ rows[i].at # "transaction" => rows'[i].at = rows[i].at
      BY <1>5, <2>3 DEF WritesMove, moved
    <3>2. WriteFits(i)'
      BY <1>1, <1>4, <2>1, <2>3, <3>1 DEF WriteFits, q
    <3>3. Awaited(i) <=> i \in q.queue
      BY <1>3, <2>3 DEF Awaited, q
    <3>4. Awaited(i)' <=> ~audited'[r].failed /\ i \in q.queue
      BY <1>4, <3>1 DEF Awaited
    <3>5. rows[i].outcome = "success" => Awaited(i) \/ rows[i].at \in {"written", "gone", "unheard"}
      BY <1>3, <2>1, <2>3 DEF HeardFits, q
    <3>6. HeardFits(i)'
      BY <1>1, <1>3, <1>4, <2>1, <2>3, <3>1, <3>3, <3>4, <3>5 DEF HeardFits, WriteFits, q
    <3> QED BY <3>2, <3>6
  <2> QED BY <2>2, <2>3
<1>9. DOMAIN rows' = DOMAIN rows
  BY <1>5 DEF WritesMove
<1> QED BY <1>6, <1>7, <1>8, <1>9 DEF DeliveryInv

\* The write of a row goes on, and the emitter does not know of it.
LEMMA WritesGoOn ==
  ASSUME DeliveryInv, NEW i \in DOMAIN rows, Delivery!WriteLands(i) \/ Delivery!WriteFails(i)
  PROVE  DeliveryInv'
<1>1. UNCHANGED <<audited, listeners, heard, fresh>> /\ rows[i].at \in {"writing", "landed"}
  BY DEF Delivery!WriteLands, Delivery!WriteFails
<1>2. PICK at \in {"landed", "gone", "unheard"} : rows' = [rows EXCEPT ![i].at = at]
  <2>1. CASE Delivery!WriteLands(i)
    BY <2>1, Zenon DEF Delivery!WriteLands
  <2>2. CASE Delivery!WriteFails(i)
    BY <2>2 DEF Delivery!WriteFails
  <2> QED BY <2>1, <2>2
<1>3. WritesMove({i}) /\ rows'[i].at = at
  BY <1>2, OneWriteMoves
<1>4. DeliveryTypes'
  BY <1>1, <1>3 DEF DeliveryInv, DeliveryTypes, WritesMove
<1>5. \A r \in AuditRequests : QueuesFit(r)'
  BY <1>1, <1>3, QueuesFitStill
<1>6. ASSUME NEW j \in DOMAIN rows PROVE WriteFits(j)' /\ HeardFits(j)'
  <2>1. CASE j # i
    <3>1. rows'[j] = rows[j]
      BY <1>3, <2>1 DEF WritesMove
    <3> QED BY <1>1, <3>1, RowStands
  <2>2. CASE j = i
    <3>1. /\ rows'[i].by = rows[i].by /\ rows'[i].outcome = rows[i].outcome
          /\ rows'[i].to = rows[i].to
      BY <1>3 DEF WritesMove
    <3>2. WriteFits(i) /\ HeardFits(i)
      BY DEF DeliveryInv
    <3>3. Awaited(i)' <=> Awaited(i)
      BY <1>1, <3>1 DEF Awaited
    <3>4. WriteFits(i)'
      BY <1>1, <1>3, <3>1, <3>2 DEF WriteFits
    <3>5. HeardFits(i)'
      BY <1>1, <1>3, <3>1, <3>2, <3>3 DEF HeardFits
    <3> QED BY <2>2, <3>4, <3>5
  <2> QED BY <2>1, <2>2
<1>7. DOMAIN rows' = DOMAIN rows
  BY <1>3 DEF WritesMove
<1> QED BY <1>4, <1>5, <1>6, <1>7 DEF DeliveryInv

\* Rows are announced that nobody has heard: everybody hears them who is there.
LEMMA RowsAreAnnounced ==
  ASSUME DeliveryInv, NEW now_ \in SUBSET (DOMAIN rows), Delivery!Announced(now_),
         \A i \in now_ : \A l \in Listeners : heard[i][l] = 0
  PROVE  /\ heard' \in Seq([Listeners -> Nat]) /\ Len(heard') = Len(rows)
         /\ fresh' = fresh /\ listeners' \subseteq listeners
         /\ \A i \in DOMAIN rows \ now_ : heard'[i] = heard[i]
         /\ \A i \in now_ : \A l \in Listeners :
              heard'[i][l] \in {0, 1} /\ (l \in listeners' => heard'[i][l] = 1)
<1> DEFINE hears(i, l) ==
             i \in now_ /\ l \in listeners /\ ((\A j \in now_ : i <= j) \/ l \notin Leaving)
<1>1. /\ Len(rows) \in Nat /\ DOMAIN rows = 1 .. Len(rows)
      /\ \A i \in DOMAIN rows : heard[i] \in [Listeners -> Nat]
  BY RowFields DEF DeliveryInv
<1>2. heard' = [i \in DOMAIN rows |-> [l \in Listeners |->
                  IF hears(i, l) THEN heard[i][l] + 1 ELSE heard[i][l]]]
  BY Zenon DEF Delivery!Announced, Delivery!Row, Delivery!Called
<1>3. /\ fresh' = fresh /\ listeners' \subseteq listeners
      /\ now_ # {} => listeners' \cap Leaving = {}
  BY DEF Delivery!Announced, Delivery!Remaining
<1>4. ASSUME NEW i \in now_, NEW l \in listeners' PROVE hears(i, l)
  BY <1>3, <1>4
<1> HIDE DEF hears
<1>5. ASSUME NEW i \in DOMAIN rows
      PROVE  /\ heard'[i] \in [Listeners -> Nat]
             /\ \A l \in Listeners :
                  heard'[i][l] = IF hears(i, l) THEN heard[i][l] + 1 ELSE heard[i][l]
  BY <1>1, <1>2
<1>6. DOMAIN heard' = 1 .. Len(rows) /\ heard' = [i \in 1 .. Len(rows) |-> heard'[i]]
  BY <1>1, <1>2
<1>7. heard' \in Seq([Listeners -> Nat]) /\ Len(heard') = Len(rows)
  <2>1. PICK f : f = heard'
    OBVIOUS
  <2>2. PICK n \in Nat : n = Len(rows)
    BY <1>1
  <2>3. DOMAIN f = 1 .. n /\ f = [j \in 1 .. n |-> f[j]]
    BY <1>6, <2>1, <2>2, Zenon
  <2>4. \A j \in 1 .. n : f[j] \in [Listeners -> Nat]
    BY <1>1, <1>5, <2>1, <2>2
  <2>5. f \in Seq([Listeners -> Nat]) /\ Len(f) = n
    BY <2>3, <2>4, ListOf
  <2> QED BY <2>1, <2>2, <2>5
<1>8. ASSUME NEW i \in DOMAIN rows \ now_ PROVE heard'[i] = heard[i]
  <2>1. \A l \in Listeners : ~hears(i, l)
    BY DEF hears
  <2> QED BY <1>1, <1>5, <2>1
<1>9. ASSUME NEW i \in now_, NEW l \in Listeners
      PROVE  heard'[i][l] \in {0, 1} /\ (l \in listeners' => heard'[i][l] = 1)
  <2>1. heard[i][l] = 0 /\ heard'[i][l] = IF hears(i, l) THEN heard[i][l] + 1 ELSE heard[i][l]
    BY <1>5
  <2>2. l \in listeners' => hears(i, l)
    BY <1>4
  <2> QED BY <2>1, <2>2
<1> QED BY <1>3, <1>7, <1>8, <1>9

\* A row that has just been announced.
LEMMA AnnouncedFits ==
  ASSUME NEW i \in DOMAIN rows, HeardFits(i), fresh' = fresh, rows'[i].to = rows[i].to,
         rows'[i].at = "written", ~Awaited(i)',
         \A l \in Listeners : heard'[i][l] \in {0, 1},
         \A l \in listeners' : heard'[i][l] = 1
  PROVE  HeardFits(i)'
<1>1. rows'[i].to \cap fresh' = {}
  BY DEF HeardFits
<1>2. \A l \in rows'[i].to \cap listeners' : heard'[i][l] = 1
  OBVIOUS
<1> QED BY <1>1, <1>2 DEF HeardFits

\* A row that is not, and of which nothing changes that it is heard by.
LEMMA UnannouncedFits ==
  ASSUME NEW i \in DOMAIN rows, HeardFits(i), fresh' = fresh, rows'[i].to = rows[i].to,
         rows'[i].outcome = rows[i].outcome, heard'[i] = heard[i], listeners' \subseteq listeners,
         audited'[rows'[i].by].failed = audited[rows[i].by].failed,
         \A l \in Listeners : heard[i][l] = 1 => rows'[i].at = "written" /\ ~Awaited(i)',
         rows[i].outcome = "failure" /\ rows'[i].at = "written" => rows[i].at = "written",
         rows[i].outcome = "success" /\ ~audited[rows[i].by].failed /\ ~Awaited(i)' =>
           /\ rows'[i].at \in {"written", "gone", "unheard"}
           /\ rows'[i].at = "written" => rows[i].at = "written" /\ ~Awaited(i)
  PROVE  HeardFits(i)'
<1>1. rows'[i].to \cap fresh' = {}
  BY DEF HeardFits
<1>2. \A l \in Listeners :
        heard'[i][l] \in {0, 1} /\ (heard'[i][l] = 1 => rows'[i].at = "written" /\ ~Awaited(i)')
  BY DEF HeardFits
<1>3. rows'[i].outcome = "failure" /\ rows'[i].at = "written" =>
        \A l \in rows'[i].to \cap listeners' : heard'[i][l] = 1
  BY DEF HeardFits
<1>4. rows'[i].outcome = "success" /\ ~audited'[rows'[i].by].failed /\ ~Awaited(i)' =>
        /\ rows'[i].at \in {"written", "gone", "unheard"}
        /\ rows'[i].at = "written" => \A l \in rows'[i].to \cap listeners' : heard'[i][l] = 1
  BY DEF HeardFits
<1> QED BY <1>1, <1>2, <1>3, <1>4, Zenon DEF HeardFits

\* The queue is run after the commit.
LEMMA QueuesAreRun ==
  ASSUME DeliveryInv, NEW r \in AuditRequests, Delivery!Flush(r)
  PROVE  DeliveryInv'
<1> DEFINE q == audited[r]
           queued == q.queue \ {Delivery!ThrowingEffect}
<1>1. /\ rows' = rows /\ q.pc = "flush" /\ "flushing" \in DeliveryPcs /\ {} \in SUBSET Nat
      /\ audited \in [AuditRequests -> DeliveryRequests] /\ q \in DeliveryRequests
      /\ q.queue \subseteq Nat
  BY RequestFields DEF Delivery!Flush, DeliveryInv, DeliveryTypes, DeliveryPcs
<1>2. QueuesFit(r)
  BY DEF DeliveryInv
<1>3. /\ q.awaiting = {} /\ (q.queue # {} => ~q.failed)
      /\ queued \subseteq Successes(r)
  BY <1>1, <1>2 DEF QueuesFit
<1>4. PICK waits \in SUBSET queued, announced \in SUBSET queued :
        /\ q.tx => waits = {} /\ announced = queued
        /\ ~q.tx => waits = queued /\ announced = {}
        /\ Delivery!Announced(announced) /\ OthersStay(audited, audited', r)
        /\ audited'[r].pc = "flushing" /\ audited'[r].tx = q.tx
        /\ audited'[r].failed = q.failed
        /\ audited'[r].queue = {} /\ audited'[r].awaiting = waits
  <2> DEFINE waits == {i \in queued : ~q.tx}
             announced == {i \in queued : q.tx}
  <2>1. Delivery!Announced(announced)
    BY DEF Delivery!Flush
  <2>2. PICK one : one = PcSet(audited, r, "flushing")
    OBVIOUS
  <2>3. PICK two : two = QueueSet(one, r, {})
    OBVIOUS
  <2>4. audited' = AwaitingSet(two, r, waits)
    BY <2>2, <2>3, Zenon DEF Delivery!Flush, PcSet, QueueSet, AwaitingSet
  <2>5. /\ q.tx => waits = {} /\ announced = queued
        /\ ~q.tx => waits = queued /\ announced = {}
        /\ waits \in SUBSET queued /\ announced \in SUBSET queued
    OBVIOUS
  <2>6. waits \in SUBSET Nat
    BY <1>1
  <2> HIDE DEF waits, announced, q, queued
  <2>7. /\ OthersStay(audited, one, r) /\ one[r].pc = "flushing"
        /\ one[r].tx = q.tx /\ one[r].failed = q.failed
    BY <1>1, <2>2, PcChanges DEF q
  <2>8. one \in [AuditRequests -> DeliveryRequests]
    BY <2>7 DEF OthersStay
  <2>9. /\ OthersStay(one, two, r) /\ two[r].pc = one[r].pc /\ two[r].queue = {}
        /\ two[r].tx = one[r].tx /\ two[r].failed = one[r].failed
    BY <1>1, <2>3, <2>8, QueueChanges
  <2>10. two \in [AuditRequests -> DeliveryRequests]
    BY <2>9 DEF OthersStay
  <2>11. /\ OthersStay(two, audited', r) /\ audited'[r].pc = two[r].pc
         /\ audited'[r].queue = two[r].queue /\ audited'[r].failed = two[r].failed
         /\ audited'[r].tx = two[r].tx /\ audited'[r].awaiting = waits
    BY <2>4, <2>6, <2>10, AwaitingChanges
  <2>12. OthersStay(audited, audited', r)
    BY <2>7, <2>9, <2>11 DEF OthersStay
  <2> QED BY <2>1, <2>5, <2>7, <2>9, <2>11, <2>12
<1> HIDE DEF q, queued
<1>5. ASSUME NEW i \in queued
      PROVE  /\ i \in DOMAIN rows /\ rows[i].by = r /\ rows[i].outcome = "success" /\ Awaited(i)
             /\ \A l \in Listeners : heard[i][l] = 0
  <2>1. i \in DOMAIN rows /\ rows[i].by = r /\ rows[i].outcome = "success" /\ Awaited(i)
    BY <1>3 DEF Successes, Awaited, queued, q
  <2>2. HeardFits(i)
    BY <2>1 DEF DeliveryInv
  <2> QED BY <2>1, <2>2 DEF HeardFits
<1>6. announced \in SUBSET (DOMAIN rows)
  BY <1>4, <1>5
<1>7. /\ heard' \in Seq([Listeners -> Nat]) /\ Len(heard') = Len(rows)
      /\ fresh' = fresh /\ listeners' \subseteq listeners
      /\ \A i \in DOMAIN rows \ announced : heard'[i] = heard[i]
      /\ \A i \in announced : \A l \in Listeners :
           heard'[i][l] \in {0, 1} /\ (l \in listeners' => heard'[i][l] = 1)
  BY <1>4, <1>5, <1>6, RowsAreAnnounced
<1>8. DeliveryTypes'
  BY <1>1, <1>4, <1>7 DEF DeliveryInv, DeliveryTypes, OthersStay
<1>9. ASSUME NEW o \in AuditRequests PROVE QueuesFit(o)'
  <2>1. Successes(o)' = Successes(o)
    BY <1>1 DEF Successes
  <2>2. CASE o # r
    <3>1. audited'[o] = audited[o] /\ QueuesFit(o)
      BY <1>4, <2>2 DEF OthersStay, DeliveryInv
    <3> QED BY <2>1, <3>1 DEF QueuesFit
  <2>3. CASE o = r
    <3>1. waits # {} => ~q.failed /\ ~q.tx
      BY <1>3, <1>4 DEF queued
    <3> QED BY <1>3, <1>4, <2>1, <2>3, <3>1 DEF QueuesFit
  <2> QED BY <2>2, <2>3
<1>10. ASSUME NEW i \in DOMAIN rows PROVE WriteFits(i)' /\ HeardFits(i)'
  <2>1. /\ rows[i].by \in AuditRequests /\ WriteFits(i) /\ HeardFits(i)
        /\ rows[i].outcome \in {"success", "failure"}
    BY RowFields DEF DeliveryInv, AuditRows
  <2>2. CASE rows[i].by # r
    <3>1. heard'[i] = heard[i] /\ audited'[rows[i].by] = audited[rows[i].by]
      BY <1>4, <1>5, <1>7, <2>1, <2>2 DEF OthersStay
    <3> QED BY <1>1, <1>7, <3>1, RowStands
  <2>3. CASE rows[i].by = r
    <3>1. WriteFits(i)'
      BY <1>1, <1>4, <2>1, <2>3 DEF WriteFits, q
    <3>2. Awaited(i)' <=> i \in waits
      BY <1>1, <1>4, <2>3 DEF Awaited
    <3>3. i \notin queued => ~Awaited(i)
      BY <1>3, <2>1, <2>3, RowFields DEF Awaited, queued, q, DeliveryInv, Delivery!ThrowingEffect
    <3>4. CASE i \in announced
      <4>1. q.tx /\ i \notin waits /\ ~q.failed /\ rows[i].outcome = "success" /\ i \in queued
        BY <1>3, <1>4, <1>5, <3>4 DEF queued
      <4>2. rows[i].at = "written"
        BY <1>1, <2>1, <2>3, <4>1 DEF WriteFits, q
      <4>3. \A l \in listeners' : heard'[i][l] = 1
        BY <1>7, <3>4 DEF DeliveryInv, DeliveryTypes
      <4>4. ~Awaited(i)'
        BY <3>2, <4>1
      <4> QED BY <1>1, <1>7, <2>1, <3>1, <3>4, <4>2, <4>3, <4>4, AnnouncedFits
    <3>5. CASE i \notin announced
      <4>1. heard'[i] = heard[i]
        BY <1>7, <3>5
      <4>2. CASE i \in queued
        <5>1. i \in waits /\ rows[i].outcome = "success"
          BY <1>4, <1>5, <3>5, <4>2
        <5>2. \A l \in Listeners : heard'[i][l] = 0
          BY <1>5, <4>1, <4>2
        <5> QED BY <1>1, <1>7, <2>1, <3>1, <3>2, <5>1, <5>2 DEF HeardFits
      <4>3. CASE i \notin queued
        <5>1. ~Awaited(i) /\ ~Awaited(i)'
          BY <1>4, <3>2, <3>3, <4>3
        <5> QED BY <1>1, <1>4, <1>7, <2>1, <2>3, <3>1, <4>1, <5>1 DEF HeardFits, q
      <4> QED BY <4>2, <4>3
    <3> QED BY <3>4, <3>5
  <2> QED BY <2>2, <2>3
<1> QED BY <1>1, <1>8, <1>9, <1>10 DEF DeliveryInv

\* One effect less is waited for.
LEMMA OneLessAwaited ==
  ASSUME DeliveryInv, NEW r \in AuditRequests, NEW i,
         audited' = AwaitingSet(audited, r, audited[r].awaiting \ {i})
  PROVE  /\ OthersStay(audited, audited', r)
         /\ audited'[r].awaiting = audited[r].awaiting \ {i}
         /\ audited'[r].pc = audited[r].pc /\ audited'[r].tx = audited[r].tx
         /\ audited'[r].failed = audited[r].failed /\ audited'[r].queue = audited[r].queue
<1>1. /\ audited \in [AuditRequests -> DeliveryRequests]
      /\ audited[r].awaiting \ {i} \in SUBSET Nat
  BY RequestFields DEF DeliveryInv, DeliveryTypes
<1> QED BY <1>1, AwaitingChanges

\* An effect that waited for its row has it, or will not: the row is announced now or never.
LEMMA AwaitedRowsSettle ==
  ASSUME DeliveryInv, NEW i \in DOMAIN rows, NEW r \in AuditRequests, r = rows[i].by,
         NEW at \in {"written", "gone", "unheard"},
         WritesMove({i}), rows'[i].at = at,
         NEW now_ \in SUBSET {i}, Delivery!Announced(now_),
         audited' = AwaitingSet(audited, r, audited[r].awaiting \ {i}),
         rows[i].at \in {"landed", at},
         i \in now_ <=>
           /\ at = "written"
           /\ \/ rows[i].outcome = "failure" /\ rows[i].at = "landed"
              \/ i \in audited[r].awaiting
  PROVE  DeliveryInv'
<1> DEFINE q == audited[r]
<1>1. /\ audited \in [AuditRequests -> DeliveryRequests] /\ q \in DeliveryRequests
      /\ q.awaiting \subseteq Nat
      /\ QueuesFit(r) /\ WriteFits(i) /\ HeardFits(i) /\ rows[i].outcome \in {"success", "failure"}
  BY RequestFields, RowFields DEF DeliveryInv, DeliveryTypes, AuditRows
<1>2. /\ OthersStay(audited, audited', r) /\ audited'[r].awaiting = q.awaiting \ {i}
      /\ audited'[r].pc = q.pc /\ audited'[r].tx = q.tx /\ audited'[r].failed = q.failed
      /\ audited'[r].queue = q.queue
  BY OneLessAwaited
<1> HIDE DEF q
<1>3. /\ rows'[i].by = r /\ rows'[i].outcome = rows[i].outcome /\ rows'[i].to = rows[i].to
      /\ \A j \in DOMAIN rows \ {i} : rows'[j] = rows[j]
      /\ DOMAIN rows' = DOMAIN rows
  BY DEF WritesMove
<1>4. ASSUME i \in now_, NEW l \in Listeners PROVE heard[i][l] = 0
  <2>1. rows[i].at # "written" \/ Awaited(i)
    BY <1>4 DEF Awaited
  <2> QED BY <1>1, <2>1 DEF HeardFits
<1>5. /\ heard' \in Seq([Listeners -> Nat]) /\ Len(heard') = Len(rows)
      /\ fresh' = fresh /\ listeners' \subseteq listeners
      /\ \A j \in DOMAIN rows \ now_ : heard'[j] = heard[j]
      /\ \A j \in now_ : \A l \in Listeners :
           heard'[j][l] \in {0, 1} /\ (l \in listeners' => heard'[j][l] = 1)
  BY <1>4, RowsAreAnnounced
<1>6. DeliveryTypes'
  BY <1>2, <1>5 DEF DeliveryInv, DeliveryTypes, OthersStay, WritesMove
<1>7. ASSUME NEW o \in AuditRequests PROVE QueuesFit(o)'
  <2>1. Successes(o)' = Successes(o)
    BY DEF WritesMove, Successes
  <2>2. CASE o # r
    <3>1. audited'[o] = audited[o] /\ QueuesFit(o)
      BY <1>2, <2>2 DEF OthersStay, DeliveryInv
    <3> QED BY <2>1, <3>1 DEF QueuesFit
  <2>3. CASE o = r
    BY <1>1, <1>2, <2>1, <2>3 DEF QueuesFit, q
  <2> QED BY <2>2, <2>3
<1>8. ASSUME NEW j \in DOMAIN rows \ {i} PROVE WriteFits(j)' /\ HeardFits(j)'
  <2>1. rows'[j] = rows[j] /\ heard'[j] = heard[j] /\ rows[j].by \in AuditRequests
    BY <1>3, <1>5, RowFields DEF DeliveryInv, AuditRows
  <2>2. CASE rows[j].by # r
    BY <1>2, <1>5, <2>1, <2>2, RowStands DEF OthersStay
  <2>3. CASE rows[j].by = r
    BY <1>2, <1>5, <2>1, <2>3, RowStands DEF q
  <2> QED BY <2>2, <2>3
<1>9. WriteFits(i)' /\ HeardFits(i)'
  <2>1. Awaited(i)' <=> i \in q.queue
    BY <1>2, <1>3 DEF Awaited
  <2>2. Awaited(i) <=> i \in q.queue \cup q.awaiting
    BY DEF Awaited, q
  <2>3. i \in q.awaiting => q.queue = {} /\ rows[i].outcome = "success"
    BY <1>1 DEF QueuesFit, Successes, q
  <2>4. WriteFits(i)'
    BY <1>1, <1>2, <1>3 DEF WriteFits, q
  <2>5. CASE i \in now_
    <3>1. \A l \in listeners' : heard'[i][l] = 1
      BY <1>5, <2>5 DEF DeliveryInv, DeliveryTypes
    <3>2. at = "written" /\ ~Awaited(i)'
      <4>1. at = "written" /\ (rows[i].outcome = "failure" \/ i \in q.awaiting)
        BY <2>5 DEF q
      <4>2. i \in q.queue => rows[i].outcome = "success"
        BY <1>1, RowFields DEF QueuesFit, Successes, q, Delivery!ThrowingEffect, DeliveryInv
      <4> QED BY <2>1, <2>3, <4>1, <4>2
    <3> QED BY <1>1, <1>3, <1>5, <2>4, <2>5, <3>1, <3>2, AnnouncedFits
  <2>6. CASE i \notin now_
    <3>1. heard'[i] = heard[i]
      BY <1>5, <2>6
    <3>2. /\ audited'[rows'[i].by].failed = audited[rows[i].by].failed
          /\ rows[i].outcome = "failure" => ~Awaited(i) /\ ~Awaited(i)'
      <4>1. rows[i].outcome = "failure" => i \notin q.queue
        BY <1>1, RowFields DEF QueuesFit, Successes, q, Delivery!ThrowingEffect, DeliveryInv
      <4> QED BY <1>1, <1>2, <1>3, <2>1, <2>2, <2>3, <4>1 DEF q
    <3>3. rows[i].outcome = "failure" /\ at = "written" => rows[i].at = "written"
      BY <2>6
    <3>4. at = "written" => i \notin q.awaiting \/ rows[i].outcome = "failure"
      BY <2>6 DEF q
    <3>5. \A l \in Listeners : heard[i][l] = 1 => at = "written" /\ ~Awaited(i)'
      BY <1>1, <2>1, <2>2 DEF HeardFits
    <3>6. ASSUME rows[i].outcome = "success", ~audited[r].failed, ~Awaited(i)', at = "written"
          PROVE  ~Awaited(i) /\ rows[i].at = "written"
      <4>1. ~Awaited(i)
        BY <2>1, <2>2, <3>4, <3>6
      <4> QED BY <1>1, <3>6, <4>1 DEF HeardFits
    <3>7. ASSUME rows[i].outcome = "success", ~audited[r].failed, ~Awaited(i)'
          PROVE  /\ rows'[i].at \in {"written", "gone", "unheard"}
                 /\ rows'[i].at = "written" => rows[i].at = "written" /\ ~Awaited(i)
      BY <3>6, <3>7
    <3> QED BY <1>1, <1>3, <1>5, <2>4, <3>1, <3>2, <3>3, <3>5, <3>7, UnannouncedFits
  <2> QED BY <2>4, <2>5, <2>6
<1> QED BY <1>3, <1>6, <1>7, <1>8, <1>9 DEF DeliveryInv

\* The emitter is told of a write, or an effect runs that waited for one that is over.
LEMMA RowsAreHeard ==
  ASSUME DeliveryInv,
         \/ \E i \in DOMAIN rows : Delivery!WriteHeard(i)
         \/ \E r \in AuditRequests : Delivery!AnnounceAwaited(r)
  PROVE  DeliveryInv'
<1>1. ASSUME NEW i \in DOMAIN rows, Delivery!WriteHeard(i) PROVE DeliveryInv'
  <2>1. PICK r \in AuditRequests : r = rows[i].by
    BY RowFields DEF DeliveryInv, AuditRows
  <2>2. /\ rows' = [rows EXCEPT ![i].at = "written"] /\ rows[i].at = "landed"
        /\ audited' = AwaitingSet(audited, r, audited[r].awaiting \ {i})
    BY <1>1, <2>1, Zenon DEF Delivery!WriteHeard, AwaitingSet
  <2>3. PICK now_ \in SUBSET {i} :
          /\ Delivery!Announced(now_)
          /\ i \in now_ <=> rows[i].outcome = "failure" \/ i \in audited[r].awaiting
    BY <1>1, <2>1 DEF Delivery!WriteHeard
  <2>4. WritesMove({i}) /\ rows'[i].at = "written"
    BY <2>2, OneWriteMoves
  <2> QED BY <2>1, <2>2, <2>3, <2>4, AwaitedRowsSettle
<1>2. ASSUME NEW r \in AuditRequests, Delivery!AnnounceAwaited(r) PROVE DeliveryInv'
  <2>1. PICK i \in audited[r].awaiting :
          /\ rows[i].at \in {"written", "gone", "unheard"}
          /\ Delivery!Announced(IF rows[i].at = "written" THEN {i} ELSE {})
          /\ audited' = AwaitingSet(audited, r, audited[r].awaiting \ {i})
          /\ UNCHANGED rows
    BY <1>2, Zenon DEF Delivery!AnnounceAwaited, AwaitingSet
  <2>2. i \in DOMAIN rows /\ rows[i].by = r /\ rows[i].outcome = "success"
    BY <2>1 DEF DeliveryInv, QueuesFit, Successes
  <2>3. WritesMove({i})
    BY <2>1 DEF WritesMove, DeliveryInv, DeliveryTypes
  <2>4. PICK at \in {"written", "gone", "unheard"} : at = rows[i].at /\ at = rows'[i].at
    BY <2>1
  <2>5. PICK now_ \in SUBSET {i} :
          Delivery!Announced(now_) /\ (i \in now_ <=> rows[i].at = "written")
    BY <2>1
  <2> QED BY <2>1, <2>2, <2>3, <2>4, <2>5, AwaitedRowsSettle
<1> QED BY <1>1, <1>2

\* What the invariant says of a request that is done.
LEMMA RowsWereAnnounced == ASSUME DeliveryInv PROVE AnnouncedOnceIfCommitted
<1> SUFFICES ASSUME NEW i \in DOMAIN rows
             PROVE  LET of == audited[rows[i].by] IN
                    /\ \A l \in Listeners :
                         heard[i][l] <= 1 /\ (heard[i][l] = 1 => rows[i].at = "written")
                    /\ of.pc = "done" =>
                         /\ rows[i].at \notin {"transaction", "writing", "landed"}
                         /\ rows[i].at = "written" /\ (rows[i].outcome = "failure" \/ ~of.failed)
                              => \A l \in rows[i].to \cap listeners : heard[i][l] = 1
  BY DEF AnnouncedOnceIfCommitted, Delivery!AnnouncedOnceIfCommitted, Delivery!Row
<1> DEFINE of == audited[rows[i].by]
<1>1. /\ rows[i].by \in AuditRequests /\ WriteFits(i) /\ HeardFits(i) /\ QueuesFit(rows[i].by)
      /\ rows[i].outcome \in {"success", "failure"}
  BY RowFields DEF DeliveryInv, AuditRows
<1>2. ASSUME of.pc = "done" PROVE ~Awaited(i)
  BY <1>1, <1>2 DEF QueuesFit, Awaited
<1>3. \A l \in Listeners : heard[i][l] <= 1 /\ (heard[i][l] = 1 => rows[i].at = "written")
  BY <1>1 DEF HeardFits
<1> QED BY <1>1, <1>2, <1>3 DEF WriteFits, HeardFits

(***************************************************************************)
(* A committed row is announced to everyone who was there when it was      *)
(* emitted and still is, once, whoever throws or leaves meanwhile; a row   *)
(* that was rolled back is announced to nobody: for any requests,          *)
(* listeners and number of rows.                                           *)
(***************************************************************************)
THEOREM CommittedRowsAreAnnounced == ServerParts => []AnnouncedOnceIfCommitted
<1>1. ServerInit => DeliveryInv
  BY DeliveryBegins DEF ServerInit
<1>2. DeliveryInv /\ [ServerNext]_server_vars => DeliveryInv'
  <2> SUFFICES ASSUME DeliveryInv, [ServerNext]_server_vars PROVE DeliveryInv'
    OBVIOUS
  <2>1. Delivery!AuditNext \/ UNCHANGED audit_vars
    BY DEF ServerNext, server_vars
  <2>2. CASE UNCHANGED audit_vars
    BY <2>2 DEF audit_vars, DeliveryInv, DeliveryTypes, QueuesFit, Successes, WriteFits,
                HeardFits, Awaited
  <2>3. CASE Delivery!AuditNext
    BY <2>3, RequestsArrive, RowsAreEmitted, RequestsQueueAndEnd, HandlersEnd, QueuesAreRun,
       RowsAreHeard, WritesGoOn, ListenersChange
       DEF Delivery!AuditNext, Delivery!Row
  <2> QED BY <2>1, <2>2, <2>3
<1>3. DeliveryInv => AnnouncedOnceIfCommitted
  BY RowsWereAnnounced
<1> QED BY <1>1, <1>2, <1>3, PTL DEF ServerParts
=============================================================================
