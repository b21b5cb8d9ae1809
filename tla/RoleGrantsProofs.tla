-------------------------- MODULE RoleGrantsProofs --------------------------
(***************************************************************************)
(* What holds of grants and offers for any accounts, roles, requests and   *)
(* offers: the last admin, the authority of an admin grant and the end of  *)
(* an offer.                                                               *)
(***************************************************************************)
EXTENDS RoleGrants, FiniteSetTheorems, TLAPS

(***************************************************************************)
(* The types.                                                              *)
(***************************************************************************)
Rows == {OfferRow(o) : o \in OfferIds}
            \cup {GrantRow(s[1], s[2]) : s \in Accounts \X Roles}
            \cup {AccountRow(a) : a \in Accounts}

OfferRecords ==
    [from : Accounts, to : Accounts, role : Roles,
     status : {"pending", "declined", "accepted", "superseded"}]

\* The statements of each handler, in the order it may run them.
Path(kind) ==
    CASE kind = "none"             -> {"idle", "done"}
      [] kind = "create"           -> {"upsert", "commit"}
      [] kind = "accept"           -> {"claim", "grantor", "mint", "siblings",
                                       "supersede", "commit"}
      [] kind \in {"assign", "take"} -> {"mint", "commit"}
      [] kind = "revoke"           -> {"guard", "count", "counted", "revoke", "incoming",
                                       "outgoing", "supersede", "commit"}
      [] kind = "give_up"          -> {"revoke", "incoming", "supersede", "commit"}
      [] kind = "delete"           -> {"guard", "count", "counted", "tombstone", "outgoing",
                                       "supersede", "commit"}
      [] kind = "destroy"          -> {"destroy", "scope", "supersede", "commit"}

Statements ==
    {"idle", "done", "upsert", "claim", "grantor", "mint", "siblings", "guard", "count",
     "counted", "revoke", "tombstone", "incoming", "outgoing", "destroy", "scope",
     "supersede", "commit"}

Kinds == {"none", "create", "accept", "assign", "take", "revoke", "give_up", "delete",
          "destroy"}

TransactionTypeOK(t) ==
    /\ DOMAIN tx[t] = DOMAIN Idle
    /\ tx[t].pc \in Statements /\ tx[t].kind \in Kinds
    /\ tx[t].by \in Accounts \cup {None} /\ tx[t].to \in Accounts \cup {None}
    /\ tx[t].role \in Roles \cup {None} /\ tx[t].offer \in OfferIds \cup {None}
    /\ tx[t].id \in Nat /\ tx[t].skipped \in BOOLEAN
    /\ tx[t].next \in {"commit", "outgoing"}
    /\ tx[t].offers \subseteq OfferIds /\ tx[t].grants \subseteq Accounts \X Nat
    /\ tx[t].locks \subseteq Rows /\ tx[t].shares \subseteq Rows
    /\ tx[t].sent \subseteq OfferIds /\ tx[t].accepted \subseteq OfferIds
    /\ tx[t].superseded \subseteq OfferIds /\ tx[t].doomed \subseteq OfferIds
    /\ tx[t].minted \in Nat /\ tx[t].revoked \subseteq Accounts \X Roles
    /\ tx[t].deleted \subseteq Accounts

GrantsTypeOK ==
    /\ account \in [Accounts -> {"active", "deleted"}]
    /\ grant \in [Accounts \X Roles -> Nat]
    /\ DOMAIN offer \subseteq OfferIds
    /\ offer \in [DOMAIN offer -> OfferRecords]
    /\ next_grant \in Nat
    /\ DOMAIN tx = Requests
    /\ \A t \in Requests : TransactionTypeOK(t)
    /\ ended \subseteq DOMAIN offer
    /\ unguarded \in BOOLEAN

(***************************************************************************)
(* What is true of one transaction.                                        *)
(***************************************************************************)
Unlocked == {"idle", "done", "upsert", "claim", "guard", "count", "counted", "destroy"}
Unwritten == Unlocked \cup {"grantor", "mint", "revoke", "tombstone"}

\* It is at a statement of its handler, on rows that exist.
OnItsPath(t) ==
    /\ tx[t].pc \in Path(tx[t].kind)
    /\ tx[t].kind # "none" => tx[t].by \in Accounts /\ tx[t].to \in Accounts /\ tx[t].role \in Roles
    /\ tx[t].kind \in {"take", "give_up"} => tx[t].role \in SelfServiceRoles
    /\ tx[t].kind = "destroy" => tx[t].role \in ScopedRoles
    /\ tx[t].kind = "delete" \/ tx[t].pc \in {"guard", "count", "counted"} => tx[t].role = Admin
    /\ tx[t].next = "outgoing" => tx[t].kind = "revoke"
    /\ tx[t].offers \subseteq DOMAIN offer

\* It has written what its handler writes.
WritesItsOwn(t) ==
    /\ tx[t].pc \in Unwritten =>
        /\ tx[t].sent = {} /\ tx[t].accepted = {} /\ tx[t].superseded = {}
        /\ tx[t].minted = 0 /\ tx[t].revoked = {} /\ tx[t].deleted = {} /\ tx[t].doomed = {}
    /\ tx[t].sent # {} => tx[t].kind = "create"
    /\ tx[t].accepted \subseteq {tx[t].offer} /\ (tx[t].accepted # {} => tx[t].kind = "accept")
    /\ tx[t].revoked \subseteq Accounts \X {tx[t].role}
    /\ tx[t].revoked # {} => tx[t].kind \in {"revoke", "give_up", "destroy"}
    /\ tx[t].kind = "revoke" => tx[t].revoked \subseteq {<<tx[t].to, tx[t].role>>}
    /\ tx[t].deleted \subseteq {tx[t].to} /\ (tx[t].deleted # {} => tx[t].kind = "delete")
    /\ tx[t].kind \in {"create", "assign", "take"} => tx[t].doomed = {}
    /\ tx[t].superseded \subseteq DOMAIN offer /\ tx[t].doomed \subseteq DOMAIN offer

\* It holds the row of everything it changes; a grant it mints is new.  The row of
\* an offer is there, or the transaction is to insert it.
HoldsWhatItWrites(t) ==
    /\ tx[t].pc \in Unlocked => tx[t].locks = {} /\ tx[t].shares = {}
    /\ \A o \in tx[t].sent \cup tx[t].accepted \cup tx[t].superseded : OfferRow(o) \in tx[t].locks
    /\ \A s \in tx[t].revoked : GrantRow(s[1], s[2]) \in tx[t].locks
    /\ \A a \in tx[t].deleted : AccountRow(a) \in tx[t].locks
    /\ \A o \in OfferIds : OfferRow(o) \in tx[t].locks => o \in DOMAIN offer \cup tx[t].sent
    /\ \A o \in OfferIds : OfferRow(o) \notin tx[t].shares
    /\ \A o \in tx[t].sent \cap DOMAIN offer : offer[o] = NewOffer(tx[t].by, tx[t].to, tx[t].role)

\* An accept holds its offer, still pending, and the admin grant of its grantor.
HoldsItsOffer(t) ==
    tx[t].kind = "accept" =>
        /\ tx[t].offer \in DOMAIN offer
        /\ tx[t].pc # "claim" => tx[t].offer \in Pending /\ OfferRow(tx[t].offer) \in tx[t].locks
        /\ tx[t].role = Admin /\ tx[t].pc \notin {"claim", "grantor"} =>
            /\ GrantRow(offer[tx[t].offer].from, Admin) \in tx[t].shares
            /\ grant[offer[tx[t].offer].from, Admin] # 0

\* Whoever counted the admins holds another one.
HoldsAnotherAdmin(t) ==
    (/\ tx[t].kind \in {"revoke", "delete"} /\ tx[t].role = Admin /\ ~tx[t].skipped
     /\ tx[t].pc \notin {"guard", "count", "counted"}) =>
        \E a \in Accounts \ {tx[t].to} :
            HoldsAdmin(a) /\ GrantRow(a, Admin) \in tx[t].locks /\ AccountRow(a) \in tx[t].locks

\* What it must end and is still pending has been marked, or a cascade that is still
\* to run will find it.
WillEnd(t) ==
    CASE tx[t].pc = "siblings"  -> Incoming(tx[t].to, tx[t].role) \ {tx[t].offer}
      [] tx[t].pc = "incoming"  -> Incoming(tx[t].to, tx[t].role)
                                \cup (IF tx[t].kind = "revoke" THEN Outgoing(tx[t].to) ELSE {})
      [] tx[t].pc = "outgoing"  -> tx[t].superseded \cup Outgoing(tx[t].to)
      [] tx[t].pc = "scope"     -> {o \in Pending : offer[o].role = tx[t].role}
      [] tx[t].pc = "supersede" -> tx[t].offers \cup tx[t].superseded
                                \cup (IF tx[t].next = "outgoing" THEN Outgoing(tx[t].to) ELSE {})
      [] OTHER              -> tx[t].superseded

Sound(t) ==
    /\ OnItsPath(t)
    /\ WritesItsOwn(t)
    /\ HoldsWhatItWrites(t)
    /\ HoldsItsOffer(t)
    /\ HoldsAnotherAdmin(t)
    /\ tx[t].doomed \cap Pending \subseteq WillEnd(t)

\* No two transactions hold a row, unless both share it.
Apart(t, u) ==
    /\ tx[t].locks \cap (tx[u].locks \cup tx[u].shares) = {}
    /\ tx[u].locks \cap (tx[t].locks \cup tx[t].shares) = {}

GrantsInv ==
    /\ GrantsTypeOK
    /\ \A t \in Requests : Sound(t)
    /\ \A t \in Requests : \A u \in Requests \ {t} : Apart(t, u)
    /\ ended \cap Pending = {}
    /\ OnlyAStaleGuardRemovesTheLastAdmin

-----------------------------------------------------------------------------
(***************************************************************************)
(* Rows and steps.                                                         *)
(***************************************************************************)

\* Rows of different things are different.
LEMMA RowsAreDistinct ==
  /\ \A o, p : OfferRow(o) = OfferRow(p) => o = p
  /\ \A a, b, r, s : GrantRow(a, r) = GrantRow(b, s) => a = b /\ r = s
  /\ \A a, b : AccountRow(a) = AccountRow(b) => a = b
  /\ \A o, a, r : OfferRow(o) # GrantRow(a, r)
  /\ \A o, a : OfferRow(o) # AccountRow(a)
  /\ \A a, b, r : GrantRow(a, r) # AccountRow(b)
BY DEF OfferRow, GrantRow, AccountRow

LEMMA RowTypes ==
  /\ \A o \in OfferIds : OfferRow(o) \in Rows
  /\ \A a \in Accounts, r \in Roles : GrantRow(a, r) \in Rows
  /\ \A a \in Accounts : AccountRow(a) \in Rows
<1>1. ASSUME NEW a \in Accounts, NEW r \in Roles PROVE GrantRow(a, r) \in Rows
  <2>1. <<a, r>> \in Accounts \X Roles /\ GrantRow(a, r) = GrantRow(<<a, r>>[1], <<a, r>>[2])
    OBVIOUS
  <2> QED BY <2>1 DEF Rows
<1> QED BY <1>1 DEF Rows

\* What a step leaves to a transaction that takes no part in it: the rows it holds,
\* and no offer comes back.
Spares(u) ==
  /\ \A o \in DOMAIN offer :
       /\ o \in DOMAIN offer'
       /\ offer'[o].from = offer[o].from
       /\ offer'[o].to = offer[o].to
       /\ offer'[o].role = offer[o].role
       /\ offer'[o].status = "pending" => offer[o].status = "pending"
       /\ OfferRow(o) \in tx[u].locks => offer'[o] = offer[o]
  /\ \A o \in tx[u].sent : o \in DOMAIN offer' => o \in DOMAIN offer
  /\ \A a \in Accounts :
       /\ grant[a, Admin] # 0 /\ GrantRow(a, Admin) \in tx[u].locks \cup tx[u].shares =>
            grant'[a, Admin] # 0
       /\ account[a] = "active" /\ AccountRow(a) \in tx[u].locks =>
            account'[a] = "active"

LEMMA SparedStaysSound ==
  ASSUME GrantsInv, NEW u \in Requests, tx'[u] = tx[u], Spares(u)
  PROVE  TransactionTypeOK(u)' /\ Sound(u)'
<1>1. TransactionTypeOK(u) /\ Sound(u) /\ offer \in [DOMAIN offer -> OfferRecords]
  BY DEF GrantsInv, GrantsTypeOK
<1>2. TransactionTypeOK(u)'
  BY <1>1 DEF TransactionTypeOK
<1>3. OnItsPath(u)' /\ WritesItsOwn(u)'
  BY <1>1 DEF Sound, OnItsPath, WritesItsOwn, Spares
<1>4. HoldsWhatItWrites(u)'
  <2>1. ASSUME NEW o \in (tx[u].sent \cap DOMAIN offer)'
        PROVE  offer'[o] = NewOffer(tx[u].by, tx[u].to, tx[u].role)
    BY <1>1 DEF Sound, HoldsWhatItWrites, Spares
  <2> QED BY <1>1, <2>1 DEF Sound, HoldsWhatItWrites, NewOffer, Spares
<1>5. HoldsItsOffer(u)'
  <2>1. CASE tx[u].kind # "accept"
    BY <2>1 DEF HoldsItsOffer
  <2>2. CASE tx[u].kind = "accept"
    <3>1. tx[u].offer \in DOMAIN offer /\ tx[u].offer \in DOMAIN offer'
      BY <1>1, <2>2 DEF Sound, HoldsItsOffer, Spares
    <3>2. offer'[tx[u].offer].from = offer[tx[u].offer].from
          /\ offer[tx[u].offer].from \in Accounts
      BY <1>1, <3>1 DEF Spares, OfferRecords
    <3>3. tx[u].pc # "claim" => (tx[u].offer \in Pending)' /\ OfferRow(tx[u].offer) \in tx[u].locks
      BY <1>1, <2>2, <3>1 DEF Sound, HoldsItsOffer, Spares, Pending
    <3> QED BY <1>1, <2>2, <3>1, <3>2, <3>3 DEF Sound, HoldsItsOffer, Spares
  <2> QED BY <2>1, <2>2
<1>6. HoldsAnotherAdmin(u)'
  BY <1>1 DEF Sound, HoldsAnotherAdmin, HoldsAdmin, Spares
<1>7. (tx[u].doomed \cap Pending \subseteq WillEnd(u))'
  <2>1. \A o \in tx[u].doomed : o \in Pending' => o \in tx[u].doomed \cap Pending
    BY <1>1 DEF Sound, WritesItsOwn, Pending, Spares
  <2>2. \A o \in Pending \cap Pending' : o \in WillEnd(u) => o \in WillEnd(u)'
    BY <1>1 DEF WillEnd, Pending, Incoming, Outgoing, Spares
  <2> QED BY <1>1, <2>1, <2>2 DEF Sound
<1> QED BY <1>2, <1>3, <1>4, <1>5, <1>6, <1>7 DEF Sound

\* What most steps are: one transaction reads the tables and writes nothing but
\* itself.  It is sound then, and apart from the others; they are as they were.
OnlyMoves(t) ==
  /\ DOMAIN tx' = Requests
  /\ \A u \in Requests \ {t} : tx'[u] = tx[u]
  /\ UNCHANGED <<account, grant, offer, ended, unguarded>>

LEMMA MoveKeepsInv ==
  ASSUME GrantsInv, NEW t \in Requests, OnlyMoves(t), next_grant' \in Nat,
         TransactionTypeOK(t)', Sound(t)', \A u \in Requests \ {t} : Apart(t, u)'
  PROVE  GrantsInv'
<1>1. ASSUME NEW u \in Requests PROVE TransactionTypeOK(u)' /\ Sound(u)'
  <2>1. CASE u # t
    BY <2>1, SparedStaysSound DEF OnlyMoves, Spares
  <2> QED BY <2>1
<1>2. GrantsTypeOK'
  BY <1>1 DEF GrantsInv, GrantsTypeOK, OnlyMoves
<1>3. ASSUME NEW u \in Requests, NEW v \in Requests \ {u} PROVE Apart(u, v)'
  BY DEF GrantsInv, Apart, OnlyMoves
<1>4. (ended \cap Pending = {})' /\ OnlyAStaleGuardRemovesTheLastAdmin'
  BY DEF GrantsInv, Pending, OnlyAStaleGuardRemovesTheLastAdmin, HoldsAdmin, OnlyMoves
<1> QED BY <1>1, <1>2, <1>3, <1>4 DEF GrantsInv

\* What such a step keeps of its transaction.
SameRequest(t) ==
  /\ DOMAIN tx'[t] = DOMAIN Idle
  /\ tx'[t].kind = tx[t].kind /\ tx'[t].by = tx[t].by /\ tx'[t].to = tx[t].to
  /\ tx'[t].role = tx[t].role /\ tx'[t].offer = tx[t].offer /\ tx'[t].id = tx[t].id

SameFindings(t) ==
  /\ tx'[t].skipped = tx[t].skipped /\ tx'[t].next = tx[t].next
  /\ tx'[t].offers = tx[t].offers /\ tx'[t].grants = tx[t].grants

SameRows(t) == tx'[t].locks = tx[t].locks /\ tx'[t].shares = tx[t].shares

SameWrites(t) ==
  /\ tx'[t].sent = tx[t].sent /\ tx'[t].accepted = tx[t].accepted
  /\ tx'[t].superseded = tx[t].superseded /\ tx'[t].minted = tx[t].minted
  /\ tx'[t].revoked = tx[t].revoked /\ tx'[t].deleted = tx[t].deleted
  /\ tx'[t].doomed = tx[t].doomed

-----------------------------------------------------------------------------
(***************************************************************************)
(* The statements, each alone.                                             *)
(***************************************************************************)

\* An UPDATE takes the rows that it writes; what it was to end is ended.
LEMMA SupersedeKeepsInv ==
  ASSUME GrantsInv, NEW t \in Requests, Supersede(t)
  PROVE  GrantsInv'
<1>1. /\ TransactionTypeOK(t) /\ Sound(t) /\ DOMAIN tx = Requests
      /\ next_grant \in Nat
  BY DEF GrantsInv, GrantsTypeOK
<1>2. tx[t].pc = "supersede" /\ Blockers(t) = {} /\ Needs(t) = {OfferRow(o) : o \in tx[t].offers}
  BY DEF Supersede, At, Needs
<1>3. OnlyMoves(t) /\ next_grant' \in Nat
  BY <1>1, <1>2 DEF Supersede, Go, OnlyMoves
<1>4. /\ SameRequest(t)
      /\ SameFindings(t)
      /\ tx'[t].pc = tx[t].next
      /\ tx'[t].locks = tx[t].locks \cup Needs(t)
      /\ tx'[t].superseded = tx[t].superseded \cup (tx[t].offers \cap Pending)
      /\ tx'[t].shares = tx[t].shares /\ tx'[t].sent = tx[t].sent
      /\ tx'[t].accepted = tx[t].accepted /\ tx'[t].minted = tx[t].minted
      /\ tx'[t].revoked = tx[t].revoked /\ tx'[t].deleted = tx[t].deleted
      /\ tx'[t].doomed = tx[t].doomed
  BY <1>1, <1>2 DEF Supersede, Go, TransactionTypeOK, Idle,
         SameRequest, SameFindings, SameRows, SameWrites
<1>5. Needs(t) \subseteq Rows
  BY <1>1, <1>2, RowTypes DEF TransactionTypeOK
<1> USE <1>1, <1>2, <1>3, <1>4 DEF TransactionTypeOK, Kinds, Sound, OnlyMoves,
        SameRequest, SameFindings, SameRows, SameWrites
<1>6. TransactionTypeOK(t)'
  BY <1>5 DEF TransactionTypeOK, Statements
<1>7. OnItsPath(t)'
  BY DEF OnItsPath, Path
<1>8. WritesItsOwn(t)'
  BY DEF WritesItsOwn, OnItsPath, Path, Unwritten, Unlocked, Pending
<1>9. HoldsWhatItWrites(t)'
  BY RowsAreDistinct DEF HoldsWhatItWrites, OnItsPath, WritesItsOwn, Unlocked, Unwritten
<1>10. HoldsItsOffer(t)'
  BY DEF HoldsItsOffer, Pending, OnItsPath, Path
<1>11. HoldsAnotherAdmin(t)'
  BY DEF HoldsAnotherAdmin, HoldsAdmin, OnItsPath, Path
<1>12. (tx[t].doomed \cap Pending \subseteq WillEnd(t))'
  BY DEF WillEnd, Pending, Incoming, Outgoing
<1>13. \A u \in Requests \ {t} : Apart(t, u)'
  BY DEF GrantsInv, Apart, Blockers
<1> QED BY <1>6, <1>7, <1>8, <1>9, <1>10, <1>11, <1>12, <1>13, MoveKeepsInv

\* A cascade finds all of the offers that it is still to end.
LEMMA FindOffersKeepsInv ==
  ASSUME GrantsInv, NEW t \in Requests, FindOffers(t)
  PROVE  GrantsInv'
<1>1. /\ TransactionTypeOK(t) /\ Sound(t) /\ DOMAIN tx = Requests
      /\ next_grant \in Nat
  BY DEF GrantsInv, GrantsTypeOK
<1>2. tx[t].pc \in {"siblings", "incoming", "outgoing", "scope"}
  BY DEF FindOffers
<1>3. OnlyMoves(t) /\ next_grant' \in Nat
  BY <1>1, <1>2 DEF FindOffers, Go, OnlyMoves
<1>4. /\ SameRequest(t)
      /\ SameRows(t)
      /\ SameWrites(t)
      /\ tx'[t].pc = "supersede"
      /\ tx'[t].offers = Cascade(t)
      /\ tx'[t].next = IF tx[t].pc = "incoming" /\ tx[t].kind = "revoke"
                       THEN "outgoing" ELSE "commit"
      /\ tx'[t].skipped = tx[t].skipped /\ tx'[t].grants = tx[t].grants
  BY <1>1, <1>2 DEF FindOffers, Go, TransactionTypeOK, Idle,
         SameRequest, SameFindings, SameRows, SameWrites
<1>5. Cascade(t) \subseteq DOMAIN offer /\ DOMAIN offer \subseteq OfferIds
  BY <1>2 DEF GrantsInv, GrantsTypeOK, Cascade, Pending, Incoming, Outgoing
<1> USE <1>1, <1>2, <1>3, <1>4 DEF TransactionTypeOK, Kinds, Sound, OnlyMoves,
        SameRequest, SameFindings, SameRows, SameWrites
<1>6. TransactionTypeOK(t)'
  BY <1>5 DEF TransactionTypeOK, Statements
<1>7. OnItsPath(t)'
  BY <1>5 DEF OnItsPath, Path
<1>8. WritesItsOwn(t)'
  BY DEF WritesItsOwn, OnItsPath, Path, Unwritten, Unlocked
<1>9. HoldsWhatItWrites(t)'
  BY DEF HoldsWhatItWrites, OnItsPath, WritesItsOwn, Unlocked, Unwritten
<1>10. HoldsItsOffer(t)'
  BY DEF HoldsItsOffer, Pending, OnItsPath, Path
<1>11. HoldsAnotherAdmin(t)'
  BY DEF HoldsAnotherAdmin, HoldsAdmin, OnItsPath, Path
<1>12. (tx[t].doomed \cap Pending \subseteq WillEnd(t))'
  BY DEF WillEnd, Cascade, Pending, Incoming, Outgoing
<1>13. \A u \in Requests \ {t} : Apart(t, u)'
  BY DEF GrantsInv, Apart, Blockers
<1> QED BY <1>6, <1>7, <1>8, <1>9, <1>10, <1>11, <1>12, <1>13, MoveKeepsInv

\* The guard reads whether there is an admin to count.
LEMMA GuardKeepsInv ==
  ASSUME GrantsInv, NEW t \in Requests, Guard(t)
  PROVE  GrantsInv'
<1>1. /\ TransactionTypeOK(t) /\ Sound(t) /\ DOMAIN tx = Requests
      /\ next_grant \in Nat
  BY DEF GrantsInv, GrantsTypeOK
<1>2. tx[t].pc = "guard"
  BY DEF Guard
<1>3. OnlyMoves(t) /\ next_grant' \in Nat
  BY <1>1, <1>2 DEF Guard, Go, OnlyMoves
<1>4. /\ SameRequest(t)
      /\ SameRows(t)
      /\ SameWrites(t)
      /\ tx'[t].skipped = ~HoldsAdmin(tx[t].to)
      /\ tx'[t].pc = IF HoldsAdmin(tx[t].to) THEN "count"
                    ELSE IF tx[t].kind = "revoke" THEN "revoke" ELSE "tombstone"
      /\ tx'[t].next = tx[t].next /\ tx'[t].offers = tx[t].offers
      /\ tx'[t].grants = tx[t].grants
  BY <1>1, <1>2 DEF Guard, Go, TransactionTypeOK, Idle,
         SameRequest, SameFindings, SameRows, SameWrites
<1> USE <1>1, <1>2, <1>3, <1>4 DEF TransactionTypeOK, Kinds, Sound, OnlyMoves,
        SameRequest, SameFindings, SameRows, SameWrites
<1>5. TransactionTypeOK(t)'
  BY DEF TransactionTypeOK, Statements, HoldsAdmin
<1>6. OnItsPath(t)'
  BY DEF OnItsPath, Path
<1>7. WritesItsOwn(t)'
  BY DEF WritesItsOwn, OnItsPath, Path, Unwritten, Unlocked
<1>8. HoldsWhatItWrites(t)'
  BY DEF HoldsWhatItWrites, OnItsPath, WritesItsOwn, Unlocked, Unwritten
<1>9. HoldsItsOffer(t)'
  BY DEF HoldsItsOffer, Pending, OnItsPath, Path
<1>10. HoldsAnotherAdmin(t)'
  BY DEF HoldsAnotherAdmin, HoldsAdmin, OnItsPath, Path
<1>11. (tx[t].doomed \cap Pending \subseteq WillEnd(t))'
  BY DEF WillEnd, Pending, Incoming, Outgoing
<1>12. \A u \in Requests \ {t} : Apart(t, u)'
  BY DEF GrantsInv, Apart, Blockers
<1> QED BY <1>5, <1>6, <1>7, <1>8, <1>9, <1>10, <1>11, <1>12, MoveKeepsInv

\* The count finds grants.
LEMMA CountKeepsInv ==
  ASSUME GrantsInv, NEW t \in Requests, Count(t)
  PROVE  GrantsInv'
<1>1. /\ TransactionTypeOK(t) /\ Sound(t) /\ DOMAIN tx = Requests
      /\ next_grant \in Nat
  BY DEF GrantsInv, GrantsTypeOK
<1>2. tx[t].pc = "count"
  BY DEF Count
<1>3. OnlyMoves(t) /\ next_grant' \in Nat
  BY <1>1, <1>2 DEF Count, Go, OnlyMoves
<1>4. /\ SameRequest(t)
      /\ SameRows(t)
      /\ SameWrites(t)
      /\ tx'[t].grants = {<<a, grant[a, Admin]>> : a \in {b \in Accounts : HoldsAdmin(b)}}
      /\ tx'[t].pc = "counted"
      /\ tx'[t].skipped = tx[t].skipped /\ tx'[t].next = tx[t].next
      /\ tx'[t].offers = tx[t].offers
  BY <1>1, <1>2 DEF Count, Go, TransactionTypeOK, Idle,
         SameRequest, SameFindings, SameRows, SameWrites
<1>5. \A a \in Accounts : grant[a, Admin] \in Nat
  BY DEF GrantsInv, GrantsTypeOK, Roles
<1>6. tx'[t].grants \subseteq Accounts \X Nat
  <2> SUFFICES ASSUME NEW g \in tx'[t].grants PROVE g \in Accounts \X Nat
    OBVIOUS
  <2>1. PICK a \in Accounts : g = <<a, grant[a, Admin]>>
    BY <1>4
  <2> QED BY <1>5, <2>1
<1> USE <1>1, <1>2, <1>3, <1>4 DEF TransactionTypeOK, Kinds, Sound, OnlyMoves,
        SameRequest, SameFindings, SameRows, SameWrites
<1>7. TransactionTypeOK(t)'
  BY <1>6 DEF TransactionTypeOK, Statements
<1>8. OnItsPath(t)'
  BY DEF OnItsPath, Path
<1>9. WritesItsOwn(t)'
  BY DEF WritesItsOwn, OnItsPath, Path, Unwritten, Unlocked
<1>10. HoldsWhatItWrites(t)'
  BY DEF HoldsWhatItWrites, OnItsPath, WritesItsOwn, Unlocked, Unwritten
<1>11. HoldsItsOffer(t)'
  BY DEF HoldsItsOffer, Pending, OnItsPath, Path
<1>12. HoldsAnotherAdmin(t)'
  BY DEF HoldsAnotherAdmin, HoldsAdmin, OnItsPath, Path
<1>13. (tx[t].doomed \cap Pending \subseteq WillEnd(t))'
  BY DEF WillEnd, Pending, Incoming, Outgoing
<1>14. \A u \in Requests \ {t} : Apart(t, u)'
  BY DEF GrantsInv, Apart, Blockers
<1> QED BY <1>7, <1>8, <1>9, <1>10, <1>11, <1>12, <1>13, <1>14, MoveKeepsInv

\* Who is left once every row is locked: someone besides the one to be removed.
LEMMA CountedKeepsInv ==
  ASSUME GrantsInv, NEW t \in Requests, Counted(t), ~RollBack(t)
  PROVE  GrantsInv'
<1>1. /\ TransactionTypeOK(t) /\ Sound(t) /\ DOMAIN tx = Requests
      /\ next_grant \in Nat
  BY DEF GrantsInv, GrantsTypeOK
<1>2. /\ tx[t].pc = "counted" /\ Blockers(t) = {}
      /\ Needs(t) = {GrantRow(g[1], Admin) : g \in tx[t].grants}
                       \cup {AccountRow(g[1]) : g \in tx[t].grants}
  BY DEF Counted, At, Needs
<1>3. /\ Go(t, [tx[t] EXCEPT !.locks = Needs(t),
                          !.pc = IF tx[t].kind = "revoke" THEN "revoke" ELSE "tombstone"])
      /\ UNCHANGED <<account, grant, offer, next_grant, ended, unguarded>>
  BY <1>2 DEF Counted
<1>4. OnlyMoves(t) /\ next_grant' \in Nat
  BY <1>1, <1>2, <1>3 DEF Go, OnlyMoves
<1>5. /\ SameRequest(t)
      /\ SameFindings(t)
      /\ SameWrites(t)
      /\ tx'[t].locks = Needs(t)
      /\ tx'[t].pc = IF tx[t].kind = "revoke" THEN "revoke" ELSE "tombstone"
      /\ tx'[t].shares = tx[t].shares
  BY <1>1, <1>2, <1>3 DEF Go, TransactionTypeOK, Idle,
         SameRequest, SameFindings, SameRows, SameWrites
<1>6. Needs(t) \subseteq Rows
  BY <1>1, <1>2, RowTypes DEF TransactionTypeOK, Roles
<1>7. PICK b \in Accounts \ {tx[t].to} : HoldsAdmin(b) /\ <<b, grant[b, Admin]>> \in tx[t].grants
  <2> DEFINE left == {a \in Accounts : HoldsAdmin(a) /\ <<a, grant[a, Admin]>> \in tx[t].grants}
  <2>1. IF tx[t].kind = "revoke" THEN left \ {tx[t].to} # {} ELSE Cardinality(left) > 1
    BY DEF Counted
  <2>2. IsFiniteSet(left)
    BY GrantsAssumption, FS_Subset
  <2>3. ~(left \subseteq {tx[t].to})
    <3>1. CASE tx[t].kind = "revoke"
      BY <2>1, <3>1
    <3>2. CASE Cardinality(left) > 1
      <4> SUFFICES ASSUME left \subseteq {tx[t].to} PROVE FALSE
        OBVIOUS
      <4>1. left = {} \/ left = {tx[t].to}
        OBVIOUS
      <4>2. Cardinality({}) = 0 /\ Cardinality({tx[t].to}) = 1
        BY FS_EmptySet, FS_Singleton
      <4> HIDE DEF left
      <4> QED BY <3>2, <4>1, <4>2
    <3> QED BY <2>1, <3>1, <3>2
  <2> QED BY <2>3
<1>8. GrantRow(b, Admin) \in Needs(t) /\ AccountRow(b) \in Needs(t)
  <2>1. <<b, grant[b, Admin]>>[1] = b
    OBVIOUS
  <2> QED BY <1>2, <1>7, <2>1
<1> USE <1>1, <1>2, <1>4, <1>5 DEF TransactionTypeOK, Kinds, Sound, OnlyMoves,
        SameRequest, SameFindings, SameRows, SameWrites
<1>9. TransactionTypeOK(t)'
  BY <1>6 DEF TransactionTypeOK, Statements
<1>10. OnItsPath(t)'
  BY DEF OnItsPath, Path
<1>11. WritesItsOwn(t)'
  BY DEF WritesItsOwn, OnItsPath, Path, Unwritten, Unlocked
<1>12. HoldsWhatItWrites(t)'
  BY RowsAreDistinct DEF HoldsWhatItWrites, OnItsPath, WritesItsOwn, Unlocked, Unwritten
<1>13. HoldsItsOffer(t)'
  BY DEF HoldsItsOffer, Pending, OnItsPath, Path
<1>14. HoldsAnotherAdmin(t)'
  BY <1>7, <1>8 DEF HoldsAnotherAdmin, HoldsAdmin
<1>15. (tx[t].doomed \cap Pending \subseteq WillEnd(t))'
  BY DEF WillEnd, Pending, Incoming, Outgoing
<1>16. \A u \in Requests \ {t} : Apart(t, u)'
  BY DEF GrantsInv, Apart, Blockers
<1> QED BY <1>9, <1>10, <1>11, <1>12, <1>13, <1>14, <1>15, <1>16, MoveKeepsInv

\* The UPDATE of the grant takes its row.
LEMMA RevokeGrantKeepsInv ==
  ASSUME GrantsInv, NEW t \in Requests, RevokeGrant(t), ~RollBack(t)
  PROVE  GrantsInv'
<1>1. /\ TransactionTypeOK(t) /\ Sound(t) /\ DOMAIN tx = Requests
      /\ next_grant \in Nat
  BY DEF GrantsInv, GrantsTypeOK
<1>2. tx[t].pc = "revoke" /\ Blockers(t) = {} /\ Needs(t) = {GrantRow(tx[t].to, tx[t].role)}
  BY DEF RevokeGrant, At, Needs
<1>3. /\ Go(t, [tx[t] EXCEPT
                   !.locks = @ \cup Needs(t), !.revoked = {<<tx[t].to, tx[t].role>>}, !.pc = "incoming",
                   !.doomed = Incoming(tx[t].to, tx[t].role)
                                \cup (IF tx[t].kind = "revoke" THEN Outgoing(tx[t].to) ELSE {})])
      /\ UNCHANGED <<account, grant, offer, next_grant, ended, unguarded>>
  BY <1>2 DEF RevokeGrant
<1>4. OnlyMoves(t) /\ next_grant' \in Nat
  BY <1>1, <1>2, <1>3 DEF Go, OnlyMoves
<1>5. /\ SameRequest(t)
      /\ SameFindings(t)
      /\ tx'[t].locks = tx[t].locks \cup Needs(t)
      /\ tx'[t].revoked = {<<tx[t].to, tx[t].role>>}
      /\ tx'[t].pc = "incoming"
      /\ tx'[t].doomed = Incoming(tx[t].to, tx[t].role)
                         \cup (IF tx[t].kind = "revoke" THEN Outgoing(tx[t].to) ELSE {})
      /\ tx'[t].shares = tx[t].shares /\ tx'[t].sent = tx[t].sent
      /\ tx'[t].accepted = tx[t].accepted /\ tx'[t].superseded = tx[t].superseded
      /\ tx'[t].minted = tx[t].minted /\ tx'[t].deleted = tx[t].deleted
  BY <1>1, <1>2, <1>3 DEF Go, TransactionTypeOK, Idle,
         SameRequest, SameFindings, SameRows, SameWrites
<1>6. Needs(t) \subseteq Rows
  BY <1>1, <1>2, RowTypes DEF TransactionTypeOK, Sound, OnItsPath, Path, Kinds
<1>7. DOMAIN offer \subseteq OfferIds /\ \A o \in Pending : o \in DOMAIN offer
  BY DEF GrantsInv, GrantsTypeOK, Pending
<1> USE <1>1, <1>2, <1>4, <1>5 DEF TransactionTypeOK, Kinds, Sound, OnlyMoves,
        SameRequest, SameFindings, SameRows, SameWrites
<1>8. TransactionTypeOK(t)'
  BY <1>6, <1>7 DEF TransactionTypeOK, Statements, Incoming, Outgoing, OnItsPath, Path
<1>9. OnItsPath(t)'
  BY DEF OnItsPath, Path
<1>10. WritesItsOwn(t)'
  BY <1>7 DEF WritesItsOwn, OnItsPath, Path, Unwritten, Unlocked, Incoming, Outgoing
<1>11. HoldsWhatItWrites(t)'
  BY RowsAreDistinct DEF HoldsWhatItWrites, OnItsPath, WritesItsOwn, Unlocked, Unwritten
<1>12. HoldsItsOffer(t)'
  BY DEF HoldsItsOffer, Pending, OnItsPath, Path
<1>13. HoldsAnotherAdmin(t)'
  BY DEF HoldsAnotherAdmin, HoldsAdmin, OnItsPath, Path
<1>14. (tx[t].doomed \cap Pending \subseteq WillEnd(t))'
  BY DEF WillEnd, Pending, Incoming, Outgoing
<1>15. \A u \in Requests \ {t} : Apart(t, u)'
  BY DEF GrantsInv, Apart, Blockers
<1> QED BY <1>8, <1>9, <1>10, <1>11, <1>12, <1>13, <1>14, <1>15, MoveKeepsInv

\* The UPDATE of the account takes its row.
LEMMA TombstoneKeepsInv ==
  ASSUME GrantsInv, NEW t \in Requests, Tombstone(t), ~RollBack(t)
  PROVE  GrantsInv'
<1>1. /\ TransactionTypeOK(t) /\ Sound(t) /\ DOMAIN tx = Requests
      /\ next_grant \in Nat
  BY DEF GrantsInv, GrantsTypeOK
<1>2. tx[t].pc = "tombstone" /\ Blockers(t) = {} /\ Needs(t) = {AccountRow(tx[t].to)}
  BY DEF Tombstone, At, Needs
<1>3. /\ Go(t, [tx[t] EXCEPT !.locks = @ \cup Needs(t), !.deleted = {tx[t].to},
                            !.doomed = Outgoing(tx[t].to), !.pc = "outgoing"])
      /\ UNCHANGED <<account, grant, offer, next_grant, ended, unguarded>>
  BY <1>2 DEF Tombstone
<1>4. OnlyMoves(t) /\ next_grant' \in Nat
  BY <1>1, <1>2, <1>3 DEF Go, OnlyMoves
<1>5. /\ SameRequest(t)
      /\ SameFindings(t)
      /\ tx'[t].locks = tx[t].locks \cup Needs(t)
      /\ tx'[t].deleted = {tx[t].to}
      /\ tx'[t].doomed = Outgoing(tx[t].to)
      /\ tx'[t].pc = "outgoing"
      /\ tx'[t].shares = tx[t].shares /\ tx'[t].sent = tx[t].sent
      /\ tx'[t].accepted = tx[t].accepted /\ tx'[t].superseded = tx[t].superseded
      /\ tx'[t].minted = tx[t].minted /\ tx'[t].revoked = tx[t].revoked
  BY <1>1, <1>2, <1>3 DEF Go, TransactionTypeOK, Idle,
         SameRequest, SameFindings, SameRows, SameWrites
<1>6. Needs(t) \subseteq Rows
  BY <1>1, <1>2, RowTypes DEF TransactionTypeOK, Sound, OnItsPath, Path, Kinds
<1>7. DOMAIN offer \subseteq OfferIds /\ \A o \in Pending : o \in DOMAIN offer
  BY DEF GrantsInv, GrantsTypeOK, Pending
<1> USE <1>1, <1>2, <1>4, <1>5 DEF TransactionTypeOK, Kinds, Sound, OnlyMoves,
        SameRequest, SameFindings, SameRows, SameWrites
<1>8. TransactionTypeOK(t)'
  BY <1>6, <1>7 DEF TransactionTypeOK, Statements, Outgoing, OnItsPath, Path
<1>9. OnItsPath(t)'
  BY DEF OnItsPath, Path
<1>10. WritesItsOwn(t)'
  BY <1>7 DEF WritesItsOwn, OnItsPath, Path, Unwritten, Unlocked, Incoming, Outgoing
<1>11. HoldsWhatItWrites(t)'
  BY RowsAreDistinct DEF HoldsWhatItWrites, OnItsPath, WritesItsOwn, Unlocked, Unwritten
<1>12. HoldsItsOffer(t)'
  BY DEF HoldsItsOffer, Pending, OnItsPath, Path
<1>13. HoldsAnotherAdmin(t)'
  BY DEF HoldsAnotherAdmin, HoldsAdmin, OnItsPath, Path
<1>14. (tx[t].doomed \cap Pending \subseteq WillEnd(t))'
  BY DEF WillEnd, Pending, Incoming, Outgoing
<1>15. \A u \in Requests \ {t} : Apart(t, u)'
  BY DEF GrantsInv, Apart, Blockers
<1> QED BY <1>8, <1>9, <1>10, <1>11, <1>12, <1>13, <1>14, <1>15, MoveKeepsInv

\* The UPDATE of the grants of a scope takes their rows.
LEMMA DestroyScopeKeepsInv ==
  ASSUME GrantsInv, NEW t \in Requests, DestroyScope(t)
  PROVE  GrantsInv'
<1>1. /\ TransactionTypeOK(t) /\ Sound(t) /\ DOMAIN tx = Requests
      /\ next_grant \in Nat
  BY DEF GrantsInv, GrantsTypeOK
<1>2. tx[t].pc = "destroy" /\ Blockers(t) = {} /\ Needs(t) = {GrantRow(g[1], tx[t].role) : g \in tx[t].grants}
  BY DEF DestroyScope, At, Needs
<1>3. OnlyMoves(t) /\ next_grant' \in Nat
  BY <1>1, <1>2 DEF DestroyScope, Go, OnlyMoves
<1>4. /\ SameRequest(t)
      /\ SameFindings(t)
      /\ tx'[t].locks = tx[t].locks \cup Needs(t)
      /\ tx'[t].revoked = {<<g[1], tx[t].role>> :
                           g \in {h \in tx[t].grants : grant[h[1], tx[t].role] = h[2]}}
      /\ tx'[t].doomed = {o \in Pending : offer[o].role = tx[t].role}
      /\ tx'[t].pc = "scope"
      /\ tx'[t].shares = tx[t].shares /\ tx'[t].sent = tx[t].sent
      /\ tx'[t].accepted = tx[t].accepted /\ tx'[t].superseded = tx[t].superseded
      /\ tx'[t].minted = tx[t].minted /\ tx'[t].deleted = tx[t].deleted
  BY <1>1, <1>2 DEF DestroyScope, Go, TransactionTypeOK, Idle,
         SameRequest, SameFindings, SameRows, SameWrites
<1>5. Needs(t) \subseteq Rows
  BY <1>1, <1>2, RowTypes DEF TransactionTypeOK, Sound, OnItsPath, Path, Kinds
<1>6. DOMAIN offer \subseteq OfferIds /\ \A o \in Pending : o \in DOMAIN offer
  BY DEF GrantsInv, GrantsTypeOK, Pending
<1>7. \A o : OfferRow(o) \notin Needs(t)
  BY <1>2, RowsAreDistinct
<1>8. /\ tx'[t].revoked \subseteq Accounts \X {tx[t].role}
      /\ \A s \in tx'[t].revoked : GrantRow(s[1], s[2]) \in Needs(t)
  <2> SUFFICES ASSUME NEW s \in tx'[t].revoked
               PROVE  s \in Accounts \X {tx[t].role} /\ GrantRow(s[1], s[2]) \in Needs(t)
    OBVIOUS
  <2>1. PICK g \in tx[t].grants : s = <<g[1], tx[t].role>>
    BY <1>4
  <2>2. g[1] \in Accounts
    BY <1>1 DEF TransactionTypeOK
  <2>3. s[1] = g[1] /\ s[2] = tx[t].role
    BY <2>1
  <2> QED BY <1>2, <2>1, <2>2, <2>3
<1> USE <1>1, <1>2, <1>3, <1>4 DEF TransactionTypeOK, Kinds, Sound, OnlyMoves,
        SameRequest, SameFindings, SameRows, SameWrites
<1>9. TransactionTypeOK(t)'
  BY <1>5, <1>6, <1>8 DEF TransactionTypeOK, Statements, OnItsPath, Path
<1>10. OnItsPath(t)'
  BY DEF OnItsPath, Path
<1>11. WritesItsOwn(t)'
  BY <1>6, <1>8 DEF WritesItsOwn, OnItsPath, Path, Unwritten, Unlocked
<1>12. HoldsWhatItWrites(t)'
  BY <1>7, <1>8 DEF HoldsWhatItWrites, OnItsPath, WritesItsOwn, Unlocked, Unwritten
<1>13. HoldsItsOffer(t)'
  BY DEF HoldsItsOffer, Pending, OnItsPath, Path
<1>14. HoldsAnotherAdmin(t)'
  BY DEF HoldsAnotherAdmin, HoldsAdmin, OnItsPath, Path
<1>15. (tx[t].doomed \cap Pending \subseteq WillEnd(t))'
  BY DEF WillEnd, Pending, Incoming, Outgoing
<1>16. \A u \in Requests \ {t} : Apart(t, u)'
  BY DEF GrantsInv, Apart, Blockers
<1> QED BY <1>9, <1>10, <1>11, <1>12, <1>13, <1>14, <1>15, <1>16, MoveKeepsInv

\* An upsert writes an offer whose row nobody holds: one that is there and is the same,
\* or one that is new.
LEMMA WriteOfferKeepsInv ==
  ASSUME GrantsInv, NEW t \in Requests, NEW o \in OfferIds, tx[t].pc = "upsert",
         Blockers(t) = {}, Go(t, [tx[t] EXCEPT !.pc = "commit", !.sent = {o},
                            !.locks = @ \cup {OfferRow(o)}]),
         UNCHANGED <<account, grant, offer, next_grant, ended, unguarded>>,
         \/ o \in Incoming(tx[t].to, tx[t].role) \cap Outgoing(tx[t].by)
         \/ o \notin DOMAIN offer /\ \A u \in Requests : o \notin tx[u].sent
  PROVE  GrantsInv'
<1>1. /\ TransactionTypeOK(t) /\ Sound(t) /\ DOMAIN tx = Requests
      /\ next_grant \in Nat
  BY DEF GrantsInv, GrantsTypeOK
<1>2. tx[t].kind = "create" /\ tx[t].locks = {} /\ tx[t].shares = {}
  BY <1>1 DEF Sound, OnItsPath, Path, TransactionTypeOK, Kinds, HoldsWhatItWrites, Unlocked
<1>3. OnlyMoves(t) /\ next_grant' \in Nat
  BY <1>1, <1>2 DEF Go, Go, OnlyMoves
<1>4. /\ SameRequest(t)
      /\ SameFindings(t)
      /\ tx'[t].pc = "commit"
      /\ tx'[t].sent = {o}
      /\ tx'[t].locks = {OfferRow(o)}
      /\ tx'[t].shares = tx[t].shares /\ tx'[t].accepted = tx[t].accepted
      /\ tx'[t].superseded = tx[t].superseded /\ tx'[t].minted = tx[t].minted
      /\ tx'[t].revoked = tx[t].revoked /\ tx'[t].deleted = tx[t].deleted
      /\ tx'[t].doomed = tx[t].doomed
  BY <1>1, <1>2 DEF Go, Go, TransactionTypeOK, Idle,
         SameRequest, SameFindings, SameRows, SameWrites
<1>5. OfferRow(o) \in Rows
  BY RowTypes
<1>6. o \in DOMAIN offer => offer[o] = NewOffer(tx[t].by, tx[t].to, tx[t].role)
  BY DEF GrantsInv, GrantsTypeOK, OfferRecords, Incoming, Outgoing, Pending, NewOffer
<1>7. \A u \in Requests \ {t} : OfferRow(o) \notin tx[u].locks \cup tx[u].shares
  <2> SUFFICES ASSUME NEW u \in Requests \ {t} PROVE OfferRow(o) \notin tx[u].locks \cup tx[u].shares
    OBVIOUS
  <2>1. CASE o \in Incoming(tx[t].to, tx[t].role) \cap Outgoing(tx[t].by)
    <3>1. OfferRow(o) \in Needs(t)
      BY <2>1 DEF Needs
    <3> QED BY <3>1 DEF Blockers
  <2>2. CASE o \notin DOMAIN offer /\ o \notin tx[u].sent
    BY <2>2 DEF GrantsInv, Sound, HoldsWhatItWrites
  <2> QED BY <2>1, <2>2
<1> USE <1>1, <1>2, <1>3, <1>4 DEF TransactionTypeOK, Kinds, Sound, OnlyMoves,
        SameRequest, SameFindings, SameRows, SameWrites
<1>8. TransactionTypeOK(t)'
  BY <1>5 DEF TransactionTypeOK, Statements
<1>9. OnItsPath(t)'
  BY DEF OnItsPath, Path
<1>10. WritesItsOwn(t)'
  BY DEF WritesItsOwn, OnItsPath, Path, Unwritten, Unlocked
<1>11. HoldsWhatItWrites(t)'
  BY <1>6, RowsAreDistinct DEF HoldsWhatItWrites, OnItsPath, WritesItsOwn, Unlocked, Unwritten
<1>12. HoldsItsOffer(t)'
  BY DEF HoldsItsOffer, Pending, OnItsPath, Path
<1>13. HoldsAnotherAdmin(t)'
  BY DEF HoldsAnotherAdmin, HoldsAdmin, OnItsPath, Path
<1>14. (tx[t].doomed \cap Pending \subseteq WillEnd(t))'
  BY DEF WillEnd, Pending, Incoming, Outgoing
<1>15. \A u \in Requests \ {t} : Apart(t, u)'
  BY <1>7 DEF GrantsInv, Apart
<1> QED BY <1>8, <1>9, <1>10, <1>11, <1>12, <1>13, <1>14, <1>15, MoveKeepsInv

\* The claim takes an offer that is pending.
LEMMA ClaimKeepsInv ==
  ASSUME GrantsInv, NEW t \in Requests, Claim(t), ~RollBack(t)
  PROVE  GrantsInv'
<1>1. /\ TransactionTypeOK(t) /\ Sound(t) /\ DOMAIN tx = Requests
      /\ next_grant \in Nat
  BY DEF GrantsInv, GrantsTypeOK
<1>2. /\ tx[t].pc = "claim" /\ Blockers(t) = {} /\ Needs(t) = {OfferRow(tx[t].offer)}
      /\ tx[t].kind = "accept" /\ offer[tx[t].offer].status = "pending"
  BY <1>1 DEF Claim, At, Needs, Sound, OnItsPath, Path, TransactionTypeOK, Kinds
<1>3. /\ Go(t, [tx[t] EXCEPT !.locks = {OfferRow(tx[t].offer)},
                            !.pc = IF tx[t].role = Admin THEN "grantor" ELSE "mint"])
      /\ UNCHANGED <<account, grant, offer, next_grant, ended, unguarded>>
  BY <1>2 DEF Claim
<1>4. OnlyMoves(t) /\ next_grant' \in Nat
  BY <1>1, <1>2, <1>3 DEF Go, OnlyMoves
<1>5. /\ SameRequest(t)
      /\ SameFindings(t)
      /\ SameWrites(t)
      /\ tx'[t].locks = {OfferRow(tx[t].offer)}
      /\ tx'[t].pc = IF tx[t].role = Admin THEN "grantor" ELSE "mint"
      /\ tx'[t].shares = tx[t].shares
  BY <1>1, <1>2, <1>3 DEF Go, TransactionTypeOK, Idle,
         SameRequest, SameFindings, SameRows, SameWrites
<1>6. tx[t].offer \in DOMAIN offer /\ DOMAIN offer \subseteq OfferIds
  BY <1>1, <1>2 DEF Sound, HoldsItsOffer, GrantsInv, GrantsTypeOK
<1>7. OfferRow(tx[t].offer) \in Rows
  BY <1>6, RowTypes
<1> USE <1>1, <1>2, <1>4, <1>5 DEF TransactionTypeOK, Kinds, Sound, OnlyMoves,
        SameRequest, SameFindings, SameRows, SameWrites
<1>8. TransactionTypeOK(t)'
  BY <1>7 DEF TransactionTypeOK, Statements
<1>9. OnItsPath(t)'
  BY DEF OnItsPath, Path
<1>10. WritesItsOwn(t)'
  BY DEF WritesItsOwn, OnItsPath, Path, Unwritten, Unlocked
<1>11. HoldsWhatItWrites(t)'
  BY <1>6, RowsAreDistinct DEF HoldsWhatItWrites, OnItsPath, WritesItsOwn, Unlocked, Unwritten
<1>12. HoldsItsOffer(t)'
  BY <1>6 DEF HoldsItsOffer, Pending, OnItsPath, Path
<1>13. HoldsAnotherAdmin(t)'
  BY DEF HoldsAnotherAdmin, HoldsAdmin, OnItsPath, Path
<1>14. (tx[t].doomed \cap Pending \subseteq WillEnd(t))'
  BY DEF WillEnd, Pending, Incoming, Outgoing
<1>15. \A u \in Requests \ {t} : Apart(t, u)'
  BY DEF GrantsInv, Apart, Blockers
<1> QED BY <1>8, <1>9, <1>10, <1>11, <1>12, <1>13, <1>14, <1>15, MoveKeepsInv

\* The grantor holds admin, and the grant that says so is held.
LEMMA CheckGrantorKeepsInv ==
  ASSUME GrantsInv, NEW t \in Requests, CheckGrantor(t), ~RollBack(t)
  PROVE  GrantsInv'
<1>1. /\ TransactionTypeOK(t) /\ Sound(t) /\ DOMAIN tx = Requests
      /\ next_grant \in Nat
  BY DEF GrantsInv, GrantsTypeOK
<1>2. /\ tx[t].pc = "grantor" /\ Blockers(t) = {} /\ tx[t].kind = "accept"
      /\ HoldsAdmin(offer[tx[t].offer].from)
  BY <1>1 DEF CheckGrantor, At, Sound, OnItsPath, Path, TransactionTypeOK, Kinds
<1>3. /\ Go(t, [tx[t] EXCEPT !.shares = {GrantRow(offer[tx[t].offer].from, Admin)},
                            !.pc = "mint"])
      /\ UNCHANGED <<account, grant, offer, next_grant, ended, unguarded>>
  BY <1>2 DEF CheckGrantor
<1>4. OnlyMoves(t) /\ next_grant' \in Nat
  BY <1>1, <1>2, <1>3 DEF Go, OnlyMoves
<1>5. /\ SameRequest(t)
      /\ SameFindings(t)
      /\ SameWrites(t)
      /\ tx'[t].shares = {GrantRow(offer[tx[t].offer].from, Admin)}
      /\ tx'[t].pc = "mint"
      /\ tx'[t].locks = tx[t].locks
  BY <1>1, <1>2, <1>3 DEF Go, TransactionTypeOK, Idle,
         SameRequest, SameFindings, SameRows, SameWrites
<1>6. offer[tx[t].offer].from \in Accounts
  BY <1>1, <1>2 DEF Sound, HoldsItsOffer, GrantsInv, GrantsTypeOK, OfferRecords
<1>7. GrantRow(offer[tx[t].offer].from, Admin) \in Rows
  BY <1>6, RowTypes DEF Roles
<1>8. grant[offer[tx[t].offer].from, Admin] # 0
  BY <1>2 DEF HoldsAdmin
<1>9. \A u \in Requests \ {t} : GrantRow(offer[tx[t].offer].from, Admin) \notin tx[u].locks
  BY <1>2, <1>8 DEF Blockers
<1> USE <1>1, <1>2, <1>4, <1>5 DEF TransactionTypeOK, Kinds, Sound, OnlyMoves,
        SameRequest, SameFindings, SameRows, SameWrites
<1>10. TransactionTypeOK(t)'
  BY <1>7 DEF TransactionTypeOK, Statements
<1>11. OnItsPath(t)'
  BY DEF OnItsPath, Path
<1>12. WritesItsOwn(t)'
  BY DEF WritesItsOwn, OnItsPath, Path, Unwritten, Unlocked
<1>13. HoldsWhatItWrites(t)'
  BY RowsAreDistinct DEF HoldsWhatItWrites, OnItsPath, WritesItsOwn, Unlocked, Unwritten
<1>14. HoldsItsOffer(t)'
  BY <1>8 DEF HoldsItsOffer, Pending, OnItsPath, Path
<1>15. HoldsAnotherAdmin(t)'
  BY DEF HoldsAnotherAdmin, HoldsAdmin, OnItsPath, Path
<1>16. (tx[t].doomed \cap Pending \subseteq WillEnd(t))'
  BY DEF WillEnd, Pending, Incoming, Outgoing
<1>17. \A u \in Requests \ {t} : Apart(t, u)'
  BY <1>9 DEF GrantsInv, Apart
<1> QED BY <1>10, <1>11, <1>12, <1>13, <1>14, <1>15, <1>16, <1>17, MoveKeepsInv

\* A grant is minted, or is there; an accept goes on to the siblings of its offer.
LEMMA MintKeepsInv ==
  ASSUME GrantsInv, NEW t \in Requests, Mint(t)
  PROVE  GrantsInv'
<1>1. /\ TransactionTypeOK(t) /\ Sound(t) /\ DOMAIN tx = Requests
      /\ next_grant \in Nat
  BY DEF GrantsInv, GrantsTypeOK
<1>2. tx[t].pc = "mint" /\ Blockers(t) = {}
  BY DEF Mint, At
<1>3. OnlyMoves(t) /\ next_grant' \in Nat
  <2>1. next_grant' = next_grant \/ next_grant' = next_grant + 1
    BY DEF Mint
  <2>2. OnlyMoves(t)
    BY <1>1, <1>2 DEF Mint, Go, OnlyMoves
  <2> QED BY <1>1, <2>1, <2>2
<1>4. /\ SameRequest(t)
      /\ SameFindings(t)
      /\ SameRows(t)
      /\ tx'[t].minted = IF grant[tx[t].to, tx[t].role] = 0 THEN next_grant ELSE 0
      /\ tx'[t].accepted = IF tx[t].kind = "accept" THEN {tx[t].offer} ELSE {}
      /\ tx'[t].pc = IF tx[t].kind = "accept" THEN "siblings" ELSE "commit"
      /\ tx'[t].doomed = IF tx[t].kind = "accept"
                         THEN Incoming(tx[t].to, tx[t].role) \ {tx[t].offer} ELSE {}
      /\ tx'[t].sent = tx[t].sent /\ tx'[t].superseded = tx[t].superseded
      /\ tx'[t].revoked = tx[t].revoked /\ tx'[t].deleted = tx[t].deleted
  BY <1>1, <1>2 DEF Mint, Go, TransactionTypeOK, Idle,
         SameRequest, SameFindings, SameRows, SameWrites
<1>5. DOMAIN offer \subseteq OfferIds /\ \A o \in Pending : o \in DOMAIN offer
  BY DEF GrantsInv, GrantsTypeOK, Pending
<1>6. tx[t].kind = "accept" => tx[t].offer \in DOMAIN offer
  BY <1>1 DEF Sound, HoldsItsOffer
<1>7. tx'[t].minted \in Nat
  <2>1. tx'[t].minted = next_grant \/ tx'[t].minted = 0
    BY <1>4
  <2> QED BY <1>1, <2>1
<1>8. tx'[t].accepted \subseteq OfferIds /\ tx'[t].doomed \subseteq OfferIds
  BY <1>4, <1>5, <1>6 DEF Incoming
<1>9. (\A o \in tx'[t].accepted : OfferRow(o) \in tx[t].locks) /\ tx[t].sent = {} /\ tx[t].superseded = {}
      /\ tx[t].revoked = {} /\ tx[t].deleted = {}
  BY <1>1, <1>2, <1>4 DEF Sound, HoldsItsOffer, WritesItsOwn, Unwritten
<1> USE <1>1, <1>2, <1>3, <1>4 DEF TransactionTypeOK, Kinds, Sound, OnlyMoves,
        SameRequest, SameFindings, SameRows, SameWrites
<1>10. TransactionTypeOK(t)'
  BY <1>8, <1>7 DEF TransactionTypeOK, Statements, Incoming
<1>11. OnItsPath(t)'
  BY DEF OnItsPath, Path
<1>12. WritesItsOwn(t)'
  BY <1>5, <1>6 DEF WritesItsOwn, OnItsPath, Path, Unwritten, Unlocked, Incoming
<1>13. HoldsWhatItWrites(t)'
  BY <1>9 DEF HoldsWhatItWrites, HoldsItsOffer, OnItsPath, WritesItsOwn, Unlocked, Unwritten
<1>14. HoldsItsOffer(t)'
  BY DEF HoldsItsOffer, Pending, OnItsPath, Path
<1>15. HoldsAnotherAdmin(t)'
  BY DEF HoldsAnotherAdmin, HoldsAdmin, OnItsPath, Path
<1>16. (tx[t].doomed \cap Pending \subseteq WillEnd(t))'
  BY DEF WillEnd, Pending, Incoming, Outgoing
<1>17. \A u \in Requests \ {t} : Apart(t, u)'
  BY DEF GrantsInv, Apart, Blockers
<1> QED BY <1>10, <1>11, <1>12, <1>13, <1>14, <1>15, <1>16, <1>17, MoveKeepsInv

\* A transaction that is rolled back, or committed, holds nothing.
LEMMA DoneIsSound ==
  ASSUME GrantsInv, NEW t \in Requests, tx'[t] = Done
  PROVE  /\ TransactionTypeOK(t)' /\ Sound(t)'
         /\ \A u \in Requests \ {t} : tx'[u] = tx[u] => Apart(t, u)'
<1>1. /\ tx'[t].pc = "done" /\ tx'[t].kind = "none" /\ tx'[t].offers = {}
      /\ tx'[t].locks = {} /\ tx'[t].shares = {} /\ tx'[t].sent = {}
      /\ tx'[t].accepted = {} /\ tx'[t].superseded = {} /\ tx'[t].minted = 0
      /\ tx'[t].revoked = {} /\ tx'[t].deleted = {} /\ tx'[t].doomed = {}
      /\ tx'[t].next = "commit"
  BY DEF Done, Idle
<1>2. TransactionTypeOK(t)'
  BY DEF TransactionTypeOK, Done, Idle, Statements, Kinds
<1>3. OnItsPath(t)' /\ WritesItsOwn(t)' /\ HoldsWhatItWrites(t)'
  BY <1>1 DEF OnItsPath, Path, WritesItsOwn, HoldsWhatItWrites, Unlocked, Unwritten
<1>4. HoldsItsOffer(t)' /\ HoldsAnotherAdmin(t)' /\ (tx[t].doomed \cap Pending \subseteq WillEnd(t))'
  BY <1>1 DEF HoldsItsOffer, HoldsAnotherAdmin
<1>5. \A u \in Requests \ {t} : Apart(t, u)'
  BY <1>1 DEF Apart
<1> QED BY <1>2, <1>3, <1>4, <1>5 DEF Sound

LEMMA RollBackKeepsInv ==
  ASSUME GrantsInv, NEW t \in Requests, RollBack(t)
  PROVE  GrantsInv'
<1>1. OnlyMoves(t) /\ tx'[t] = Done /\ next_grant' \in Nat
  BY DEF RollBack, OnlyMoves, GrantsInv, GrantsTypeOK
<1> QED BY <1>1, DoneIsSound, MoveKeepsInv DEF OnlyMoves

\* A request that begins has found something and holds nothing.
Beginnings ==
  {<<"create", "upsert">>, <<"accept", "claim">>, <<"assign", "mint">>, <<"take", "mint">>,
   <<"revoke", "guard">>, <<"revoke", "revoke">>, <<"give_up", "revoke">>,
   <<"delete", "guard">>, <<"destroy", "destroy">>}

LEMMA StartKeepsInv ==
  ASSUME GrantsInv, NEW t \in Requests, NEW kind, NEW pc, <<kind, pc>> \in Beginnings,
         NEW by \in Accounts, NEW to \in Accounts, NEW r \in Roles,
         NEW id \in Nat, NEW o \in OfferIds \cup {None},
         NEW found \in SUBSET (Accounts \X Nat),
         Start(t, kind, by, to, r, pc, id, o, found),
         kind \in {"take", "give_up"} => r \in SelfServiceRoles,
         kind = "destroy" => r \in ScopedRoles,
         pc = "guard" <=> kind \in {"revoke", "delete"} /\ r = Admin,
         kind = "accept" => o \in DOMAIN offer
  PROVE  GrantsInv'
<1>1. OnlyMoves(t) /\ next_grant' \in Nat
  BY DEF Start, Go, OnlyMoves, GrantsInv, GrantsTypeOK
<1>2. /\ DOMAIN tx'[t] = DOMAIN Idle
      /\ tx'[t].pc = pc /\ tx'[t].kind = kind
      /\ tx'[t].by = by /\ tx'[t].to = to /\ tx'[t].role = r
      /\ tx'[t].id = id /\ tx'[t].offer = o /\ tx'[t].grants = found
      /\ tx'[t].skipped = FALSE /\ tx'[t].next = "commit" /\ tx'[t].offers = {}
      /\ tx'[t].locks = {} /\ tx'[t].shares = {} /\ tx'[t].sent = {}
      /\ tx'[t].accepted = {} /\ tx'[t].superseded = {} /\ tx'[t].minted = 0
      /\ tx'[t].revoked = {} /\ tx'[t].deleted = {} /\ tx'[t].doomed = {}
  BY DEF Start, Go, Idle, GrantsInv, GrantsTypeOK
<1>3. TransactionTypeOK(t)'
  <2>1. pc \in Statements /\ kind \in Kinds
    BY DEF Statements, Kinds, Beginnings
  <2>2. tx'[t].grants \subseteq Accounts \X Nat /\ tx'[t].revoked \subseteq Accounts \X Roles
    BY <1>2
  <2>3. tx'[t].skipped \in BOOLEAN
    BY <1>2, Zenon
  <2>4. tx'[t].minted \in Nat /\ tx'[t].id \in Nat
    BY <1>2
  <2> QED BY <1>2, <2>1, <2>2, <2>3, <2>4 DEF TransactionTypeOK
<1>4. OnItsPath(t)'
  BY <1>2 DEF OnItsPath, Path, Beginnings
<1>5. WritesItsOwn(t)' /\ HoldsWhatItWrites(t)'
  BY <1>2 DEF WritesItsOwn, HoldsWhatItWrites
<1>6. HoldsItsOffer(t)'
  BY <1>1, <1>2 DEF HoldsItsOffer, Beginnings, OnlyMoves
<1>7. HoldsAnotherAdmin(t)'
  BY <1>2 DEF HoldsAnotherAdmin, Beginnings
<1>8. (tx[t].doomed \cap Pending \subseteq WillEnd(t))' /\ \A u \in Requests \ {t} : Apart(t, u)'
  BY <1>2 DEF Apart
<1> QED BY <1>1, <1>3, <1>4, <1>5, <1>6, <1>7, <1>8, MoveKeepsInv DEF Sound

-----------------------------------------------------------------------------
(***************************************************************************)
(* The steps that change the tables.                                       *)
(***************************************************************************)

\* A commit changes the rows its transaction holds, and no other.
LEMMA CommitMovesOffers ==
  ASSUME GrantsInv, NEW t \in Requests, Commit(t), NEW o \in DOMAIN offer
  PROVE  /\ o \in DOMAIN offer'
         /\ offer'[o].from = offer[o].from
         /\ offer'[o].to = offer[o].to
         /\ offer'[o].role = offer[o].role
         /\ offer'[o].status = "pending" => offer[o].status = "pending"
         /\ offer'[o].status = "pending" => o \in tx[t].sent \/ o \notin tx[t].superseded
         /\ OfferRow(o) \notin tx[t].locks => offer'[o] = offer[o]
         /\ offer'[o] \in OfferRecords
<1>1. TransactionTypeOK(t) /\ Sound(t) /\ offer[o] \in OfferRecords
  BY DEF GrantsInv, GrantsTypeOK
<1>2. /\ o \in DOMAIN offer'
      /\ offer'[o] = IF o \in tx[t].sent THEN NewOffer(tx[t].by, tx[t].to, tx[t].role)
                     ELSE [offer[o] EXCEPT !.status = IF o \in tx[t].accepted THEN "accepted"
                                                      ELSE IF o \in tx[t].superseded THEN "superseded"
                                                      ELSE @]
  BY DEF Commit
<1>3. CASE o \in tx[t].sent
  <2>1. offer[o] = NewOffer(tx[t].by, tx[t].to, tx[t].role) /\ OfferRow(o) \in tx[t].locks
    BY <1>1, <1>3 DEF Sound, HoldsWhatItWrites
  <2> QED BY <1>1, <1>2, <1>3, <2>1
<1>4. CASE o \in tx[t].accepted \cup tx[t].superseded /\ o \notin tx[t].sent
  <2>1. offer'[o] = [offer[o] EXCEPT !.status = "accepted"]
        \/ offer'[o] = [offer[o] EXCEPT !.status = "superseded"]
    BY <1>2, <1>4
  <2>2. OfferRow(o) \in tx[t].locks
    BY <1>1, <1>4 DEF Sound, HoldsWhatItWrites
  <2> QED BY <1>1, <1>2, <2>1, <2>2 DEF OfferRecords
<1>5. CASE o \notin tx[t].sent \cup tx[t].accepted \cup tx[t].superseded
  BY <1>1, <1>2, <1>5 DEF OfferRecords
<1> QED BY <1>3, <1>4, <1>5

LEMMA CommitMovesGrants ==
  ASSUME GrantsInv, NEW t \in Requests, Commit(t), NEW a \in Accounts
  PROVE  /\ account'[a] = IF a \in tx[t].deleted THEN "deleted" ELSE account[a]
         /\ <<a, Admin>> \notin tx[t].revoked /\ grant[a, Admin] # 0 => grant'[a, Admin] # 0
<1>1. <<a, Admin>> \in Accounts \X Roles
  BY DEF Roles
<1>2. grant'[a, Admin] = IF <<a, Admin>> \in tx[t].revoked THEN 0
                         ELSE IF <<a, Admin>> \in (IF tx[t].minted = 0 THEN {} ELSE {<<tx[t].to, tx[t].role>>})
                         THEN tx[t].minted ELSE grant[a, Admin]
  BY <1>1 DEF Commit
<1> QED BY <1>2 DEF Commit

LEMMA CommitSpares ==
  ASSUME GrantsInv, NEW t \in Requests, Commit(t), NEW u \in Requests \ {t}
  PROVE  Spares(u)
<1>1. Sound(t) /\ Sound(u) /\ Apart(t, u) /\ TransactionTypeOK(t) /\ TransactionTypeOK(u)
  BY DEF GrantsInv, GrantsTypeOK
<1>2. ASSUME NEW o \in tx[u].sent, o \in DOMAIN offer' PROVE o \in DOMAIN offer
  <2>1. o \in DOMAIN offer \/ o \in tx[t].sent
    BY <1>2 DEF Commit
  <2> QED BY <1>1, <2>1 DEF Sound, HoldsWhatItWrites, Apart
<1>3. ASSUME NEW a \in Accounts
      PROVE  /\ grant[a, Admin] # 0 /\ GrantRow(a, Admin) \in tx[u].locks \cup tx[u].shares =>
                  grant'[a, Admin] # 0
             /\ account[a] = "active" /\ AccountRow(a) \in tx[u].locks => account'[a] = "active"
  <2>1. GrantRow(a, Admin) \in tx[u].locks \cup tx[u].shares => <<a, Admin>> \notin tx[t].revoked
    <3>1. <<a, Admin>>[1] = a /\ <<a, Admin>>[2] = Admin
      OBVIOUS
    <3>2. <<a, Admin>> \in tx[t].revoked => GrantRow(a, Admin) \in tx[t].locks
      BY <1>1, <3>1 DEF Sound, HoldsWhatItWrites
    <3> QED BY <1>1, <3>2 DEF Apart
  <2>2. AccountRow(a) \in tx[u].locks => a \notin tx[t].deleted
    BY <1>1 DEF Sound, HoldsWhatItWrites, Apart
  <2> QED BY <2>1, <2>2, CommitMovesGrants
<1>4. \A o \in DOMAIN offer : OfferRow(o) \in tx[u].locks => OfferRow(o) \notin tx[t].locks
  BY <1>1 DEF Apart
<1> QED BY <1>2, <1>3, <1>4, CommitMovesOffers DEF Spares

\* What it had to end has ended, and nothing that has ended is pending again.
LEMMA CommitEndsOffers ==
  ASSUME GrantsInv, NEW t \in Requests, Commit(t)
  PROVE  (ended \subseteq DOMAIN offer)' /\ (ended \cap Pending = {})'
<1>1. Sound(t) /\ TransactionTypeOK(t) /\ tx[t].pc = "commit"
  BY DEF GrantsInv, GrantsTypeOK, Commit
<1>2. tx[t].doomed \subseteq DOMAIN offer /\ ended \subseteq DOMAIN offer
  BY <1>1 DEF GrantsInv, GrantsTypeOK, Sound, WritesItsOwn
<1>3. ended' = ended \cup tx[t].doomed
  BY DEF Commit
<1>4. ASSUME NEW o \in ended', o \in Pending' PROVE FALSE
  <2>1. o \in DOMAIN offer /\ offer'[o].status = "pending"
    BY <1>2, <1>3, <1>4 DEF Pending
  <2>2. o \in Pending /\ (o \in tx[t].sent \/ o \notin tx[t].superseded)
    BY <2>1, CommitMovesOffers DEF Pending
  <2>3. o \in tx[t].doomed
    BY <1>3, <2>2 DEF GrantsInv
  <2>4. o \in tx[t].superseded
    BY <1>1, <2>2, <2>3 DEF Sound, WillEnd
  <2>5. tx[t].sent = {}
    BY <1>1, <2>3 DEF Sound, WritesItsOwn
  <2> QED BY <2>2, <2>4, <2>5
<1>5. \A o \in DOMAIN offer : o \in DOMAIN offer'
  BY CommitMovesOffers
<1> QED BY <1>2, <1>3, <1>4, <1>5

\* Who is left when an admin is removed: the one its transaction holds, or the one
\* there is besides an account that was no active admin.
LEMMA CommitLeavesAnAdmin ==
  ASSUME GrantsInv, NEW t \in Requests, Commit(t)
  PROVE  OnlyAStaleGuardRemovesTheLastAdmin'
<1>1. Sound(t) /\ TransactionTypeOK(t) /\ tx[t].pc = "commit"
  BY DEF GrantsInv, GrantsTypeOK, Commit
<1>2. SUFFICES ASSUME ~unguarded, ~(tx[t].skipped /\ HoldsAdmin(tx[t].to))
               PROVE  \E a \in Accounts : HoldsAdmin(a)'
  BY DEF OnlyAStaleGuardRemovesTheLastAdmin, Commit
<1>3. PICK a \in Accounts :
        HoldsAdmin(a) /\ (tx[t].kind \in {"revoke", "delete"} /\ tx[t].role = Admin => a # tx[t].to)
  <2>1. CASE ~(tx[t].kind \in {"revoke", "delete"} /\ tx[t].role = Admin)
    BY <1>2, <2>1 DEF GrantsInv, OnlyAStaleGuardRemovesTheLastAdmin
  <2>2. CASE tx[t].kind \in {"revoke", "delete"} /\ tx[t].role = Admin /\ tx[t].skipped
    BY <1>2, <2>2 DEF GrantsInv, OnlyAStaleGuardRemovesTheLastAdmin
  <2>3. CASE tx[t].kind \in {"revoke", "delete"} /\ tx[t].role = Admin /\ ~tx[t].skipped
    BY <1>1, <2>3 DEF Sound, HoldsAnotherAdmin
  <2> QED BY <2>1, <2>2, <2>3
<1>4. a \notin tx[t].deleted
  BY <1>1, <1>3 DEF Sound, WritesItsOwn, OnItsPath
<1>5. <<a, Admin>> \notin tx[t].revoked
  <2> SUFFICES ASSUME <<a, Admin>> \in tx[t].revoked PROVE FALSE
    OBVIOUS
  <2>1. tx[t].role = Admin
    BY <1>1 DEF Sound, WritesItsOwn
  <2>2. tx[t].kind = "revoke"
    BY <1>1, <2>1, GrantsAssumption DEF Sound, WritesItsOwn, OnItsPath
  <2>3. <<a, Admin>> = <<tx[t].to, tx[t].role>>
    BY <1>1, <2>2 DEF Sound, WritesItsOwn
  <2> QED BY <1>3, <2>1, <2>2, <2>3
<1>6. account[a] = "active" /\ grant[a, Admin] # 0
  BY <1>3 DEF HoldsAdmin
<1>7. account'[a] = "active" /\ grant'[a, Admin] # 0
  BY <1>4, <1>5, <1>6, CommitMovesGrants
<1> QED BY <1>7 DEF HoldsAdmin

LEMMA CommitKeepsTypes ==
  ASSUME GrantsInv, NEW t \in Requests, Commit(t)
  PROVE  /\ account' \in [Accounts -> {"active", "deleted"}]
         /\ grant' \in [Accounts \X Roles -> Nat]
         /\ DOMAIN offer' \subseteq OfferIds
         /\ offer' \in [DOMAIN offer' -> OfferRecords]
<1>1. Sound(t) /\ TransactionTypeOK(t) /\ tx[t].pc = "commit"
  BY DEF GrantsInv, GrantsTypeOK, Commit
<1>2. account' \in [Accounts -> {"active", "deleted"}]
  BY DEF GrantsInv, GrantsTypeOK, Commit
<1>3. grant' \in [Accounts \X Roles -> Nat]
  <2>1. grant \in [Accounts \X Roles -> Nat] /\ tx[t].minted \in Nat
    BY <1>1 DEF GrantsInv, GrantsTypeOK, TransactionTypeOK
  <2>2. PICK S : grant' = [s \in Accounts \X Roles |->
          IF s \in tx[t].revoked THEN 0 ELSE IF s \in S THEN tx[t].minted ELSE grant[s]]
    BY DEF Commit
  <2>3. \A s \in Accounts \X Roles : grant[s] \in Nat
    BY <2>1
  <2> QED BY <2>1, <2>2, <2>3
<1>4. DOMAIN offer' = DOMAIN offer \cup tx[t].sent
  BY DEF Commit
<1>5. ASSUME NEW o \in DOMAIN offer' PROVE offer'[o] \in OfferRecords
  <2>1. CASE o \in DOMAIN offer
    BY <2>1, CommitMovesOffers
  <2>2. CASE o \in tx[t].sent
    <3>1. offer'[o] = NewOffer(tx[t].by, tx[t].to, tx[t].role)
      BY <2>2 DEF Commit
    <3>2. tx[t].by \in Accounts /\ tx[t].to \in Accounts /\ tx[t].role \in Roles
      BY <1>1, <2>2 DEF Sound, WritesItsOwn, OnItsPath
    <3> QED BY <3>1, <3>2 DEF NewOffer, OfferRecords
  <2> QED BY <1>4, <1>5, <2>1, <2>2
<1>6. offer' = [o \in DOMAIN offer' |-> offer'[o]]
  BY DEF Commit
<1> QED BY <1>1, <1>2, <1>3, <1>4, <1>5, <1>6 DEF GrantsInv, GrantsTypeOK, TransactionTypeOK

LEMMA CommitKeepsInv ==
  ASSUME GrantsInv, NEW t \in Requests, Commit(t)
  PROVE  GrantsInv'
<1>1. /\ DOMAIN tx' = Requests /\ tx'[t] = Done /\ next_grant' \in Nat /\ unguarded' \in BOOLEAN
      /\ \A u \in Requests \ {t} : tx'[u] = tx[u]
  <2>1. unguarded' \in BOOLEAN
    BY DEF Commit
  <2> QED BY <2>1 DEF Commit, GrantsInv, GrantsTypeOK
<1>2. ASSUME NEW u \in Requests PROVE TransactionTypeOK(u)' /\ Sound(u)'
  BY <1>1, CommitSpares, SparedStaysSound, DoneIsSound
<1>3. GrantsTypeOK'
  BY <1>1, <1>2, CommitKeepsTypes, CommitEndsOffers DEF GrantsTypeOK
<1>4. ASSUME NEW u \in Requests, NEW v \in Requests \ {u} PROVE Apart(u, v)'
  <2>1. CASE u # t /\ v # t
    BY <1>1, <2>1 DEF GrantsInv, Apart
  <2>2. CASE u = t \/ v = t
    BY <1>1, <2>2, DoneIsSound DEF Apart
  <2> QED BY <2>1, <2>2
<1> QED BY <1>2, <1>3, <1>4, CommitEndsOffers, CommitLeavesAnAdmin DEF GrantsInv

\* A decline or retract takes a row that nobody holds.
LEMMA EndKeepsInv ==
  ASSUME GrantsInv, NEW o \in DOMAIN offer, End(o)
  PROVE  GrantsInv'
<1>1. /\ DOMAIN offer' = DOMAIN offer
      /\ offer'[o] = [offer[o] EXCEPT !.status = "declined"]
      /\ \A p \in DOMAIN offer : p # o => offer'[p] = offer[p]
      /\ offer \in [DOMAIN offer -> OfferRecords]
      /\ UNCHANGED <<account, grant, next_grant, tx, ended, unguarded>>
  BY DEF End, GrantsInv, GrantsTypeOK
<1>2. offer'[o].from = offer[o].from /\ offer'[o].to = offer[o].to
      /\ offer'[o].role = offer[o].role /\ offer'[o].status = "declined"
      /\ offer'[o] \in OfferRecords
  BY <1>1 DEF OfferRecords
<1>3. ASSUME NEW u \in Requests PROVE TransactionTypeOK(u)' /\ Sound(u)'
  <2>1. OfferRow(o) \notin tx[u].locks
    BY DEF End, Unheld
  <2>2. Spares(u)
    BY <1>1, <1>2, <2>1 DEF Spares
  <2> QED BY <1>1, <2>2, SparedStaysSound
<1>4. GrantsTypeOK'
  BY <1>1, <1>2, <1>3 DEF GrantsInv, GrantsTypeOK, End
<1>5. (ended \cap Pending = {})'
  BY <1>1, <1>2 DEF GrantsInv, Pending
<1>6. OnlyAStaleGuardRemovesTheLastAdmin'
  BY <1>1 DEF GrantsInv, OnlyAStaleGuardRemovesTheLastAdmin, HoldsAdmin
<1>7. \A u \in Requests : \A v \in Requests \ {u} : Apart(u, v)'
  BY <1>1 DEF GrantsInv, Apart
<1> QED BY <1>3, <1>4, <1>5, <1>6, <1>7 DEF GrantsInv

\* An undelete brings an account back, with the grants it has kept.
LEMMA UndeleteKeepsInv ==
  ASSUME GrantsInv, NEW by \in Accounts, NEW a \in Accounts, Undelete(by, a)
  PROVE  GrantsInv'
<1>1. /\ \A b \in Accounts : account[b] = "active" => account'[b] = "active"
      /\ account' \in [Accounts -> {"active", "deleted"}]
      /\ UNCHANGED <<grant, offer, next_grant, tx, ended, unguarded>>
  BY DEF Undelete, GrantsInv, GrantsTypeOK
<1>2. ASSUME NEW u \in Requests PROVE TransactionTypeOK(u)' /\ Sound(u)'
  BY <1>1, SparedStaysSound DEF Spares
<1>3. GrantsTypeOK'
  BY <1>1, <1>2 DEF GrantsInv, GrantsTypeOK
<1>4. (ended \cap Pending = {})'
  BY <1>1 DEF GrantsInv, Pending
<1>5. OnlyAStaleGuardRemovesTheLastAdmin'
  BY <1>1 DEF GrantsInv, OnlyAStaleGuardRemovesTheLastAdmin, HoldsAdmin
<1>6. \A u \in Requests : \A v \in Requests \ {u} : Apart(u, v)'
  BY <1>1 DEF GrantsInv, Apart
<1> QED BY <1>2, <1>3, <1>4, <1>5, <1>6 DEF GrantsInv

-----------------------------------------------------------------------------
(***************************************************************************)
(* The invariant, and what it gives.                                       *)
(***************************************************************************)

\* A founder is an active admin at first, and no transaction has begun.
LEMMA GrantsInitInv == GrantsInit => GrantsInv
<1> SUFFICES ASSUME GrantsInit PROVE GrantsInv
  OBVIOUS
<1>1. PICK gone \in SUBSET Founders :
        gone # Founders /\ account = Tombstoned(gone)
  BY DEF GrantsInit
<1>2. /\ Founders \subseteq Accounts /\ OfferIds \subseteq Nat
      /\ grant = [s \in Accounts \X Roles |-> IF s \in Founders \X {Admin} THEN 1 ELSE 0]
      /\ tx = [t \in Requests |-> Idle] /\ ended = {} /\ unguarded = FALSE /\ next_grant = 2
  BY GrantsAssumption DEF GrantsInit
<1>3. \E a \in Accounts : HoldsAdmin(a)
  <2>1. PICK a \in Founders : a \notin gone
    BY <1>1
  <2>2. account[a] = "active"
    BY <1>1, <1>2, <2>1 DEF Tombstoned
  <2>3. <<a, Admin>> \in Accounts \X Roles /\ <<a, Admin>> \in Founders \X {Admin}
    BY <1>2, <2>1 DEF Roles
  <2>4. grant[a, Admin] = 1
    BY <1>2, <2>3
  <2>5. 1 # 0
    OBVIOUS
  <2>6. HoldsAdmin(a)
    BY <2>2, <2>4, <2>5, Zenon DEF HoldsAdmin
  <2> QED BY <1>2, <2>6
<1>4. DOMAIN offer \subseteq OfferIds /\ offer \in [DOMAIN offer -> OfferRecords]
  <2>1. PICK sent \in SUBSET OfferIds :
          offer \in [sent -> {NewOffer(f, a, r) :
                                f \in Founders, a \in Accounts \ Founders, r \in Roles}]
    BY DEF GrantsInit
  <2>2. ASSUME NEW o \in sent PROVE offer[o] \in OfferRecords
    BY <1>2, <2>1 DEF NewOffer, OfferRecords
  <2> QED BY <2>1, <2>2
<1>5. ASSUME NEW t \in Requests PROVE TransactionTypeOK(t) /\ Sound(t)
  <2>1. /\ DOMAIN tx[t] = DOMAIN Idle
        /\ tx[t].pc = "idle" /\ tx[t].kind = "none" /\ tx[t].offers = {}
        /\ tx[t].locks = {} /\ tx[t].shares = {} /\ tx[t].sent = {}
        /\ tx[t].accepted = {} /\ tx[t].superseded = {} /\ tx[t].minted = 0
        /\ tx[t].revoked = {} /\ tx[t].deleted = {} /\ tx[t].doomed = {}
        /\ tx[t].next = "commit"
    BY <1>2 DEF Idle
  <2>2. TransactionTypeOK(t)
    BY <1>2 DEF TransactionTypeOK, Idle, Statements, Kinds
  <2>3. OnItsPath(t) /\ WritesItsOwn(t) /\ HoldsWhatItWrites(t)
    BY <2>1 DEF OnItsPath, Path, WritesItsOwn, HoldsWhatItWrites, Unlocked, Unwritten
  <2>4. HoldsItsOffer(t) /\ HoldsAnotherAdmin(t)
    BY <2>1 DEF HoldsItsOffer, HoldsAnotherAdmin
  <2> QED BY <2>1, <2>2, <2>3, <2>4 DEF Sound
<1>6. GrantsTypeOK
  <2>1. account \in [Accounts -> {"active", "deleted"}] /\ grant \in [Accounts \X Roles -> Nat]
    BY <1>1, <1>2 DEF Tombstoned
  <2> QED BY <1>2, <1>4, <1>5, <2>1 DEF GrantsTypeOK
<1>7. \A t \in Requests : \A u \in Requests \ {t} : Apart(t, u)
  BY <1>2 DEF Apart, Idle
<1>8. ended \cap Pending = {} /\ OnlyAStaleGuardRemovesTheLastAdmin
  BY <1>2, <1>3 DEF OnlyAStaleGuardRemovesTheLastAdmin
<1> QED BY <1>5, <1>6, <1>7, <1>8 DEF GrantsInv

LEMMA StartRequestKeepsInv ==
  ASSUME GrantsInv, NEW t \in Requests, StartRequest(t)
  PROVE  GrantsInv'
<1>1. PICK by \in Accounts, a \in Accounts, r \in Roles :
        \/ StartCreate(t, by, a, r)
        \/ StartAssign(t, by, a, r)
        \/ StartRevoke(t, by, a, r)
        \/ by = a /\ (StartTake(t, a, r) \/ StartGiveUp(t, a, r) \/ StartDestroyScope(t, a, r))
        \/ r = Admin /\ StartDelete(t, by, a)
  BY DEF StartRequest
<1>2. \A b \in Accounts, s \in Roles : grant[b, s] \in Nat
  BY DEF GrantsInv, GrantsTypeOK
<1>3. CASE StartCreate(t, by, a, r)
  BY <1>3, StartKeepsInv DEF StartCreate, Beginnings
<1>4. CASE StartAssign(t, by, a, r)
  BY <1>4, StartKeepsInv DEF StartAssign, Beginnings
<1>5. CASE StartRevoke(t, by, a, r)
  <2> DEFINE pc == IF r = Admin THEN "guard" ELSE "revoke"
  <2>1. Start(t, "revoke", by, a, r, pc, grant[a, r], None, {})
    BY <1>5 DEF StartRevoke
  <2>2. <<"revoke", pc>> \in Beginnings /\ (pc = "guard" <=> r = Admin)
    BY DEF Beginnings
  <2>3. PICK id \in Nat : Start(t, "revoke", by, a, r, pc, id, None, {})
    BY <1>2, <2>1
  <2> HIDE DEF pc
  <2> QED BY <2>2, <2>3, StartKeepsInv
<1>6. CASE StartTake(t, a, r)
  <2>1. Start(t, "take", a, a, r, "mint", 0, None, {}) /\ r \in SelfServiceRoles
    BY <1>6 DEF StartTake
  <2>2. <<"take", "mint">> \in Beginnings
    BY DEF Beginnings
  <2> QED BY <2>1, <2>2, StartKeepsInv
<1>7. CASE StartGiveUp(t, a, r)
  <2>1. Start(t, "give_up", a, a, r, "revoke", grant[a, r], None, {}) /\ r \in SelfServiceRoles
    BY <1>7 DEF StartGiveUp
  <2>2. PICK id \in Nat : Start(t, "give_up", a, a, r, "revoke", id, None, {})
    BY <1>2, <2>1
  <2>3. <<"give_up", "revoke">> \in Beginnings
    BY DEF Beginnings
  <2>4. r \in SelfServiceRoles
    BY <2>1
  <2> QED BY <2>2, <2>3, <2>4, StartKeepsInv
<1>8. CASE StartDestroyScope(t, a, r)
  <2> DEFINE found == {<<b, grant[b, r]>> : b \in {c \in Accounts : grant[c, r] # 0}}
  <2>1. Start(t, "destroy", a, a, r, "destroy", 0, None, found) /\ r \in ScopedRoles
    BY <1>8 DEF StartDestroyScope
  <2>2. found \in SUBSET (Accounts \X Nat)
    <3> SUFFICES ASSUME NEW g \in found PROVE g \in Accounts \X Nat
      OBVIOUS
    <3>1. PICK b \in Accounts : g = <<b, grant[b, r]>>
      OBVIOUS
    <3> QED BY <1>2, <3>1
  <2> HIDE DEF found
  <2> QED BY <2>1, <2>2, StartKeepsInv DEF Beginnings
<1>9. CASE r = Admin /\ StartDelete(t, by, a)
  BY <1>9, StartKeepsInv DEF StartDelete, Beginnings
<1> QED BY <1>1, <1>3, <1>4, <1>5, <1>6, <1>7, <1>8, <1>9

LEMMA StatementKeepsInv ==
  ASSUME GrantsInv, NEW t \in Requests, Statement(t)
  PROVE  GrantsInv'
<1>1. CASE RollBack(t)
  BY <1>1, RollBackKeepsInv
<1>2. CASE Victim(t)
  BY <1>2, RollBackKeepsInv DEF Victim
<1>3. CASE Upsert(t) /\ ~RollBack(t)
  <2> DEFINE mine == Incoming(tx[t].to, tx[t].role) \cap Outgoing(tx[t].by)
  <2>1. PICK o \in mine \cup {p \in OfferIds \ DOMAIN offer : \A u \in Requests : p \notin tx[u].sent} :
          /\ Go(t, [tx[t] EXCEPT !.pc = "commit", !.sent = {o}, !.locks = @ \cup {OfferRow(o)}])
          /\ UNCHANGED <<account, grant, offer, next_grant, ended, unguarded>>
    BY <1>3 DEF Upsert
  <2>2. tx[t].pc = "upsert" /\ Blockers(t) = {}
    BY <1>3 DEF Upsert, At
  <2>3. mine \subseteq OfferIds
    BY DEF Incoming, Pending, GrantsInv, GrantsTypeOK
  <2>4. o \in OfferIds
    BY <2>1, <2>3
  <2>5. CASE o \in mine
    BY <2>1, <2>2, <2>4, <2>5, WriteOfferKeepsInv
  <2>6. CASE o \notin DOMAIN offer /\ \A u \in Requests : o \notin tx[u].sent
    BY <2>1, <2>2, <2>4, <2>6, WriteOfferKeepsInv
  <2> QED BY <2>1, <2>5, <2>6
<1> QED BY <1>1, <1>2, <1>3, ClaimKeepsInv, CheckGrantorKeepsInv, MintKeepsInv,
           FindOffersKeepsInv, SupersedeKeepsInv, GuardKeepsInv, CountKeepsInv,
           CountedKeepsInv, RevokeGrantKeepsInv, TombstoneKeepsInv,
           DestroyScopeKeepsInv, CommitKeepsInv DEF Statement

LEMMA GrantsNextInv == GrantsInv /\ [GrantsNext]_grant_vars => GrantsInv'
<1> SUFFICES ASSUME GrantsInv, [GrantsNext]_grant_vars PROVE GrantsInv'
  OBVIOUS
<1>1. ASSUME NEW t \in Requests, StartRequest(t) PROVE GrantsInv'
  BY <1>1, StartRequestKeepsInv
<1>2. ASSUME NEW t \in Requests, Statement(t) PROVE GrantsInv'
  BY <1>2, StatementKeepsInv
<1>3. ASSUME NEW t \in Requests, NEW o \in DOMAIN offer, StartAccept(t, o) PROVE GrantsInv'
  <2>1. o \in OfferIds /\ offer[o].to \in Accounts /\ offer[o].role \in Roles
    BY DEF GrantsInv, GrantsTypeOK, OfferRecords
  <2>2. Start(t, "accept", offer[o].to, offer[o].to, offer[o].role, "claim", 0, o, {})
    BY <1>3 DEF StartAccept
  <2> QED BY <2>1, <2>2, StartKeepsInv DEF Beginnings
<1>4. ASSUME NEW o \in DOMAIN offer, End(o) PROVE GrantsInv'
  BY <1>4, EndKeepsInv
<1>5. ASSUME NEW by \in Accounts, NEW a \in Accounts, Undelete(by, a) PROVE GrantsInv'
  BY <1>5, UndeleteKeepsInv
<1>6. CASE UNCHANGED grant_vars
  <2>1. UNCHANGED <<account, grant, offer, next_grant, tx, ended, unguarded>>
    BY <1>6 DEF grant_vars
  <2>2. ASSUME NEW u \in Requests PROVE TransactionTypeOK(u)' /\ Sound(u)'
    BY <2>1, SparedStaysSound DEF Spares
  <2>3. GrantsTypeOK'
    BY <2>1, <2>2 DEF GrantsInv, GrantsTypeOK
  <2>4. (ended \cap Pending = {})' /\ OnlyAStaleGuardRemovesTheLastAdmin'
    BY <2>1 DEF GrantsInv, Pending, OnlyAStaleGuardRemovesTheLastAdmin, HoldsAdmin
  <2>5. \A u \in Requests : \A v \in Requests \ {u} : Apart(u, v)'
    BY <2>1 DEF GrantsInv, Apart
  <2> QED BY <2>2, <2>3, <2>4, <2>5 DEF GrantsInv
<1> QED BY <1>1, <1>2, <1>3, <1>4, <1>5, <1>6 DEF GrantsNext, Answered

\* The invariant holds, and with it the types: an offer that a transaction or the
\* history names is there, a transaction is at a statement of its handler.
THEOREM GrantsInvariant == GrantsSpec => []GrantsInv
<1> QED BY GrantsInitInv, GrantsNextInv, PTL DEF GrantsSpec

THEOREM GrantsTypeCorrect == GrantsSpec => []GrantsTypeOK
<1>1. GrantsInv => GrantsTypeOK
  BY DEF GrantsInv
<1> QED BY <1>1, GrantsInvariant, PTL

\* query_count_active_accounts_with_global_role_for_update: the admin counted besides
\* the one removed stays an admin until the removal has committed, because both of
\* its rows are held.  So some active account holds admin, unless a guard was stale.
THEOREM LastAdminStays == GrantsSpec => []OnlyAStaleGuardRemovesTheLastAdmin
<1>1. GrantsInv => OnlyAStaleGuardRemovesTheLastAdmin
  BY DEF GrantsInv
<1> QED BY <1>1, GrantsInvariant, PTL

\* query_accept_offer: the FOR SHARE on the grantor's grant is what makes the
\* authority that was read still hold when the grant is committed.
THEOREM AdminIsGrantedOnAuthority == GrantsSpec => GrantedOnAuthority
<1>1. GrantsInv => [\A t \in Requests :
        (/\ tx[t].pc = "commit" /\ tx'[t].pc = "done"
         /\ tx[t].kind = "accept" /\ tx[t].role = Admin
         /\ grant'[tx[t].to, Admin] # grant[tx[t].to, Admin])
            => grant[offer[tx[t].offer].from, Admin] # 0]_grant_vars
  BY DEF GrantsInv, Sound, HoldsItsOffer
<1> QED BY <1>1, GrantsInvariant, PTL DEF GrantedOnAuthority

\* The four cascades: an UPDATE that waits for a row and reads it again misses no
\* offer that was pending when the cascade was due.
THEOREM EndedOffersAreOver == GrantsSpec => []EndedOffersStayEnded
<1>1. GrantsInv => EndedOffersStayEnded
  BY DEF GrantsInv, EndedOffersStayEnded, Sound, HoldsItsOffer
<1> QED BY <1>1, GrantsInvariant, PTL
=============================================================================
