----------------------------- MODULE LoginsProofs ----------------------------
(***************************************************************************)
(* What holds of the credentials of an account for any requests and any    *)
(* limit: what outlives a revocation of everything, what a credential that *)
(* ended leaves connected, and what passes the limit.                      *)
(***************************************************************************)
EXTENDS Logins, FiniteSetTheorems, TLAPS

(***************************************************************************)
(* The types.                                                              *)
(***************************************************************************)
Fields == {"what", "pc", "read", "era", "from", "todo", "target", "made", "found",
           "doomed", "beside"}
Steps == {"account", "insert", "find", "remove", "commit", "close"}
Creators == {"login", "token_create"}
Enders == {"change", "delete"}
Whats == Creators \cup Enders \cup {"revoke", "logout", "revoke_all"}
Todos == {<<"session", "token">>, <<"session">>, <<"token">>, <<>>}

Working(r) == req[r].pc \in Steps

RequestTypeOK(r) ==
    /\ ~Working(r) => req[r] \in {Idle, Done}
    /\ Working(r) =>
        /\ DOMAIN req[r] = Fields
        /\ req[r].what \in Whats /\ req[r].todo \in Todos
        /\ req[r].made \subseteq Issued /\ req[r].found \subseteq Issued
        /\ req[r].doomed \subseteq Issued

LoginsTypeOK ==
    /\ kind_of \in Seq(Kinds)
    /\ Len(era_of) = Len(kind_of) /\ era_of \in Seq(Nat)
    /\ Len(lineage) = Len(kind_of) /\ lineage \in Seq(SUBSET Requests)
    /\ live \subseteq Issued
    /\ DOMAIN req = Requests
    /\ \A r \in Requests : RequestTypeOK(r)
    /\ cleanup \in [pc : {"resting", "commit", "close"}, doomed : SUBSET Nat]
    /\ era \in Nat

(***************************************************************************)
(* What is true of a request.                                              *)
(***************************************************************************)

\* It is at a statement of what it does, with that many kinds left to delete.
OnItsWay(r) ==
    Working(r) =>
        /\ req[r].pc = "insert" => req[r].what \in Creators
        /\ req[r].made # {} => req[r].what \in Creators
        /\ req[r].pc \in {"account", "insert"} => req[r].made = {} /\ req[r].doomed = {}
        /\ req[r].what \in Enders =>
            /\ req[r].pc = "account" => req[r].todo = <<"session", "token">>
            /\ req[r].pc \in {"find", "remove"} =>
                req[r].todo \in {<<"session", "token">>, <<"token">>}
        /\ req[r].what \notin Enders /\ req[r].pc \in {"insert", "find", "remove"} =>
            req[r].todo \in {<<"session">>, <<"token">>}

\* What a creator stands on is of this era, or overtaken.
StandsOnThisEra(r) ==
    Working(r) /\ req[r].what \in Creators /\ req[r].pc # "close" =>
        req[r].era \in Nat /\ req[r].from \subseteq Requests
        /\ (req[r].era = era \/ (req[r].from \cup {r}) \cap overtaken # {})

\* What it made has its era and its lineage.
MadeAsItSays(r) ==
    \A c \in MadeBy(r) : era_of[c] = req[r].era /\ lineage[c] = req[r].from \cup {r}

\* The kinds a revocation of everything has looked for.
Looked(r) ==
    {kind \in Kinds :
        \/ req[r].pc = "commit"
        \/ req[r].pc = "remove" /\ kind = Head(req[r].todo)
        \/ kind = "session" /\ req[r].todo = <<"token">>}

\* It has found every credential of the kinds it looked for, but those that came
\* after it looked, of a request that was in flight as its transaction began.
HasFoundTheOthers(r) ==
    r \in InTransaction /\ RevokesAll(r) =>
        /\ Unfinished \subseteq req[r].beside
        /\ \A c \in live : kind_of[c] \in Looked(r) =>
            \/ c \in req[r].doomed
            \/ req[r].pc = "remove" /\ kind_of[c] = Head(req[r].todo) /\ c \in req[r].found
            \/ \E s \in lineage[c] \cap (req[r].beside \ {r}) : req[s] # Idle

Sound(r) ==
    OnItsWay(r) /\ StandsOnThisEra(r) /\ MadeAsItSays(r) /\ HasFoundTheOthers(r)

LoginsInv ==
    /\ LoginsTypeOK
    /\ \A r \in Requests : Sound(r)
    /\ OnlyTheOvertakenOutlive
    /\ EndedCredentialsLoseTheirConnections

------------------------------------------------------------------------------
(***************************************************************************)
(* Shapes.                                                                 *)
(***************************************************************************)
LEMMA WorkingOrNot ==
  ASSUME LoginsTypeOK, NEW r \in Requests
  PROVE  /\ req[r].pc \in {"idle", "done"} \cup Steps
         /\ req[r].pc = "idle" <=> req[r] = Idle
         /\ req[r].pc = "done" <=> req[r] = Done
         /\ Idle # Done /\ Idle.pc = "idle" /\ Done.pc = "done"
<1>1. RequestTypeOK(r)
  BY DEF LoginsTypeOK
<1>2. Idle.pc = "idle" /\ Done.pc = "done"
  BY DEF Idle, Done
<1> QED BY <1>1, <1>2 DEF RequestTypeOK, Working, Steps

LEMMA LoginsInitInv == LoginsInit => LoginsInv
<1> SUFFICES ASSUME LoginsInit PROVE LoginsInv
  OBVIOUS
<1> USE DEF LoginsInit
<1>1. /\ kind_of \in Seq(Kinds) /\ Len(kind_of) = 2 /\ Issued = {1, 2}
      /\ era_of \in Seq(Nat) /\ Len(era_of) = 2
      /\ lineage \in Seq(SUBSET Requests) /\ Len(lineage) = 2
  BY DEF Kinds, Issued
<1>2. \A r \in Requests : req[r] = Idle /\ Idle.pc = "idle"
  BY DEF Idle
<1>3. \A r \in Requests : ~Working(r) /\ r \notin InTransaction
  BY <1>2 DEF Working, Steps, InTransaction
<1>4. cleanup \in [pc : {"resting", "commit", "close"}, doomed : SUBSET Nat]
  BY DEF Resting
<1>5. LoginsTypeOK
  BY <1>1, <1>2, <1>3, <1>4 DEF LoginsTypeOK, RequestTypeOK
<1>6. \A r \in Requests : Sound(r)
  BY <1>3 DEF Sound, OnItsWay, StandsOnThisEra, MadeAsItSays, MadeBy, HasFoundTheOthers
<1>7. OnlyTheOvertakenOutlive
  BY DEF OnlyTheOvertakenOutlive
<1>8. EndedCredentialsLoseTheirConnections
  BY DEF EndedCredentialsLoseTheirConnections
<1> QED BY <1>5, <1>6, <1>7, <1>8 DEF LoginsInv

------------------------------------------------------------------------------
(***************************************************************************)
(* A step of one request that leaves the credentials alone.                *)
(***************************************************************************)
LEMMA MoveKeepsInv ==
  ASSUME LoginsInv, NEW r \in Requests,
         DOMAIN req' = Requests, \A s \in Requests \ {r} : req'[s] = req[s],
         UNCHANGED <<rows, connected, cleanup, histories>>,
         req[r].pc # "close",
         req[r].pc = "done" => req'[r].pc = "done",
         req'[r].pc = "idle" => req[r].pc = "idle",
         RequestTypeOK(r)', Sound(r)'
  PROVE  LoginsInv'
<1> USE DEF LoginsInv, rows, histories
<1>1. LoginsTypeOK'
  <2>1. \A s \in Requests : RequestTypeOK(s)'
    BY DEF LoginsTypeOK, RequestTypeOK, Working, Issued
  <2> QED BY <2>1 DEF LoginsTypeOK, Issued
<1>2. /\ \A s \in Requests : req[s] = Done => req'[s] = Done
      /\ \A s \in Requests : req'[s] = Idle => req[s] = Idle
  <2>1. req[r] = Done => req'[r] = Done
    BY WorkingOrNot DEF RequestTypeOK, Working, Steps
  <2>2. req'[r] = Idle => req[r] = Idle
    BY WorkingOrNot
  <2> QED BY <2>1, <2>2
<1>3. ASSUME NEW s \in Requests \ {r} PROVE Sound(s)'
  <2>1. Sound(s) /\ req'[s] = req[s]
    OBVIOUS
  <2>2. OnItsWay(s)' /\ StandsOnThisEra(s)' /\ MadeAsItSays(s)'
    BY <2>1 DEF Sound, OnItsWay, Working, StandsOnThisEra, MadeAsItSays, MadeBy,
                InTransaction
  <2>3. HasFoundTheOthers(s)'
    <3> SUFFICES ASSUME s \in InTransaction', RevokesAll(s)' PROVE HasFoundTheOthers(s)'
      BY DEF HasFoundTheOthers
    <3>1. s \in InTransaction /\ RevokesAll(s) /\ Looked(s)' = Looked(s)
      BY <2>1 DEF InTransaction, RevokesAll, Looked
    <3>2. Unfinished' \subseteq Unfinished
      BY <1>2 DEF Unfinished
    <3>3. \A t \in Requests : req[t] # Idle => req'[t] # Idle
      BY <1>2
    <3>4. \A c \in live : lineage[c] \subseteq Requests
      BY DEF LoginsTypeOK, Issued
    <3>5. ASSUME NEW c \in live, kind_of[c] \in Looked(s)
          PROVE  \/ c \in req[s].doomed
                 \/ /\ req[s].pc = "remove" /\ kind_of[c] = Head(req[s].todo)
                    /\ c \in req[s].found
                 \/ \E t \in lineage[c] \cap (req[s].beside \ {s}) : req'[t] # Idle
      BY <2>1, <3>1, <3>3, <3>4, <3>5 DEF Sound, HasFoundTheOthers
    <3> QED BY <2>1, <3>1, <3>2, <3>5 DEF Sound, HasFoundTheOthers
  <2> QED BY <2>2, <2>3 DEF Sound
<1>4. OnlyTheOvertakenOutlive'
  BY DEF OnlyTheOvertakenOutlive
<1>5. EndedCredentialsLoseTheirConnections'
  <2> SUFFICES ASSUME NEW c \in connected,
                      ~(c \in live \cup unheard), ~(cleanup.pc = "close" /\ c \in cleanup.doomed)
              PROVE  \E s \in Requests : req'[s].pc = "close" /\ c \in Closes(s)'
    BY DEF EndedCredentialsLoseTheirConnections
  <2>1. PICK s \in Requests : req[s].pc = "close" /\ c \in Closes(s)
    BY DEF EndedCredentialsLoseTheirConnections
  <2>2. s # r /\ Closes(s)' = Closes(s)
    BY <2>1 DEF Closes, Issued
  <2> QED BY <2>1, <2>2
<1> QED BY <1>1, <1>3, <1>4, <1>5

------------------------------------------------------------------------------
(***************************************************************************)
(* Requests begin.                                                         *)
(***************************************************************************)
LEMMA StartKeepsInv ==
  ASSUME LoginsInv, NEW r \in Requests, NEW q, Starts(r, q),
         DOMAIN q = Fields, q.what \in Whats, q.pc \in {"account", "insert", "find"},
         q.made = {}, q.found = {}, q.doomed = {}, q.todo \in Todos,
         q.what \in Enders => q.pc = "account" /\ q.todo = <<"session", "token">>,
         q.what \notin Enders => q.todo \in {<<"session">>, <<"token">>},
         q.pc = "insert" => q.what \in Creators,
         q.what \in Creators =>
            /\ q.era \in Nat /\ q.from \subseteq Requests
            /\ q.era = era \/ (q.from \cup {r}) \cap overtaken # {}
  PROVE  LoginsInv'
<1>1. /\ req[r].pc = "idle" /\ req' = [req EXCEPT ![r] = q]
      /\ UNCHANGED <<rows, connected, cleanup, histories>>
  BY DEF Starts
<1>2. /\ req'[r] = q /\ DOMAIN req' = Requests
      /\ \A s \in Requests \ {r} : req'[s] = req[s]
  BY <1>1 DEF LoginsInv, LoginsTypeOK
<1>3. RequestTypeOK(r)'
  BY <1>2 DEF RequestTypeOK, Working, Steps
<1>4. OnItsWay(r)'
  BY <1>2 DEF OnItsWay, Working, Enders, Creators, Whats
<1>5. StandsOnThisEra(r)'
  BY <1>1, <1>2 DEF StandsOnThisEra, histories
<1>6. MadeAsItSays(r)'
  BY <1>2 DEF MadeAsItSays, MadeBy
<1>7. HasFoundTheOthers(r)'
  BY <1>2 DEF HasFoundTheOthers, InTransaction, RevokesAll, Enders
<1> QED BY <1>1, <1>2, <1>3, <1>4, <1>5, <1>6, <1>7, MoveKeepsInv DEF Sound

\* What a request that begins has.
LEMMA BegunHas ==
  ASSUME NEW what, NEW pc, NEW by, NEW todo
  PROVE  LET q == Begun(what, pc, by, todo) IN
         /\ DOMAIN q = Fields /\ q.what = what /\ q.pc = pc /\ q.todo = todo
         /\ q.made = {} /\ q.found = {} /\ q.doomed = {}
         /\ q.era = era /\ q.from = UNION {lineage[c] : c \in by}
  BY DEF Begun, Fields

LEMMA StartInv ==
  ASSUME LoginsInv, NEW r \in Requests,
         \/ StartLogin(r) \/ StartPasswordChange(r) \/ StartTokenCreate(r)
         \/ StartRevoke(r) \/ StartLogout(r) \/ StartRevokeAll(r) \/ StartDelete(r)
  PROVE  LoginsInv'
<1> USE DEF Whats, Creators, Enders, Todos
<1>0. era \in Nat
  BY DEF LoginsInv, LoginsTypeOK
<1>1. CASE StartLogin(r)
  <2> DEFINE q == Begun("login", "insert", {}, <<"session">>)
  <2>1. Starts(r, q)
    BY <1>1 DEF StartLogin
  <2>2. /\ DOMAIN q = Fields /\ q.what = "login" /\ q.pc = "insert"
        /\ q.todo = <<"session">> /\ q.made = {} /\ q.found = {} /\ q.doomed = {}
        /\ q.era = era /\ q.from = UNION {lineage[c] : c \in {}}
    BY BegunHas
  <2>3. q.from \subseteq Requests
    BY <2>2
  <2> HIDE DEF q
  <2> QED BY <1>0, <2>1, <2>2, <2>3, StartKeepsInv
<1>2. CASE StartPasswordChange(r)
  <2>1. PICK c \in live :
          Starts(r, Begun("change", "account", {c}, <<"session", "token">>))
    BY <1>2 DEF StartPasswordChange
  <2> DEFINE q == Begun("change", "account", {c}, <<"session", "token">>)
  <2>2. /\ DOMAIN q = Fields /\ q.what = "change" /\ q.pc = "account"
        /\ q.todo = <<"session", "token">> /\ q.made = {} /\ q.found = {} /\ q.doomed = {}
    BY BegunHas
  <2>3. Starts(r, q)
    BY <2>1
  <2> HIDE DEF q
  <2> QED BY <2>2, <2>3, StartKeepsInv
<1>3. CASE StartTokenCreate(r)
  <2>1. PICK c \in live :
          Starts(r, [Begun("token_create", "insert", {c}, <<"token">>)
                        EXCEPT !.era = era_of[c]])
    BY <1>3 DEF StartTokenCreate
  <2> DEFINE b == Begun("token_create", "insert", {c}, <<"token">>)
             q == [b EXCEPT !.era = era_of[c]]
  <2>2. /\ DOMAIN b = Fields /\ b.what = "token_create" /\ b.pc = "insert"
        /\ b.todo = <<"token">> /\ b.made = {} /\ b.found = {} /\ b.doomed = {}
        /\ b.from = UNION {lineage[d] : d \in {c}}
    BY BegunHas
  <2>3. Starts(r, q)
    BY <2>1
  <2> HIDE DEF b
  <2>4. /\ DOMAIN q = Fields /\ q.what = "token_create" /\ q.pc = "insert"
        /\ q.todo = <<"token">> /\ q.made = {} /\ q.found = {} /\ q.doomed = {}
        /\ q.era = era_of[c] /\ q.from = lineage[c]
    BY <2>2 DEF Fields
  <2>5. era_of[c] \in Nat /\ lineage[c] \subseteq Requests
    BY DEF LoginsInv, LoginsTypeOK, Issued
  <2>6. era_of[c] = era \/ lineage[c] \cap overtaken # {}
    BY DEF LoginsInv, OnlyTheOvertakenOutlive
  <2> HIDE DEF q
  <2> QED BY <2>3, <2>4, <2>5, <2>6, StartKeepsInv
<1>4. CASE StartRevoke(r)
  <2>1. PICK c \in live, target \in Issued :
          Starts(r, [Begun("revoke", "find", {c}, <<kind_of[target]>>)
                        EXCEPT !.target = target])
    BY <1>4 DEF StartRevoke
  <2> DEFINE b == Begun("revoke", "find", {c}, <<kind_of[target]>>)
             q == [b EXCEPT !.target = target]
  <2>2. /\ DOMAIN b = Fields /\ b.what = "revoke" /\ b.pc = "find"
        /\ b.todo = <<kind_of[target]>> /\ b.made = {} /\ b.found = {} /\ b.doomed = {}
    BY BegunHas
  <2>3. Starts(r, q)
    BY <2>1
  <2> HIDE DEF b
  <2>4. /\ DOMAIN q = Fields /\ q.what = "revoke" /\ q.pc = "find"
        /\ q.todo = <<kind_of[target]>> /\ q.made = {} /\ q.found = {} /\ q.doomed = {}
    BY <2>2 DEF Fields
  <2>5. kind_of[target] \in {"session", "token"}
    BY DEF LoginsInv, LoginsTypeOK, Issued, Kinds
  <2> HIDE DEF q
  <2> QED BY <2>3, <2>4, <2>5, StartKeepsInv
<1>5. CASE StartLogout(r)
  <2>1. PICK c \in live :
          Starts(r, [Begun("logout", "find", {c}, <<"session">>) EXCEPT !.target = c])
    BY <1>5 DEF StartLogout
  <2> DEFINE b == Begun("logout", "find", {c}, <<"session">>)
             q == [b EXCEPT !.target = c]
  <2>2. /\ DOMAIN b = Fields /\ b.what = "logout" /\ b.pc = "find"
        /\ b.todo = <<"session">> /\ b.made = {} /\ b.found = {} /\ b.doomed = {}
    BY BegunHas
  <2>3. Starts(r, q)
    BY <2>1
  <2> HIDE DEF b
  <2>4. /\ DOMAIN q = Fields /\ q.what = "logout" /\ q.pc = "find"
        /\ q.todo = <<"session">> /\ q.made = {} /\ q.found = {} /\ q.doomed = {}
    BY <2>2 DEF Fields
  <2> HIDE DEF q
  <2> QED BY <2>3, <2>4, StartKeepsInv
<1>6. CASE StartRevokeAll(r)
  <2>1. PICK kind \in Kinds : Starts(r, Begun("revoke_all", "find", {}, <<kind>>))
    BY <1>6 DEF StartRevokeAll
  <2> DEFINE q == Begun("revoke_all", "find", {}, <<kind>>)
  <2>2. /\ DOMAIN q = Fields /\ q.what = "revoke_all" /\ q.pc = "find"
        /\ q.todo = <<kind>> /\ q.made = {} /\ q.found = {} /\ q.doomed = {}
    BY BegunHas
  <2>3. Starts(r, q) /\ kind \in {"session", "token"}
    BY <2>1 DEF Kinds
  <2> HIDE DEF q
  <2> QED BY <2>2, <2>3, StartKeepsInv
<1>7. CASE StartDelete(r)
  <2> DEFINE q == Begun("delete", "account", {}, <<"session", "token">>)
  <2>1. Starts(r, q)
    BY <1>7 DEF StartDelete
  <2>2. /\ DOMAIN q = Fields /\ q.what = "delete" /\ q.pc = "account"
        /\ q.todo = <<"session", "token">> /\ q.made = {} /\ q.found = {} /\ q.doomed = {}
    BY BegunHas
  <2> HIDE DEF q
  <2> QED BY <2>1, <2>2, StartKeepsInv
<1> QED BY <1>1, <1>2, <1>3, <1>4, <1>5, <1>6, <1>7

------------------------------------------------------------------------------
(***************************************************************************)
(* Statements that change only what their request has.                     *)
(***************************************************************************)

\* A request that ends before its commit.
LEMMA EndKeepsInv ==
  ASSUME LoginsInv, NEW r \in Requests, req[r].pc \notin {"idle", "close"},
         req' = [req EXCEPT ![r] = Done], UNCHANGED <<rows, connected, cleanup, histories>>
  PROVE  LoginsInv'
<1>1. /\ req'[r] = Done /\ Done.pc = "done" /\ DOMAIN req' = Requests
      /\ \A s \in Requests \ {r} : req'[s] = req[s]
  BY DEF LoginsInv, LoginsTypeOK, Done
<1>2. RequestTypeOK(r)'
  BY <1>1 DEF RequestTypeOK, Working, Steps
<1>3. OnItsWay(r)' /\ StandsOnThisEra(r)' /\ MadeAsItSays(r)' /\ HasFoundTheOthers(r)'
  BY <1>1 DEF OnItsWay, StandsOnThisEra, Working, Steps, MadeAsItSays, MadeBy,
              InTransaction, HasFoundTheOthers
<1> QED BY <1>1, <1>2, <1>3, MoveKeepsInv DEF Sound

LEMMA FailInv ==
  ASSUME LoginsInv, NEW r \in Requests, Fail(r)
  PROVE  LoginsInv'
<1>1. /\ req[r].pc \notin {"idle", "close"} /\ req' = [req EXCEPT ![r] = Done]
      /\ UNCHANGED <<rows, connected, cleanup, histories>>
  BY DEF Fail, InTransaction
<1> QED BY <1>1, EndKeepsInv

\* The statement on the account's row, of a password change or a deletion.
LEMMA AccountStatementInv ==
  ASSUME LoginsInv, NEW r \in Requests, UpdatePassword(r) \/ Tombstone(r)
  PROVE  LoginsInv'
<1>1. /\ req[r].pc = "account" /\ req[r].what \in Enders
      /\ UNCHANGED <<rows, connected, cleanup, histories>>
  BY DEF UpdatePassword, Tombstone, Enders
<1>2. Working(r) /\ RequestTypeOK(r) /\ OnItsWay(r) /\ DOMAIN req = Requests
  BY <1>1 DEF Working, Steps, LoginsInv, LoginsTypeOK, Sound
<1>3. CASE req' = [req EXCEPT ![r] = Done]
  BY <1>1, <1>3, EndKeepsInv
<1>4. CASE req' = [req EXCEPT ![r] = [@ EXCEPT !.pc = "find", !.beside = Unfinished]]
  <2>1. /\ DOMAIN req' = Requests /\ \A s \in Requests \ {r} : req'[s] = req[s]
        /\ req'[r] = [req[r] EXCEPT !.pc = "find", !.beside = Unfinished]
    BY <1>2, <1>4
  <2>2. /\ DOMAIN req'[r] = Fields /\ req'[r].pc = "find" /\ req'[r].beside = Unfinished
        /\ req'[r].what = req[r].what /\ req'[r].todo = req[r].todo
        /\ req'[r].made = req[r].made /\ req'[r].found = req[r].found
        /\ req'[r].doomed = req[r].doomed
    BY <1>2, <2>1 DEF RequestTypeOK, Fields
  <2>3. RequestTypeOK(r)'
    BY <1>1, <1>2, <2>2 DEF RequestTypeOK, Working, Steps, rows, Issued
  <2>4. OnItsWay(r)'
    BY <1>1, <1>2, <2>2 DEF OnItsWay, Working, Enders, Creators
  <2>5. StandsOnThisEra(r)'
    BY <1>1, <2>2 DEF StandsOnThisEra, Enders, Creators
  <2>6. MadeAsItSays(r)'
    BY <1>1, <1>2, <2>2 DEF MadeAsItSays, MadeBy, OnItsWay
  <2>7. HasFoundTheOthers(r)'
    <3>1. Unfinished' \subseteq Unfinished
      BY <1>1, <2>1, WorkingOrNot DEF Unfinished, LoginsInv
    <3>2. Looked(r)' = {}
      BY <1>1, <1>2, <2>2 DEF Looked, OnItsWay
    <3> QED BY <2>2, <3>1, <3>2 DEF HasFoundTheOthers
  <2> QED BY <1>1, <2>1, <2>2, <2>3, <2>4, <2>5, <2>6, <2>7, MoveKeepsInv DEF Sound
<1> QED BY <1>2, <1>3, <1>4 DEF UpdatePassword, Tombstone

LEMMA FindInv ==
  ASSUME LoginsInv, NEW r \in Requests, Find(r)
  PROVE  LoginsInv'
<1> DEFINE kind == Head(req[r].todo)
           found == Rows(r, kind)
<1>1. /\ req[r].pc = "find" /\ UNCHANGED <<rows, connected, cleanup, histories>>
      /\ req' = [req EXCEPT ![r].pc = "remove", ![r].found = found]
  BY DEF Find
<1>2. /\ Working(r) /\ RequestTypeOK(r) /\ Sound(r) /\ DOMAIN req = Requests
      /\ live \subseteq Issued /\ r \in InTransaction
  BY <1>1 DEF Working, Steps, LoginsInv, LoginsTypeOK, InTransaction
<1>3. found \subseteq Issued
  BY <1>2 DEF Rows, OverTheLimit, MadeBy, RequestTypeOK
<1>4. req[r].what \in Enders => found = {c \in live : kind_of[c] = kind}
  BY DEF Rows, Enders
<1> HIDE DEF found
<1>5. /\ DOMAIN req' = Requests /\ \A s \in Requests \ {r} : req'[s] = req[s]
      /\ req'[r] = [req[r] EXCEPT !.pc = "remove", !.found = found]
  BY <1>1, <1>2
<1>6. /\ DOMAIN req'[r] = Fields /\ req'[r].pc = "remove" /\ req'[r].found = found
      /\ req'[r].what = req[r].what /\ req'[r].todo = req[r].todo
      /\ req'[r].made = req[r].made /\ req'[r].beside = req[r].beside
      /\ req'[r].doomed = req[r].doomed /\ req'[r].era = req[r].era
      /\ req'[r].from = req[r].from
  BY <1>2, <1>5 DEF RequestTypeOK, Fields
<1>7. RequestTypeOK(r)'
  BY <1>1, <1>2, <1>3, <1>6 DEF RequestTypeOK, Working, Steps, rows, Issued
<1>8. OnItsWay(r)'
  BY <1>1, <1>2, <1>6 DEF OnItsWay, Working, Sound, Steps
<1>9. StandsOnThisEra(r)'
  BY <1>1, <1>2, <1>6 DEF StandsOnThisEra, Sound, Working, histories
<1>10. MadeAsItSays(r)'
  BY <1>1, <1>2, <1>6 DEF MadeAsItSays, MadeBy, Sound, InTransaction, histories
<1>11. HasFoundTheOthers(r)'
  <2> SUFFICES ASSUME req[r].what \in Enders PROVE HasFoundTheOthers(r)'
    BY <1>6 DEF HasFoundTheOthers, RevokesAll, Enders
  <2>1. Unfinished' \subseteq Unfinished
    BY <1>1, <1>5, WorkingOrNot DEF Unfinished, LoginsInv
  <2>2. Unfinished \subseteq req[r].beside
    BY <1>2 DEF Sound, HasFoundTheOthers, RevokesAll, Enders
  <2>3. ASSUME NEW c \in live, kind_of[c] \in Looked(r)', kind_of[c] # kind
        PROVE  \/ c \in req[r].doomed
               \/ \E s \in lineage[c] \cap (req[r].beside \ {r}) : req[s] # Idle
    BY <1>1, <1>2, <1>6, <2>3
       DEF Sound, HasFoundTheOthers, RevokesAll, Enders, Looked, rows
  <2>4. \A s \in Requests : req[s] # Idle => req'[s] # Idle
    BY <1>5, <1>6, WorkingOrNot DEF LoginsInv
  <2>5. \A c \in live : lineage[c] \subseteq Requests
    BY DEF LoginsInv, LoginsTypeOK, Issued
  <2>6. ASSUME NEW c \in live, kind_of[c] \in Looked(r)'
        PROVE  \/ c \in req[r].doomed
               \/ kind_of[c] = kind /\ c \in found
               \/ \E s \in lineage[c] \cap (req[r].beside \ {r}) : req'[s] # Idle
    BY <1>4, <2>3, <2>4, <2>5, <2>6
  <2> HIDE DEF kind
  <2>7. kind = Head(req'[r].todo)
    BY <1>6 DEF kind
  <2> QED BY <1>1, <1>6, <2>1, <2>2, <2>6, <2>7 DEF HasFoundTheOthers, rows, histories
<1> QED BY <1>1, <1>5, <1>6, <1>7, <1>8, <1>9, <1>10, <1>11, MoveKeepsInv DEF Sound

\* The kinds are taken off one at a time.
LEMMA TodoShrinks ==
  /\ Head(<<"session", "token">>) = "session" /\ Tail(<<"session", "token">>) = <<"token">>
  /\ Len(<<"session", "token">>) = 2
  /\ \A kind \in Kinds :
        Head(<<kind>>) = kind /\ Tail(<<kind>>) = <<>> /\ Len(<<kind>>) = 1
  /\ <<"token">> # <<"session", "token">> /\ <<>> # <<"token">>
  OBVIOUS

LEMMA RemoveInv ==
  ASSUME LoginsInv, NEW r \in Requests, Remove(r)
  PROVE  LoginsInv'
<1> DEFINE kind == Head(req[r].todo)
           gone == req[r].found \cap (live \cup MadeBy(r))
           todo == Tail(req[r].todo)
           pc == IF Len(req[r].todo) = 1 THEN "commit" ELSE "find"
<1>1. /\ req[r].pc = "remove" /\ UNCHANGED <<rows, connected, cleanup, histories>>
      /\ req' = [req EXCEPT ![r].doomed = @ \cup gone, ![r].todo = Tail(@), ![r].pc = pc]
  BY DEF Remove
<1>2. /\ Working(r) /\ RequestTypeOK(r) /\ Sound(r) /\ DOMAIN req = Requests
      /\ live \subseteq Issued /\ r \in InTransaction
  BY <1>1 DEF Working, Steps, LoginsInv, LoginsTypeOK, InTransaction
<1>3. /\ \/ req[r].todo = <<"session", "token">> /\ todo = <<"token">> /\ pc = "find"
         \/ req[r].todo \in {<<"session">>, <<"token">>} /\ todo = <<>> /\ pc = "commit"
      /\ req[r].what \notin Enders => pc = "commit"
      /\ req[r].what \in Enders /\ pc = "commit" => req[r].todo = <<"token">>
  <2>1. IF req[r].what \in Enders
        THEN req[r].todo \in {<<"session", "token">>, <<"token">>}
        ELSE req[r].todo \in {<<"session">>, <<"token">>}
    BY <1>1, <1>2 DEF Sound, OnItsWay
  <2>2. CASE req[r].todo = <<"session", "token">>
    BY <2>1, <2>2, TodoShrinks
  <2>3. ASSUME NEW k \in Kinds, req[r].todo = <<k>>
        PROVE  todo = <<>> /\ pc = "commit"
    BY <2>3, TodoShrinks
  <2>4. \A k \in Kinds : <<k>> # <<"session", "token">>
    OBVIOUS
  <2>5. <<"session">> # <<"token">>
    OBVIOUS
  <2> QED BY <2>1, <2>2, <2>3, <2>4, <2>5 DEF Kinds
<1>4. gone \subseteq Issued
  BY <1>2 DEF RequestTypeOK
<1> HIDE DEF gone, todo, pc
<1>5. /\ DOMAIN req' = Requests /\ \A s \in Requests \ {r} : req'[s] = req[s]
      /\ req'[r] = [req[r] EXCEPT !.doomed = @ \cup gone, !.todo = todo, !.pc = pc]
  BY <1>1, <1>2 DEF todo
<1>6. /\ DOMAIN req'[r] = Fields /\ req'[r].pc = pc /\ req'[r].found = req[r].found
      /\ req'[r].what = req[r].what /\ req'[r].todo = todo
      /\ req'[r].made = req[r].made /\ req'[r].beside = req[r].beside
      /\ req'[r].doomed = req[r].doomed \cup gone /\ req'[r].era = req[r].era
      /\ req'[r].from = req[r].from
  BY <1>2, <1>5 DEF RequestTypeOK, Fields
<1>7. RequestTypeOK(r)'
  BY <1>1, <1>2, <1>3, <1>4, <1>6 DEF RequestTypeOK, Working, Steps, Todos, rows, Issued
<1>8. OnItsWay(r)'
  BY <1>1, <1>2, <1>3, <1>6 DEF OnItsWay, Working, Sound, Steps
<1>9. StandsOnThisEra(r)'
  BY <1>1, <1>2, <1>3, <1>6 DEF StandsOnThisEra, Sound, Working, histories
<1>10. MadeAsItSays(r)'
  BY <1>1, <1>2, <1>3, <1>6 DEF MadeAsItSays, MadeBy, Sound, InTransaction, histories
<1>11. HasFoundTheOthers(r)'
  <2> SUFFICES ASSUME req[r].what \in Enders PROVE HasFoundTheOthers(r)'
    BY <1>6 DEF HasFoundTheOthers, RevokesAll, Enders
  <2>1. Unfinished' \subseteq Unfinished
    BY <1>1, <1>5, WorkingOrNot DEF Unfinished, LoginsInv
  <2>2. Unfinished \subseteq req[r].beside
    BY <1>2 DEF Sound, HasFoundTheOthers, RevokesAll, Enders
  <2>3. \A s \in Requests : req[s] # Idle => req'[s] # Idle
    BY <1>1, <1>3, <1>5, <1>6, WorkingOrNot DEF LoginsInv
  <2>4. \A c \in live : lineage[c] \subseteq Requests /\ kind_of[c] \in Kinds
    BY DEF LoginsInv, LoginsTypeOK, Issued
  <2>5. ASSUME NEW c \in live, kind_of[c] \in Looked(r)'
        PROVE  kind_of[c] \in Looked(r)
    BY <1>1, <1>3, <1>6, <2>4, <2>5, TodoShrinks DEF Looked, Kinds
  <2>6. ASSUME NEW c \in live, kind_of[c] \in Looked(r)
        PROVE  \/ c \in req'[r].doomed
               \/ \E s \in lineage[c] \cap (req[r].beside \ {r}) : req[s] # Idle
    BY <1>2, <1>6, <2>6 DEF Sound, HasFoundTheOthers, RevokesAll, Enders, gone
  <2>7. \A c \in live : kind_of[c] \in Looked(r)' =>
            \/ c \in req'[r].doomed
            \/ \E s \in lineage[c] \cap (req'[r].beside \ {r}) : req'[s] # Idle
    BY <1>6, <2>3, <2>4, <2>5, <2>6
  <2> QED BY <1>1, <1>6, <2>1, <2>2, <2>7 DEF HasFoundTheOthers, rows, histories
<1>12. pc \notin {"idle", "done", "close"}
  BY <1>3
<1> QED BY <1>1, <1>5, <1>6, <1>7, <1>8, <1>9, <1>10, <1>11, <1>12, MoveKeepsInv DEF Sound

------------------------------------------------------------------------------
(***************************************************************************)
(* The insert, and the commit.                                             *)
(***************************************************************************)
LEMMA InsertInv ==
  ASSUME LoginsInv, NEW r \in Requests, Insert(r)
  PROVE  LoginsInv'
<1> DEFINE id == Len(kind_of) + 1
           kind == Head(req[r].todo)
<1>1. /\ req[r].pc = "insert"
      /\ kind_of' = Append(kind_of, kind) /\ era_of' = Append(era_of, req[r].era)
      /\ lineage' = Append(lineage, req[r].from \cup {r})
      /\ req' = [req EXCEPT ![r].pc = "find", ![r].made = {id}]
      /\ UNCHANGED <<password, active, live, expired, connected, cleanup, era,
                     overtaken, unheard>>
  BY DEF Insert
<1>2. /\ LoginsTypeOK /\ Working(r) /\ RequestTypeOK(r) /\ Sound(r)
      /\ req[r].what \in Creators /\ req[r].todo \in {<<"session">>, <<"token">>}
      /\ req[r].what \notin Enders
  BY <1>1 DEF Working, Steps, LoginsInv, LoginsTypeOK, Sound, OnItsWay, Creators, Enders
<1>3. kind \in Kinds
  BY <1>2, TodoShrinks DEF Kinds
<1>4. req[r].era \in Nat /\ req[r].from \cup {r} \in SUBSET Requests
      /\ (req[r].era = era \/ (req[r].from \cup {r}) \cap overtaken # {})
  BY <1>1, <1>2 DEF Sound, StandsOnThisEra
<1> HIDE DEF kind
<1>5. /\ kind_of' \in Seq(Kinds) /\ Len(kind_of') = id /\ Issued' = Issued \cup {id}
      /\ era_of' \in Seq(Nat) /\ Len(era_of') = id
      /\ lineage' \in Seq(SUBSET Requests) /\ Len(lineage') = id
      /\ id \notin Issued /\ id \in Nat
  BY <1>1, <1>2, <1>3, <1>4 DEF LoginsTypeOK, Issued
<1>6. /\ \A c \in Issued : /\ kind_of'[c] = kind_of[c] /\ era_of'[c] = era_of[c]
                           /\ lineage'[c] = lineage[c]
      /\ era_of'[id] = req[r].era /\ lineage'[id] = req[r].from \cup {r}
  BY <1>1, <1>2, <1>3, <1>4 DEF LoginsTypeOK, Issued
<1> HIDE DEF id
<1>7. /\ DOMAIN req' = Requests /\ \A s \in Requests \ {r} : req'[s] = req[s]
      /\ req'[r] = [req[r] EXCEPT !.pc = "find", !.made = {id}]
  BY <1>1, <1>2 DEF LoginsTypeOK
<1>8. /\ DOMAIN req'[r] = Fields /\ req'[r].pc = "find" /\ req'[r].found = req[r].found
      /\ req'[r].what = req[r].what /\ req'[r].todo = req[r].todo
      /\ req'[r].made = {id} /\ req'[r].beside = req[r].beside
      /\ req'[r].doomed = req[r].doomed /\ req'[r].era = req[r].era
      /\ req'[r].from = req[r].from
  BY <1>2, <1>7 DEF RequestTypeOK, Fields
<1>9. LoginsTypeOK'
  <2>1. RequestTypeOK(r)'
    BY <1>2, <1>5, <1>8 DEF RequestTypeOK, Working, Steps
  <2>2. \A s \in Requests \ {r} : RequestTypeOK(s)'
    BY <1>2, <1>5, <1>7 DEF LoginsTypeOK, RequestTypeOK, Working
  <2> QED BY <1>1, <1>2, <1>5, <1>7, <2>1, <2>2 DEF LoginsTypeOK
<1>10. Sound(r)'
  <2>1. OnItsWay(r)'
    BY <1>2, <1>8 DEF OnItsWay, Working, Steps
  <2>2. StandsOnThisEra(r)'
    BY <1>1, <1>4, <1>8 DEF StandsOnThisEra
  <2>3. MadeAsItSays(r)'
    BY <1>6, <1>8 DEF MadeAsItSays, MadeBy
  <2>4. HasFoundTheOthers(r)'
    BY <1>2, <1>8 DEF HasFoundTheOthers, RevokesAll, Enders
  <2> QED BY <2>1, <2>2, <2>3, <2>4 DEF Sound
<1>11. ASSUME NEW s \in Requests \ {r} PROVE Sound(s)'
  <2>1. Sound(s) /\ req'[s] = req[s] /\ RequestTypeOK(s)
    BY <1>2, <1>7 DEF LoginsInv, LoginsTypeOK
  <2>2. OnItsWay(s)' /\ StandsOnThisEra(s)'
    BY <1>1, <2>1 DEF Sound, OnItsWay, Working, StandsOnThisEra
  <2>3. MadeAsItSays(s)'
    <3>1. MadeBy(s)' = MadeBy(s) /\ MadeBy(s) \subseteq Issued
      BY <2>1 DEF MadeBy, InTransaction, RequestTypeOK, Working, Steps
    <3> QED BY <1>6, <2>1, <3>1 DEF Sound, MadeAsItSays
  <2>4. HasFoundTheOthers(s)'
    <3> SUFFICES ASSUME s \in InTransaction, RevokesAll(s) PROVE HasFoundTheOthers(s)'
      BY <2>1 DEF HasFoundTheOthers, InTransaction, RevokesAll
    <3>1. Looked(s)' = Looked(s)
      BY <2>1 DEF Looked
    <3>2. Unfinished' \subseteq Unfinished
      BY <1>1, <1>2, <1>7, <1>8, WorkingOrNot DEF Unfinished
    <3>3. \A t \in Requests : req[t] # Idle => req'[t] # Idle
      BY <1>2, <1>7, <1>8, WorkingOrNot
    <3>4. \A c \in live : /\ lineage[c] \subseteq Requests /\ lineage'[c] = lineage[c]
                          /\ kind_of'[c] = kind_of[c]
      BY <1>2, <1>6 DEF LoginsTypeOK, Issued
    <3>5. ASSUME NEW c \in live, kind_of[c] \in Looked(s)
          PROVE  \/ c \in req[s].doomed
                 \/ /\ req[s].pc = "remove" /\ kind_of[c] = Head(req[s].todo)
                    /\ c \in req[s].found
                 \/ \E t \in lineage[c] \cap (req[s].beside \ {s}) : req'[t] # Idle
      BY <2>1, <3>3, <3>4, <3>5 DEF Sound, HasFoundTheOthers
    <3> QED BY <1>1, <2>1, <3>1, <3>2, <3>4, <3>5 DEF Sound, HasFoundTheOthers
  <2> QED BY <2>2, <2>3, <2>4 DEF Sound
<1>12. OnlyTheOvertakenOutlive'
  BY <1>1, <1>2, <1>6 DEF LoginsInv, OnlyTheOvertakenOutlive, LoginsTypeOK
<1>13. EndedCredentialsLoseTheirConnections'
  <2> SUFFICES ASSUME NEW c \in connected,
                      ~(c \in live \cup unheard), ~(cleanup.pc = "close" /\ c \in cleanup.doomed)
              PROVE  \E s \in Requests : req'[s].pc = "close" /\ c \in Closes(s)'
    BY <1>1 DEF EndedCredentialsLoseTheirConnections
  <2>1. PICK s \in Requests : req[s].pc = "close" /\ c \in Closes(s)
    BY DEF EndedCredentialsLoseTheirConnections, LoginsInv
  <2>2. s # r /\ c \in Closes(s)'
    BY <1>1, <1>5, <1>7, <2>1 DEF Closes
  <2> QED BY <1>7, <2>1, <2>2
<1> QED BY <1>9, <1>10, <1>11, <1>12, <1>13 DEF LoginsInv

LEMMA CommittedKeepsInv ==
  ASSUME LoginsInv, NEW r \in Requests, Committed(r),
         \/ req' = [req EXCEPT ![r].pc = "close"] /\ UNCHANGED unheard
         \/ req' = [req EXCEPT ![r] = Done] /\ unheard' = unheard \cup DoomedBy(r)
  PROVE  LoginsInv'
<1>1. /\ req[r].pc = "commit" /\ r \in InTransaction /\ req[r] # Done /\ req[r] # Idle
      /\ live' = (live \cup req[r].made) \ req[r].doomed
      /\ UNCHANGED <<kind_of, expired, connected, cleanup, era_of, lineage, crowded>>
      /\ era' = IF RevokesAll(r) THEN era + 1 ELSE era
      /\ overtaken' = overtaken \cup {s \in req[r].beside \ {r} : req[s] # Idle}
      /\ MadeBy(r) = req[r].made /\ DoomedBy(r) = req[r].doomed
  BY DEF Committed, InTransaction, MadeBy, DoomedBy, Idle, Done
<1>2. /\ LoginsTypeOK /\ Working(r) /\ RequestTypeOK(r) /\ Sound(r)
      /\ req[r].made \subseteq Issued /\ req[r].doomed \subseteq Issued
  BY <1>1 DEF Working, Steps, LoginsInv, LoginsTypeOK, RequestTypeOK
<1>3. /\ DOMAIN req' = Requests /\ \A s \in Requests \ {r} : req'[s] = req[s]
      /\ \/ req'[r] = [req[r] EXCEPT !.pc = "close"] /\ unheard' = unheard
         \/ req'[r] = Done /\ unheard' = unheard \cup req[r].doomed
  BY <1>1, <1>2 DEF LoginsTypeOK
<1>4. \/ /\ DOMAIN req'[r] = Fields /\ req'[r].pc = "close" /\ req'[r].found = req[r].found
         /\ req'[r].what = req[r].what /\ req'[r].todo = req[r].todo
         /\ req'[r].made = req[r].made /\ req'[r].doomed = req[r].doomed
         /\ unheard' = unheard
      \/ req'[r] = Done /\ req'[r].pc = "done" /\ unheard' = unheard \cup req[r].doomed
  BY <1>2, <1>3 DEF RequestTypeOK, Fields, Done
<1>5. /\ req'[r].pc \in {"close", "done"} /\ r \notin InTransaction'
      /\ req'[r] # Idle
  BY <1>4 DEF InTransaction, Idle
<1>6. LoginsTypeOK'
  <2>1. RequestTypeOK(r)'
    BY <1>1, <1>2, <1>4 DEF RequestTypeOK, Working, Steps, Issued
  <2>2. \A s \in Requests \ {r} : RequestTypeOK(s)'
    BY <1>1, <1>2, <1>3 DEF LoginsTypeOK, RequestTypeOK, Working, Issued
  <2>3. era' \in Nat /\ live' \subseteq Issued'
    BY <1>1, <1>2 DEF LoginsTypeOK, Issued
  <2> QED BY <1>1, <1>2, <1>3, <2>1, <2>2, <2>3 DEF LoginsTypeOK
<1>7. Sound(r)'
  <2>1. OnItsWay(r)'
    BY <1>2, <1>4 DEF OnItsWay, Working, Steps, Sound
  <2>2. StandsOnThisEra(r)' /\ MadeAsItSays(r)' /\ HasFoundTheOthers(r)'
    BY <1>5 DEF StandsOnThisEra, Working, Steps, MadeAsItSays, MadeBy, HasFoundTheOthers
  <2> QED BY <2>1, <2>2 DEF Sound
<1>8. RevokesAll(r) => /\ Unfinished \subseteq req[r].beside
                       /\ \A c \in live :
                            \/ c \in req[r].doomed
                            \/ \E s \in lineage[c] \cap (req[r].beside \ {r}) : req[s] # Idle
                       /\ req[r].made = {}
  <2>1. \A c \in live : kind_of[c] \in Looked(r)
    BY <1>1, <1>2 DEF LoginsTypeOK, Issued, Looked
  <2>2. RevokesAll(r) => req[r].made = {}
    BY <1>2 DEF Sound, OnItsWay, RevokesAll, Creators
  <2> QED BY <1>1, <1>2, <2>1, <2>2 DEF Sound, HasFoundTheOthers
<1>9. ASSUME NEW s \in Requests \ {r} PROVE Sound(s)'
  <2>1. Sound(s) /\ req'[s] = req[s] /\ RequestTypeOK(s)
    BY <1>2, <1>3 DEF LoginsInv, LoginsTypeOK
  <2>2. OnItsWay(s)' /\ MadeAsItSays(s)'
    BY <1>1, <2>1 DEF Sound, OnItsWay, Working, MadeAsItSays, MadeBy, InTransaction
  <2>3. StandsOnThisEra(s)'
    <3> SUFFICES ASSUME Working(s), req[s].what \in Creators, req[s].pc # "close"
                PROVE  req[s].era = era' \/ (req[s].from \cup {s}) \cap overtaken' # {}
      BY <2>1 DEF Sound, StandsOnThisEra, Working
    <3>1. CASE RevokesAll(r)
      <4>1. s \in Unfinished /\ req[s] # Idle
        BY DEF Unfinished, Working, Steps, Done, Idle
      <4>2. s \in overtaken'
        BY <1>1, <1>8, <3>1, <4>1
      <4> QED BY <4>2
    <3>2. CASE ~RevokesAll(r)
      BY <1>1, <2>1, <3>2 DEF Sound, StandsOnThisEra
    <3> QED BY <3>1, <3>2
  <2>4. HasFoundTheOthers(s)'
    <3> SUFFICES ASSUME s \in InTransaction, RevokesAll(s) PROVE HasFoundTheOthers(s)'
      BY <2>1 DEF HasFoundTheOthers, InTransaction, RevokesAll
    <3>1. Looked(s)' = Looked(s)
      BY <2>1 DEF Looked
    <3>2. /\ Unfinished' \subseteq Unfinished /\ r \in Unfinished
          /\ Unfinished \subseteq req[s].beside
      BY <1>1, <1>3, <2>1 DEF Unfinished, Sound, HasFoundTheOthers
    <3>3. \A t \in Requests : req[t] # Idle => req'[t] # Idle
      BY <1>3, <1>5
    <3>4. \A c \in live : lineage[c] \subseteq Requests
      BY <1>2 DEF LoginsTypeOK, Issued
    <3>5. ASSUME NEW c \in live', kind_of[c] \in Looked(s)
          PROVE  \/ c \in req[s].doomed
                 \/ /\ req[s].pc = "remove" /\ kind_of[c] = Head(req[s].todo)
                    /\ c \in req[s].found
                 \/ \E t \in lineage[c] \cap (req[s].beside \ {s}) : req'[t] # Idle
      <4>1. CASE c \in live
        BY <2>1, <3>3, <3>4, <3>5, <4>1 DEF Sound, HasFoundTheOthers
      <4>2. CASE c \in req[r].made
        <5>1. r \in lineage[c]
          BY <1>1, <1>2, <4>2 DEF Sound, MadeAsItSays
        <5> QED BY <1>5, <3>2, <5>1
      <4> QED BY <1>1, <4>1, <4>2
    <3> QED BY <1>1, <2>1, <3>1, <3>2, <3>5 DEF Sound, HasFoundTheOthers
  <2> QED BY <2>2, <2>3, <2>4 DEF Sound
<1>10. OnlyTheOvertakenOutlive'
  <2> SUFFICES ASSUME NEW c \in live'
              PROVE  era_of[c] = era' \/ lineage[c] \cap overtaken' # {}
    BY <1>1 DEF OnlyTheOvertakenOutlive
  <2>1. CASE RevokesAll(r)
    BY <1>1, <1>8, <2>1
  <2>2. CASE ~RevokesAll(r) /\ c \in live
    BY <1>1, <2>2 DEF LoginsInv, OnlyTheOvertakenOutlive
  <2>3. CASE ~RevokesAll(r) /\ c \in req[r].made
    <3>1. era_of[c] = req[r].era /\ lineage[c] = req[r].from \cup {r}
      BY <1>1, <1>2, <2>3 DEF Sound, MadeAsItSays
    <3>2. req[r].era = era \/ (req[r].from \cup {r}) \cap overtaken # {}
      BY <1>1, <1>2, <2>3 DEF Sound, OnItsWay, StandsOnThisEra
    <3> QED BY <1>1, <2>3, <3>1, <3>2
  <2> QED BY <1>1, <2>1, <2>2, <2>3
<1>11. EndedCredentialsLoseTheirConnections'
  <2> SUFFICES ASSUME NEW c \in connected,
                      ~(c \in live' \cup unheard'),
                      ~(cleanup.pc = "close" /\ c \in cleanup.doomed)
              PROVE  \E s \in Requests : req'[s].pc = "close" /\ c \in Closes(s)'
    BY <1>1 DEF EndedCredentialsLoseTheirConnections
  <2>1. CASE c \in live
    <3>1. c \in req[r].doomed /\ c \in Issued
      BY <1>1, <1>2, <2>1
    <3>2. req'[r].pc = "close" /\ req'[r].doomed = req[r].doomed
      BY <1>4, <3>1
    <3> QED BY <1>1, <3>1, <3>2 DEF Closes, Issued
  <2>2. CASE c \notin live
    <3>1. PICK s \in Requests : req[s].pc = "close" /\ c \in Closes(s)
      BY <1>4, <2>2 DEF EndedCredentialsLoseTheirConnections, LoginsInv
    <3>2. s # r /\ c \in Closes(s)'
      BY <1>1, <1>3, <3>1 DEF Closes, Issued
    <3> QED BY <1>3, <3>1, <3>2
  <2> QED BY <2>1, <2>2
<1> QED BY <1>6, <1>7, <1>9, <1>10, <1>11 DEF LoginsInv

LEMMA CommitInv ==
  ASSUME LoginsInv, NEW r \in Requests, Commit(r) \/ CommitUnheard(r)
  PROVE  LoginsInv'
<1>1. CASE Commit(r)
  BY <1>1, CommittedKeepsInv DEF Commit
<1>2. CASE CommitUnheard(r)
  BY <1>2, CommittedKeepsInv DEF CommitUnheard
<1> QED BY <1>1, <1>2

------------------------------------------------------------------------------
(***************************************************************************)
(* Closes, connections, time, the cleanup and the admin.                   *)
(***************************************************************************)

\* Credentials go, and what is connected changes, behind the requests.
LEMMA BehindTheRequestsKeepsInv ==
  ASSUME LoginsInv,
         DOMAIN req' = Requests,
         \A r \in Requests : req'[r] = req[r] \/ (req[r].pc = "close" /\ req'[r] = Done),
         UNCHANGED <<kind_of, histories>>,
         \A c \in live' : c \in live,
         cleanup' \in [pc : {"resting", "commit", "close"}, doomed : SUBSET Nat],
         EndedCredentialsLoseTheirConnections'
  PROVE  LoginsInv'
<1> USE DEF histories
<1>1. LoginsTypeOK /\ Done.pc = "done" /\ Done # Idle
  BY DEF LoginsInv, Done, Idle
<1>2. LoginsTypeOK'
  <2>1. ASSUME NEW r \in Requests PROVE RequestTypeOK(r)'
    BY <1>1 DEF LoginsTypeOK, RequestTypeOK, Working, Steps, Issued
  <2> QED BY <1>1, <2>1 DEF LoginsTypeOK, Issued
<1>3. ASSUME NEW r \in Requests PROVE Sound(r)'
  <2>1. Sound(r)
    BY DEF LoginsInv
  <2>2. CASE req'[r] = Done
    BY <1>1, <2>2 DEF Sound, OnItsWay, Working, Steps, StandsOnThisEra, MadeAsItSays,
                      MadeBy, InTransaction, HasFoundTheOthers
  <2>3. CASE req'[r] = req[r]
    <3>1. OnItsWay(r)' /\ StandsOnThisEra(r)' /\ MadeAsItSays(r)'
      BY <2>1, <2>3 DEF Sound, OnItsWay, Working, StandsOnThisEra, MadeAsItSays, MadeBy,
                        InTransaction
    <3>2. HasFoundTheOthers(r)'
      <4> SUFFICES ASSUME r \in InTransaction, RevokesAll(r) PROVE HasFoundTheOthers(r)'
        BY <2>3 DEF HasFoundTheOthers, InTransaction, RevokesAll
      <4>1. Looked(r)' = Looked(r)
        BY <2>3 DEF Looked
      <4>2. Unfinished' \subseteq Unfinished
        BY DEF Unfinished
      <4>3. \A t \in Requests : req[t] # Idle => req'[t] # Idle
        BY <1>1
      <4>4. \A c \in live : lineage[c] \subseteq Requests
        BY <1>1 DEF LoginsTypeOK, Issued
      <4>5. ASSUME NEW c \in live', kind_of[c] \in Looked(r)
            PROVE  \/ c \in req[r].doomed
                   \/ /\ req[r].pc = "remove" /\ kind_of[c] = Head(req[r].todo)
                      /\ c \in req[r].found
                   \/ \E t \in lineage[c] \cap (req[r].beside \ {r}) : req'[t] # Idle
        BY <2>1, <4>3, <4>4, <4>5 DEF Sound, HasFoundTheOthers
      <4> QED BY <2>1, <2>3, <4>1, <4>2, <4>5 DEF Sound, HasFoundTheOthers
    <3> QED BY <3>1, <3>2 DEF Sound
  <2> QED BY <2>2, <2>3
<1>4. OnlyTheOvertakenOutlive'
  BY DEF LoginsInv, OnlyTheOvertakenOutlive
<1> QED BY <1>2, <1>3, <1>4 DEF LoginsInv

LEMMA CloseInv ==
  ASSUME LoginsInv, NEW r \in Requests, Close(r)
  PROVE  LoginsInv'
<1>1. /\ req[r].pc = "close" /\ connected' = connected \ Closes(r)
      /\ req' = [req EXCEPT ![r] = Done] /\ UNCHANGED <<rows, cleanup, histories>>
  BY DEF Close
<1>2. /\ DOMAIN req' = Requests /\ req'[r] = Done /\ \A s \in Requests \ {r} : req'[s] = req[s]
      /\ UNCHANGED <<kind_of, histories, live, cleanup, unheard>>
      /\ cleanup \in [pc : {"resting", "commit", "close"}, doomed : SUBSET Nat]
  BY <1>1 DEF LoginsInv, LoginsTypeOK, rows, histories
<1>4. UNCHANGED <<kind_of, histories>>
  BY <1>2 DEF histories
<1>5. \A c \in live' : c \in live
  BY <1>2
<1>6. \A s \in Requests : req'[s] = req[s] \/ (req[s].pc = "close" /\ req'[s] = Done)
  BY <1>1, <1>2
<1>7. cleanup' \in [pc : {"resting", "commit", "close"}, doomed : SUBSET Nat]
  BY <1>2
<1>3. EndedCredentialsLoseTheirConnections'
  <2> SUFFICES ASSUME NEW c \in connected, c \notin Closes(r),
                      ~(c \in live \cup unheard), ~(cleanup.pc = "close" /\ c \in cleanup.doomed)
              PROVE  \E s \in Requests : req'[s].pc = "close" /\ c \in Closes(s)'
    BY <1>1, <1>2 DEF EndedCredentialsLoseTheirConnections
  <2>1. PICK s \in Requests : req[s].pc = "close" /\ c \in Closes(s)
    BY DEF EndedCredentialsLoseTheirConnections, LoginsInv
  <2>2. s # r /\ c \in Closes(s)'
    BY <1>2, <2>1 DEF Closes, Issued
  <2> QED BY <1>2, <2>1, <2>2
<1> QED BY <1>2, <1>3, <1>4, <1>5, <1>6, <1>7, BehindTheRequestsKeepsInv

LEMMA ConnectInv ==
  ASSUME LoginsInv, NEW c \in Issued, Connect(c) \/ Expire(c)
  PROVE  LoginsInv'
<1>1. /\ UNCHANGED <<kind_of, histories, live, req, cleanup, unheard>>
      /\ connected' \subseteq connected \cup live
  BY DEF Connect, Expire, Valid, rows, histories
<1>2. /\ DOMAIN req = Requests
      /\ cleanup \in [pc : {"resting", "commit", "close"}, doomed : SUBSET Nat]
  BY DEF LoginsInv, LoginsTypeOK
<1>3. EndedCredentialsLoseTheirConnections'
  BY <1>1 DEF LoginsInv, EndedCredentialsLoseTheirConnections, Closes, Issued
<1> QED BY <1>1, <1>2, <1>3, BehindTheRequestsKeepsInv

LEMMA UndeleteInv == ASSUME LoginsInv, Undelete PROVE LoginsInv'
<1>1. UNCHANGED <<kind_of, histories, live, req, cleanup, connected, unheard>>
  BY DEF Undelete, histories
<1>2. /\ DOMAIN req = Requests
      /\ cleanup \in [pc : {"resting", "commit", "close"}, doomed : SUBSET Nat]
  BY DEF LoginsInv, LoginsTypeOK
<1>3. EndedCredentialsLoseTheirConnections'
  BY <1>1 DEF LoginsInv, EndedCredentialsLoseTheirConnections, Closes, Issued
<1> QED BY <1>1, <1>2, <1>3, BehindTheRequestsKeepsInv

LEMMA CleanupInv ==
  ASSUME LoginsInv, Sweep \/ SweepCommit \/ SweepClose
  PROVE  LoginsInv'
<1> DEFINE Passes == [pc : {"resting", "commit", "close"}, doomed : SUBSET Nat]
<1>1. /\ LoginsTypeOK /\ DOMAIN req = Requests /\ cleanup \in Passes /\ live \subseteq Nat
      /\ Resting \in Passes /\ Resting.pc = "resting"
  BY DEF LoginsInv, LoginsTypeOK, Resting, Issued
<1>2. UNCHANGED <<kind_of, histories, req, unheard>>
  BY DEF Sweep, SweepCommit, SweepEnds, SweepClose, rows, histories
<1>3. /\ live' \subseteq live /\ cleanup' \in Passes
      /\ connected' \subseteq connected
      /\ \A c \in live \ live' : cleanup'.pc = "close" /\ c \in cleanup'.doomed
      /\ \A c \in connected' : cleanup.pc = "close" /\ c \in cleanup.doomed =>
            cleanup'.pc = "close" /\ c \in cleanup'.doomed
  <2>1. CASE Sweep
    BY <1>1, <2>1 DEF Sweep, rows
  <2>2. CASE SweepCommit
    <3>1. cleanup.pc = "commit" /\ cleanup' = [cleanup EXCEPT !.pc = "close"]
      BY <2>2 DEF SweepCommit, SweepEnds
    <3>2. cleanup' \in Passes /\ cleanup'.pc = "close" /\ cleanup'.doomed = cleanup.doomed
      BY <1>1, <3>1
    <3> QED BY <2>2, <3>1, <3>2 DEF SweepCommit, SweepEnds
  <2>3. CASE SweepClose
    BY <1>1, <2>3 DEF SweepClose, rows
  <2> QED BY <2>1, <2>2, <2>3
<1>4. \A s \in Requests : Closes(s)' = Closes(s)
  BY <1>2 DEF Closes, Issued
<1>5. EndedCredentialsLoseTheirConnections'
  BY <1>2, <1>3, <1>4 DEF LoginsInv, EndedCredentialsLoseTheirConnections
<1> QED BY <1>1, <1>2, <1>3, <1>5, BehindTheRequestsKeepsInv

------------------------------------------------------------------------------
(***************************************************************************)
(* The theorems.                                                           *)
(***************************************************************************)
LEMMA LoginsNextInv ==
  ASSUME LoginsInv, [LoginsNext]_login_vars PROVE LoginsInv'
<1>1. CASE UNCHANGED login_vars
  <2>1. UNCHANGED <<kind_of, histories, live, req, cleanup, connected, unheard>>
    BY <1>1 DEF login_vars, histories
  <2>2. /\ DOMAIN req = Requests
        /\ cleanup \in [pc : {"resting", "commit", "close"}, doomed : SUBSET Nat]
    BY DEF LoginsInv, LoginsTypeOK
  <2>3. EndedCredentialsLoseTheirConnections'
    BY <2>1 DEF LoginsInv, EndedCredentialsLoseTheirConnections, Closes, Issued
  <2> QED BY <2>1, <2>2, <2>3, BehindTheRequestsKeepsInv
<1>2. ASSUME NEW r \in Requests,
             \/ StartLogin(r) \/ StartPasswordChange(r) \/ StartTokenCreate(r)
             \/ StartRevoke(r) \/ StartLogout(r) \/ StartRevokeAll(r) \/ StartDelete(r)
      PROVE  LoginsInv'
  BY <1>2, StartInv
<1>3. ASSUME NEW r \in Requests,
             \/ UpdatePassword(r) \/ Tombstone(r) \/ Insert(r) \/ Find(r) \/ Remove(r)
             \/ Commit(r) \/ CommitUnheard(r) \/ Fail(r) \/ Close(r)
      PROVE  LoginsInv'
  BY <1>3, AccountStatementInv, InsertInv, FindInv, RemoveInv, CommitInv, FailInv, CloseInv
<1>4. ASSUME NEW c \in Issued, Connect(c) \/ Expire(c) PROVE LoginsInv'
  BY <1>4, ConnectInv
<1>5. CASE Sweep \/ SweepCommit \/ SweepClose
  BY <1>5, CleanupInv
<1> QED BY <1>1, <1>2, <1>3, <1>4, <1>5, UndeleteInv DEF LoginsNext

\* The invariant holds in every state, for any requests and any limit.
THEOREM LoginsInvariant == LoginsSpec => []LoginsInv
<1> QED BY LoginsInitInv, LoginsNextInv, PTL DEF LoginsSpec

\* What survives a password change or a deletion comes of a request that was in flight
\* as its transaction ran: the DELETEs that follow the account's row find all the others.
THEOREM OnlyWhatWasInFlightOutlives == LoginsSpec => []OnlyTheOvertakenOutlive
<1>1. LoginsInv => OnlyTheOvertakenOutlive
  BY DEF LoginsInv
<1> QED BY <1>1, LoginsInvariant, PTL

\* A connection on a credential that ended has its close before it, if the commit that
\* ended it was not reported as failed (the closes after a commit, and cleanup.ts).
THEOREM ConnectionsEndWithTheirCredential ==
    LoginsSpec => []EndedCredentialsLoseTheirConnections
<1>1. LoginsInv => EndedCredentialsLoseTheirConnections
  BY DEF LoginsInv
<1> QED BY <1>1, LoginsInvariant, PTL

------------------------------------------------------------------------------
(***************************************************************************)
(* The limit.                                                              *)
(***************************************************************************)

\* The credentials a creator's DELETE leaves, once it has found what is over the limit.
Left(r) ==
    {c \in live \cup req[r].made :
        /\ \A d \in req[r].made : kind_of[c] = kind_of[d]
        /\ c \notin req[r].doomed
        /\ req[r].pc = "remove" => c \notin req[r].found}

\* A creator deletes credentials of the kind it made, down to the limit, unless another
\* creates beside it.
KeepsToTheLimit(r) ==
    r \in InTransaction /\ req[r].what \in Creators =>
        /\ \E c \in Issued : req[r].made = {c}
        /\ \A c \in req[r].made : req[r].pc # "commit" => req[r].todo = <<kind_of[c]>>
        /\ r \notin crowded /\ req[r].pc # "find" => Cardinality(Left(r)) <= MaxCredentials

\* Two creators of one kind, both in their transactions, are both known as crowded.
Crowds(r, s) ==
    r \in InTransaction /\ s \in InTransaction =>
        \A c \in req[r].made, d \in req[s].made :
            kind_of[c] = kind_of[d] => r \in crowded /\ s \in crowded

Counted(kind) == {c \in live : kind_of[c] = kind /\ lineage[c] \cap crowded = {}}

LimitInv ==
    /\ \A r \in Requests : KeepsToTheLimit(r)
    /\ \A r \in Requests : \A s \in Requests \ {r} : Crowds(r, s)
    /\ OnlyOverlapPassesTheLimit

\* The least of a finite set of ids: the order of strict inclusion is well founded on the
\* subsets of a finite set, so one of the sets of smaller ids is minimal, hence empty.
LEMMA SmallestId ==
  ASSUME NEW S \in SUBSET Nat, IsFiniteSet(S), S # {}
  PROVE  \E m \in S : \A n \in S : m <= n
<1> DEFINE Below(m) == {n \in S : n < m}
           F == {Below(m) : m \in S}
<1>1. IsWellFoundedOn(StrictSubsetOrdering(S), SUBSET S)
  BY FS_StrictSubsetOrderingWellFounded, FS_FiniteSubsetsOfFinite
<1>2. F \subseteq SUBSET S /\ F # {}
  OBVIOUS
<1> HIDE DEF F
<1>3. PICK x \in F : \A y \in F : ~(<<y, x>> \in StrictSubsetOrdering(S))
  BY <1>1, <1>2, WFMin
<1>4. PICK m \in S : x = Below(m)
  BY <1>3 DEF F
<1>5. ASSUME NEW n \in S PROVE m <= n
  <2>0. m \in Nat /\ n \in Nat
    OBVIOUS
  <2> SUFFICES ASSUME n < m PROVE FALSE
    BY <2>0
  <2>1. Below(n) \in F
    BY DEF F
  <2>2. n \in Below(m) /\ n \notin Below(n)
    BY <2>0
  <2>4. Below(n) \subseteq Below(m)
    <3> SUFFICES ASSUME NEW d \in S, d < n PROVE d < m
      OBVIOUS
    <3>1. d \in Nat
      OBVIOUS
    <3> QED BY <2>0, <3>1
  <2>3. <<Below(n), x>> \in StrictSubsetOrdering(S)
    BY <1>4, <2>2, <2>4 DEF StrictSubsetOrdering
  <2> QED BY <1>3, <2>1, <2>3
<1> QED BY <1>5

\* No more than n ids have fewer than n that are newer.
LEMMA NewestAreFew ==
  ASSUME NEW S \in SUBSET Nat, IsFiniteSet(S), NEW n \in Nat
  PROVE  Cardinality(Newest(S, n)) <= n
<1> DEFINE N == Newest(S, n)
<1>1. N \subseteq S /\ IsFiniteSet(N)
  BY FS_Subset DEF Newest
<1>2. CASE N = {}
  BY <1>2, FS_EmptySet
<1>3. CASE N # {}
  <2> HIDE DEF N
  <2>1. PICK m \in N : \A c \in N : m <= c
    BY <1>1, <1>3, SmallestId
  <2> DEFINE above == {d \in S : d > m}
  <2>2. Cardinality(above) < n
    BY <2>1 DEF N, Newest
  <2>3. IsFiniteSet(above) /\ Cardinality(above) \in Nat
    BY FS_Subset, FS_CardinalityType
  <2>4. N \subseteq above \cup {m}
    <3> SUFFICES ASSUME NEW c \in N, c # m PROVE c > m
      BY <1>1
    <3>1. c \in Nat /\ m \in Nat /\ m <= c
      BY <1>1, <2>1
    <3> QED BY <3>1
  <2>5. /\ IsFiniteSet(above \cup {m})
        /\ Cardinality(above \cup {m}) <= Cardinality(above) + 1
        /\ Cardinality(above \cup {m}) \in Nat
    <3> HIDE DEF above
    <3>1. /\ IsFiniteSet(above \cup {m})
          /\ Cardinality(above \cup {m}) =
                IF m \in above THEN Cardinality(above) ELSE Cardinality(above) + 1
      BY <2>3, FS_AddElement
    <3> QED BY <2>3, <3>1
  <2>6. Cardinality(N) <= Cardinality(above \cup {m})
    BY <2>4, <2>5, FS_Subset
  <2>7. Cardinality(N) \in Nat
    BY <1>1, FS_CardinalityType
  <2> HIDE DEF above
  <2> QED BY <2>2, <2>3, <2>5, <2>6, <2>7 DEF N
<1> QED BY <1>2, <1>3

\* Credentials are finitely many, so fewer of them are not more.
LEMMA FewerAreNotMore ==
  ASSUME LoginsTypeOK, NEW T, NEW S \in SUBSET Issued, T \subseteq S
  PROVE  /\ IsFiniteSet(S) /\ Cardinality(S) \in Nat /\ Cardinality(T) \in Nat
         /\ Cardinality(T) <= Cardinality(S)
<1>1. IsFiniteSet(Issued)
  <2>1. Issued = 1 .. Len(kind_of) /\ Len(kind_of) \in Int /\ 1 \in Int
    BY DEF LoginsTypeOK, Issued
  <2> QED BY <2>1, FS_Interval
<1>2. IsFiniteSet(S)
  BY <1>1, FS_Subset
<1>3. IsFiniteSet(T) /\ Cardinality(T) <= Cardinality(S)
  BY <1>2, FS_Subset
<1> QED BY <1>2, <1>3, FS_CardinalityType

LEMMA LimitInitInv ==
  ASSUME LoginsInit, MaxCredentials \in Nat \ {0}
  PROVE  LimitInv
<1> USE DEF LoginsInit
<1>1. \A r \in Requests : r \notin InTransaction
  BY DEF InTransaction, Idle
<1>2. \A r \in Requests : KeepsToTheLimit(r) /\ \A s \in Requests : Crowds(r, s)
  BY <1>1 DEF KeepsToTheLimit, Crowds
<1>3. OnlyOverlapPassesTheLimit
  <2> SUFFICES ASSUME NEW kind \in Kinds
              PROVE  Cardinality({c \in live : kind_of[c] = kind /\ lineage[c] \cap crowded = {}})
                        <= MaxCredentials
    BY DEF OnlyOverlapPassesTheLimit
  <2>1. PICK i \in {1, 2} :
          {c \in live : kind_of[c] = kind /\ lineage[c] \cap crowded = {}} = {i}
    BY DEF Kinds
  <2>2. Cardinality({i}) = 1
    BY FS_Singleton
  <2> QED BY <2>1, <2>2
<1> QED BY <1>2, <1>3 DEF LimitInv

\* No more of a kind are counted than before, or no more than the limit.
LEMMA CountedIsEnough ==
  ASSUME LoginsTypeOK, OnlyOverlapPassesTheLimit, MaxCredentials \in Nat,
         \A kind \in Kinds : \/ Counted(kind)' \subseteq Counted(kind)
                             \/ Cardinality(Counted(kind)') <= MaxCredentials
  PROVE  OnlyOverlapPassesTheLimit'
<1> SUFFICES ASSUME NEW kind \in Kinds
             PROVE  Cardinality(Counted(kind)') <= MaxCredentials
  BY DEF OnlyOverlapPassesTheLimit, Counted
<1>1. Cardinality(Counted(kind)) <= MaxCredentials
  BY DEF OnlyOverlapPassesTheLimit, Counted
<1>2. Counted(kind) \in SUBSET Issued
  BY DEF Counted, LoginsTypeOK
<1>3. ASSUME Counted(kind)' \subseteq Counted(kind)
      PROVE  Cardinality(Counted(kind)') <= MaxCredentials
  <2> DEFINE T == Counted(kind)'
             S == Counted(kind)
  <2>1. T \subseteq S /\ S \in SUBSET Issued /\ Cardinality(S) <= MaxCredentials
    BY <1>1, <1>2, <1>3
  <2> HIDE DEF T, S
  <2>2. /\ Cardinality(S) \in Nat /\ Cardinality(T) \in Nat
        /\ Cardinality(T) <= Cardinality(S)
    BY <2>1, FewerAreNotMore
  <2>3. Cardinality(T) <= MaxCredentials
    BY <2>1, <2>2
  <2> QED BY <2>3 DEF T
<1> QED BY <1>3

\* Requests that do nothing to the limit: one that leaves, that has made nothing, or that
\* keeps to it with what it had made.
LEMMA CalmStepKeepsLimit ==
  ASSUME LoginsInv, LoginsInv', LimitInv, MaxCredentials \in Nat,
         kind_of' = kind_of, lineage' = lineage, crowded' = crowded, live' \subseteq live,
         \A s \in Requests :
            \/ req'[s] = req[s]
            \/ s \notin InTransaction'
            \/ /\ KeepsToTheLimit(s)'
               /\ req'[s].made = {} \/ (s \in InTransaction /\ req'[s].made = req[s].made)
  PROVE  LimitInv'
<1>1. LoginsTypeOK /\ LoginsTypeOK' /\ OnlyOverlapPassesTheLimit
  BY DEF LoginsInv, LimitInv
<1>2. \A kind \in Kinds : Counted(kind)' \subseteq Counted(kind)
  BY DEF Counted
<1>3. OnlyOverlapPassesTheLimit'
  BY <1>1, <1>2, CountedIsEnough
<1>4. ASSUME NEW s \in Requests PROVE KeepsToTheLimit(s)'
  <2>1. CASE s \notin InTransaction'
    BY <2>1 DEF KeepsToTheLimit
  <2>2. CASE req'[s] = req[s] /\ s \in InTransaction' /\ req[s].what \in Creators
    <3>1. s \in InTransaction /\ KeepsToTheLimit(s)
      BY <2>2 DEF InTransaction, LimitInv
    <3>2. Issued' = Issued
      BY DEF Issued
    <3>3. ASSUME s \notin crowded, req[s].pc # "find"
          PROVE  Cardinality(Left(s)') <= MaxCredentials
      <4> DEFINE T == Left(s)'
                 S == Left(s)
      <4>1. T \subseteq S
        BY <2>2 DEF Left
      <4>2. Cardinality(S) <= MaxCredentials
        BY <2>2, <3>1, <3>3 DEF KeepsToTheLimit
      <4>3. S \in SUBSET Issued
        BY <1>1, <3>1 DEF Left, LoginsTypeOK, RequestTypeOK, Working, Steps, InTransaction
      <4> HIDE DEF S, T
      <4>4. /\ Cardinality(S) \in Nat /\ Cardinality(T) \in Nat
            /\ Cardinality(T) <= Cardinality(S)
        BY <1>1, <4>1, <4>3, FewerAreNotMore
      <4>5. Cardinality(T) <= MaxCredentials
        BY <4>2, <4>4
      <4> QED BY <4>5 DEF T
    <3> QED BY <2>2, <3>1, <3>2, <3>3 DEF KeepsToTheLimit
  <2>3. CASE req'[s] = req[s] /\ req[s].what \notin Creators
    BY <2>3 DEF KeepsToTheLimit
  <2> QED BY <2>1, <2>2, <2>3
<1>5. ASSUME NEW r \in Requests, NEW s \in Requests \ {r} PROVE Crowds(r, s)'
  <2> SUFFICES ASSUME r \in InTransaction', s \in InTransaction',
                      NEW c \in req'[r].made, NEW d \in req'[s].made, kind_of[c] = kind_of[d]
               PROVE  r \in crowded /\ s \in crowded
    BY DEF Crowds
  <2>1. /\ r \in InTransaction /\ c \in req[r].made
        /\ s \in InTransaction /\ d \in req[s].made
    BY DEF InTransaction
  <2> QED BY <2>1 DEF LimitInv, Crowds
<1> QED BY <1>3, <1>4, <1>5 DEF LimitInv

\* What a creator has in its transaction: one credential, of the kind it deletes.
LEMMA CreatorHas ==
  ASSUME LoginsInv, LimitInv, NEW r \in Requests, r \in InTransaction, req[r].what \in Creators
  PROVE  /\ \E c \in Issued :
                req[r].made = {c} /\ (req[r].pc # "commit" => req[r].todo = <<kind_of[c]>>)
         /\ Left(r) \in SUBSET Issued
<1>1. KeepsToTheLimit(r) /\ RequestTypeOK(r) /\ Working(r) /\ live \subseteq Issued
  BY DEF LoginsInv, LoginsTypeOK, LimitInv, InTransaction, Working, Steps
<1> QED BY <1>1 DEF KeepsToTheLimit, RequestTypeOK, Left

LEMMA FindLimit ==
  ASSUME LoginsInv, LoginsInv', LimitInv, MaxCredentials \in Nat, NEW r \in Requests, Find(r)
  PROVE  LimitInv'
<1> DEFINE found == Rows(r, Head(req[r].todo))
<1>1. /\ req[r].pc = "find" /\ UNCHANGED <<rows, connected, cleanup, histories>>
      /\ req' = [req EXCEPT ![r].pc = "remove", ![r].found = found]
  BY DEF Find
<1>2. /\ RequestTypeOK(r) /\ Working(r) /\ LoginsTypeOK /\ DOMAIN req = Requests
      /\ live \subseteq Issued /\ Issued \subseteq Nat
  BY <1>1 DEF LoginsInv, LoginsTypeOK, Working, Steps, Issued
<1>3. /\ DOMAIN req[r] = Fields /\ \A s \in Requests \ {r} : req'[s] = req[s]
      /\ req'[r] = [req[r] EXCEPT !.pc = "remove", !.found = found]
  BY <1>1, <1>2 DEF RequestTypeOK
<1>4. /\ req'[r].pc = "remove" /\ req'[r].found = found /\ req'[r].what = req[r].what
      /\ req'[r].todo = req[r].todo /\ req'[r].made = req[r].made
  BY <1>3 DEF Fields
<1>5. KeepsToTheLimit(r)'
  <2> SUFFICES ASSUME req[r].what \in Creators PROVE KeepsToTheLimit(r)'
    BY <1>4 DEF KeepsToTheLimit
  <2>1. r \in InTransaction
    BY <1>1 DEF InTransaction
  <2>2. PICK m \in Issued : req[r].made = {m} /\ req[r].todo = <<kind_of[m]>>
    BY <1>1, <2>1, CreatorHas
  <2> DEFINE seen == {c \in live \cup MadeBy(r) : kind_of[c] = kind_of[m]}
             left == Left(r)'
             few == Newest(seen, MaxCredentials)
  <2>3. found = seen \ few
    BY <2>2 DEF Rows, OverTheLimit, Creators
  <2>4. MadeBy(r) = {m}
    BY <2>1, <2>2 DEF MadeBy
  <2>5. seen \in SUBSET Issued /\ few \subseteq seen
    BY <1>2, <2>4 DEF Newest
  <2> HIDE DEF few, found
  <2>6. left \subseteq few
    <3> SUFFICES ASSUME NEW x \in left PROVE x \in few
      OBVIOUS
    <3>1. /\ x \in live \cup {m} /\ kind_of[x] = kind_of[m]
          /\ x \notin found
      BY <1>1, <1>4, <2>2 DEF Left, rows
    <3> QED BY <2>3, <2>4, <3>1
  <2> HIDE DEF left, seen
  <2>7. IsFiniteSet(seen) /\ seen \in SUBSET Nat
    BY <1>2, <2>5, FewerAreNotMore
  <2>8. Cardinality(few) <= MaxCredentials
    BY <2>7, NewestAreFew DEF few
  <2>9. /\ Cardinality(few) \in Nat /\ Cardinality(left) \in Nat
        /\ Cardinality(left) <= Cardinality(few)
    BY <1>2, <2>5, <2>6, FewerAreNotMore
  <2>10. Cardinality(Left(r)') <= MaxCredentials
    BY <2>8, <2>9 DEF left
  <2>11. Issued' = Issued /\ kind_of' = kind_of
    BY <1>1 DEF Issued, rows
  <2> QED BY <1>4, <2>2, <2>10, <2>11 DEF KeepsToTheLimit
<1>6. r \in InTransaction /\ req'[r].made = req[r].made
  BY <1>1, <1>4 DEF InTransaction
<1>7. /\ kind_of' = kind_of /\ lineage' = lineage /\ crowded' = crowded /\ live' \subseteq live
  BY <1>1 DEF rows, histories
<1> QED BY <1>3, <1>5, <1>6, <1>7, CalmStepKeepsLimit

LEMMA RemoveLimit ==
  ASSUME LoginsInv, LoginsInv', LimitInv, MaxCredentials \in Nat, NEW r \in Requests, Remove(r)
  PROVE  LimitInv'
<1> DEFINE gone == req[r].found \cap (live \cup MadeBy(r))
           next == IF Len(req[r].todo) = 1 THEN "commit" ELSE "find"
<1>1. /\ req[r].pc = "remove" /\ UNCHANGED <<rows, connected, cleanup, histories>>
      /\ req' = [req EXCEPT ![r].doomed = @ \cup gone, ![r].todo = Tail(@), ![r].pc = next]
  BY DEF Remove
<1>2. /\ RequestTypeOK(r) /\ Working(r) /\ LoginsTypeOK /\ DOMAIN req = Requests
      /\ r \in InTransaction
  BY <1>1 DEF LoginsInv, LoginsTypeOK, Working, Steps, InTransaction
<1> HIDE DEF gone
<1>3. /\ DOMAIN req[r] = Fields /\ \A s \in Requests \ {r} : req'[s] = req[s]
      /\ req'[r] = [req[r] EXCEPT !.doomed = @ \cup gone, !.todo = Tail(@), !.pc = next]
  BY <1>1, <1>2 DEF RequestTypeOK
<1>4. /\ req'[r].pc = next /\ req'[r].doomed = req[r].doomed \cup gone
      /\ req'[r].what = req[r].what /\ req'[r].made = req[r].made
  BY <1>3 DEF Fields
<1>5. KeepsToTheLimit(r)'
  <2> SUFFICES ASSUME req[r].what \in Creators PROVE KeepsToTheLimit(r)'
    BY <1>4 DEF KeepsToTheLimit
  <2>2. PICK m \in Issued : req[r].made = {m} /\ req[r].todo = <<kind_of[m]>>
    BY <1>1, <1>2, CreatorHas
  <2>3. req'[r].pc = "commit"
    BY <1>4, <2>2
  <2>4. ASSUME r \notin crowded PROVE Cardinality(Left(r)') <= MaxCredentials
    <3> DEFINE T == Left(r)'
               S == Left(r)
    <3>1. T \subseteq S
      BY <1>1, <1>2, <1>4, <2>2, <2>3 DEF Left, rows, gone, MadeBy
    <3>2. S \in SUBSET Issued /\ Cardinality(S) <= MaxCredentials
      BY <1>1, <1>2, <2>4, CreatorHas DEF LimitInv, KeepsToTheLimit
    <3> HIDE DEF S, T
    <3>3. /\ Cardinality(S) \in Nat /\ Cardinality(T) \in Nat
          /\ Cardinality(T) <= Cardinality(S)
      BY <1>2, <3>1, <3>2, FewerAreNotMore
    <3>4. Cardinality(T) <= MaxCredentials
      BY <3>2, <3>3
    <3> QED BY <3>4 DEF T
  <2>5. Issued' = Issued /\ crowded' = crowded
    BY <1>1 DEF Issued, rows, histories
  <2> QED BY <1>4, <2>2, <2>3, <2>4, <2>5 DEF KeepsToTheLimit
<1>7. /\ kind_of' = kind_of /\ lineage' = lineage /\ crowded' = crowded /\ live' \subseteq live
  BY <1>1 DEF rows, histories
<1> QED BY <1>2, <1>3, <1>4, <1>5, <1>7, CalmStepKeepsLimit

LEMMA InsertLimit ==
  ASSUME LoginsInv, LoginsInv', LimitInv, MaxCredentials \in Nat, NEW r \in Requests, Insert(r)
  PROVE  LimitInv'
<1> DEFINE id == Len(kind_of) + 1
           kind == Head(req[r].todo)
           others == {s \in InTransaction : \E c \in req[s].made : kind_of[c] = kind}
<1>1. /\ req[r].pc = "insert"
      /\ kind_of' = Append(kind_of, kind)
      /\ lineage' = Append(lineage, req[r].from \cup {r})
      /\ crowded' = IF others = {} THEN crowded ELSE (crowded \cup others) \cup {r}
      /\ req' = [req EXCEPT ![r].pc = "find", ![r].made = {id}]
      /\ live' = live
  BY DEF Insert
<1>2. /\ RequestTypeOK(r) /\ Working(r) /\ OnItsWay(r) /\ LoginsTypeOK
      /\ DOMAIN req = Requests /\ live \subseteq Issued /\ r \notin InTransaction
  BY <1>1 DEF LoginsInv, LoginsTypeOK, Working, Steps, InTransaction, Sound
<1>3. /\ DOMAIN req[r] = Fields /\ \A s \in Requests \ {r} : req'[s] = req[s]
      /\ req'[r] = [req[r] EXCEPT !.pc = "find", !.made = {id}]
  BY <1>1, <1>2 DEF RequestTypeOK
<1>4. /\ req'[r].pc = "find" /\ req'[r].made = {id}
      /\ req'[r].what = req[r].what /\ req'[r].todo = req[r].todo
  BY <1>3 DEF Fields
<1>5. req[r].todo = <<kind>> /\ kind \in Kinds /\ req[r].what \in Creators
  BY <1>1, <1>2 DEF OnItsWay, Creators, Enders, Kinds
<1> HIDE DEF kind
<1>6. /\ id \in Issued' /\ kind_of'[id] = kind /\ Issued \subseteq Issued'
      /\ \A c \in Issued : kind_of'[c] = kind_of[c] /\ lineage'[c] = lineage[c]
  BY <1>1, <1>2, <1>5 DEF LoginsTypeOK, Issued
<1> HIDE DEF id
<1>7. crowded \subseteq crowded'
  BY <1>1
<1>8. OnlyOverlapPassesTheLimit'
  <2>1. \A k \in Kinds : Counted(k)' \subseteq Counted(k)
    BY <1>1, <1>2, <1>6, <1>7 DEF Counted
  <2>2. OnlyOverlapPassesTheLimit
    BY DEF LimitInv
  <2> QED BY <1>2, <2>1, <2>2, CountedIsEnough
<1>9. KeepsToTheLimit(r)'
  BY <1>4, <1>5, <1>6 DEF KeepsToTheLimit
<1>10. ASSUME NEW s \in Requests \ {r} PROVE KeepsToTheLimit(s)'
  <2> SUFFICES ASSUME s \in InTransaction, req[s].what \in Creators
               PROVE  KeepsToTheLimit(s)'
    BY <1>3 DEF KeepsToTheLimit, InTransaction
  <2>1. PICK m \in Issued :
          req[s].made = {m} /\ (req[s].pc # "commit" => req[s].todo = <<kind_of[m]>>)
    BY CreatorHas
  <2>2. Left(s)' = Left(s)
    <3>1. req'[s] = req[s] /\ live' = live
      BY <1>1, <1>3
    <3>2. \A c \in live \cup req[s].made : kind_of'[c] = kind_of[c]
      BY <1>2, <1>6, <2>1
    <3> QED BY <3>1, <3>2, <2>1 DEF Left
  <2>3. KeepsToTheLimit(s)
    BY DEF LimitInv
  <2> QED BY <1>3, <1>6, <1>7, <2>1, <2>2, <2>3 DEF KeepsToTheLimit
<1>11. ASSUME NEW s \in Requests \ {r} PROVE Crowds(r, s)' /\ Crowds(s, r)'
  <2> SUFFICES ASSUME s \in InTransaction, NEW d \in req[s].made, kind_of'[d] = kind
               PROVE  r \in crowded' /\ s \in crowded'
    BY <1>3, <1>4, <1>6 DEF Crowds, InTransaction
  <2>1. d \in Issued
    BY DEF LoginsInv, LoginsTypeOK, RequestTypeOK, Working, Steps, InTransaction
  <2>2. s \in others
    BY <1>6, <2>1
  <2> QED BY <1>1, <2>2
<1>12. ASSUME NEW p \in Requests \ {r}, NEW s \in Requests \ {r, p} PROVE Crowds(p, s)'
  <2> SUFFICES ASSUME p \in InTransaction, s \in InTransaction,
                      NEW c \in req[p].made, NEW d \in req[s].made, kind_of'[c] = kind_of'[d]
               PROVE  p \in crowded /\ s \in crowded
    BY <1>3, <1>7 DEF Crowds, InTransaction
  <2>1. c \in Issued /\ d \in Issued
    BY DEF LoginsInv, LoginsTypeOK, RequestTypeOK, Working, Steps, InTransaction
  <2> QED BY <1>6, <2>1 DEF LimitInv, Crowds
<1>13. ASSUME NEW p \in Requests, NEW s \in Requests \ {p} PROVE Crowds(p, s)'
  <2>1. CASE p = r
    BY <1>11, <2>1
  <2>2. CASE s = r
    BY <1>11, <2>2
  <2>3. CASE p # r /\ s # r
    BY <1>12, <2>3
  <2> QED BY <2>1, <2>2, <2>3
<1> QED BY <1>8, <1>9, <1>10, <1>13 DEF LimitInv

\* A commit shows no more of the kind made than its DELETE left.
LEMMA CommitLimit ==
  ASSUME LoginsInv, LoginsInv', LimitInv, MaxCredentials \in Nat, NEW r \in Requests,
         Commit(r) \/ CommitUnheard(r)
  PROVE  LimitInv'
<1>1. /\ req[r].pc = "commit" /\ live' = (live \cup MadeBy(r)) \ DoomedBy(r)
      /\ kind_of' = kind_of /\ lineage' = lineage /\ crowded' = crowded
      /\ req' = [req EXCEPT ![r].pc = "close"] \/ req' = [req EXCEPT ![r] = Done]
  BY DEF Commit, CommitUnheard, Committed
<1>2. /\ RequestTypeOK(r) /\ Working(r) /\ OnItsWay(r) /\ MadeAsItSays(r) /\ LoginsTypeOK
      /\ DOMAIN req = Requests /\ live \subseteq Issued /\ r \in InTransaction
  BY <1>1 DEF LoginsInv, LoginsTypeOK, Working, Steps, InTransaction, Sound
<1>3. \A s \in Requests \ {r} : req'[s] = req[s]
  BY <1>1, <1>2
<1>4. req'[r].pc \in {"close", "done"}
  <2>1. DOMAIN req[r] = Fields
    BY <1>2 DEF RequestTypeOK
  <2>2. CASE req' = [req EXCEPT ![r].pc = "close"]
    BY <1>2, <2>1, <2>2 DEF Fields
  <2>3. CASE req' = [req EXCEPT ![r] = Done]
    BY <1>2, <2>3 DEF Done
  <2> QED BY <1>1, <2>2, <2>3
<1>5. r \notin InTransaction'
  BY <1>4 DEF InTransaction
<1>6. live' = (live \cup req[r].made) \ req[r].doomed
  BY <1>1, <1>2 DEF MadeBy, DoomedBy
<1>7. CASE req[r].what \notin Creators
  <2>1. live' \subseteq live
    BY <1>2, <1>6, <1>7 DEF OnItsWay
  <2> QED BY <1>1, <1>3, <1>5, <2>1, CalmStepKeepsLimit
<1>8. CASE req[r].what \in Creators
  <2>1. PICK m \in Issued : req[r].made = {m}
    BY <1>2, <1>8, CreatorHas
  <2>2. ASSUME NEW kind \in Kinds
        PROVE  \/ Counted(kind)' \subseteq Counted(kind)
               \/ Cardinality(Counted(kind)') <= MaxCredentials
    <3>1. CASE kind # kind_of[m]
      BY <1>1, <1>6, <2>1, <3>1 DEF Counted
    <3>2. CASE r \in crowded
      <4>1. lineage[m] \cap crowded # {}
        BY <1>2, <2>1, <3>2 DEF MadeAsItSays, MadeBy
      <4> QED BY <1>1, <1>6, <2>1, <4>1 DEF Counted
    <3>3. CASE kind = kind_of[m] /\ r \notin crowded
      <4> DEFINE T == Counted(kind)'
                 S == Left(r)
      <4>1. T \subseteq S
        BY <1>1, <1>6, <2>1, <3>3 DEF Counted, Left
      <4>2. S \in SUBSET Issued /\ Cardinality(S) <= MaxCredentials
        BY <1>1, <1>2, <1>8, <3>3, CreatorHas DEF LimitInv, KeepsToTheLimit
      <4> HIDE DEF S, T
      <4>3. /\ Cardinality(S) \in Nat /\ Cardinality(T) \in Nat
            /\ Cardinality(T) <= Cardinality(S)
        BY <1>2, <4>1, <4>2, FewerAreNotMore
      <4>4. Cardinality(T) <= MaxCredentials
        BY <4>2, <4>3
      <4> QED BY <4>4 DEF T
    <3> QED BY <3>1, <3>2, <3>3
  <2>3. OnlyOverlapPassesTheLimit'
    <3>1. OnlyOverlapPassesTheLimit
      BY DEF LimitInv
    <3> QED BY <1>2, <2>2, <3>1, CountedIsEnough
  <2>4. ASSUME NEW s \in Requests \ {r} PROVE KeepsToTheLimit(s)'
    <3> SUFFICES ASSUME s \in InTransaction, req[s].what \in Creators
                 PROVE  KeepsToTheLimit(s)'
      BY <1>3 DEF KeepsToTheLimit, InTransaction
    <3>1. PICK d \in Issued :
            req[s].made = {d} /\ (req[s].pc # "commit" => req[s].todo = <<kind_of[d]>>)
      BY CreatorHas
    <3>2. KeepsToTheLimit(s) /\ Crowds(r, s)
      BY DEF LimitInv
    <3>3. ASSUME s \notin crowded, req[s].pc # "find"
          PROVE  Cardinality(Left(s)') <= MaxCredentials
      <4> DEFINE T == Left(s)'
                 S == Left(s)
      <4>1. kind_of[d] # kind_of[m]
        BY <1>2, <2>1, <3>1, <3>2, <3>3 DEF Crowds
      <4>2. T \subseteq S
        BY <1>1, <1>3, <1>6, <2>1, <3>1, <4>1 DEF Left
      <4>3. S \in SUBSET Issued /\ Cardinality(S) <= MaxCredentials
        BY <3>2, <3>3, CreatorHas DEF KeepsToTheLimit
      <4> HIDE DEF S, T
      <4>4. /\ Cardinality(S) \in Nat /\ Cardinality(T) \in Nat
            /\ Cardinality(T) <= Cardinality(S)
        BY <1>2, <4>2, <4>3, FewerAreNotMore
      <4>5. Cardinality(T) <= MaxCredentials
        BY <4>3, <4>4
      <4> QED BY <4>5 DEF T
    <3>4. Issued' = Issued
      BY <1>1 DEF Issued
    <3> QED BY <1>1, <1>3, <3>1, <3>2, <3>3, <3>4 DEF KeepsToTheLimit
  <2>5. KeepsToTheLimit(r)' /\ \A s \in Requests : Crowds(r, s)' /\ Crowds(s, r)'
    BY <1>5 DEF KeepsToTheLimit, Crowds
  <2>6. ASSUME NEW p \in Requests \ {r}, NEW s \in Requests \ {r, p} PROVE Crowds(p, s)'
    BY <1>1, <1>3 DEF LimitInv, Crowds, InTransaction
  <2>7. ASSUME NEW p \in Requests, NEW s \in Requests \ {p} PROVE Crowds(p, s)'
    <3>1. CASE p = r \/ s = r
      BY <2>5, <3>1
    <3>2. CASE p # r /\ s # r
      BY <2>6, <3>2
    <3> QED BY <3>1, <3>2
  <2> QED BY <2>3, <2>4, <2>5, <2>7 DEF LimitInv
<1> QED BY <1>7, <1>8

\* What begins has made nothing, and creates nothing before it has inserted.
LEMMA StartMakesNothing ==
  ASSUME NEW r \in Requests,
         \/ StartLogin(r) \/ StartPasswordChange(r) \/ StartTokenCreate(r)
         \/ StartRevoke(r) \/ StartLogout(r) \/ StartRevokeAll(r) \/ StartDelete(r)
  PROVE  \E q : Starts(r, q) /\ q.made = {}
            /\ (q.pc \in {"insert", "account"} \/ q.what \notin Creators)
<1> DEFINE Harmless(q) == Starts(r, q) /\ q.made = {}
            /\ (q.pc \in {"insert", "account"} \/ q.what \notin Creators)
<1>1. CASE StartLogin(r)
  <2>1. Harmless(Begun("login", "insert", {}, <<"session">>))
    BY <1>1 DEF StartLogin, Begun
  <2> QED BY <2>1
<1>2. CASE StartPasswordChange(r)
  <2>1. PICK c \in live : Starts(r, Begun("change", "account", {c}, <<"session", "token">>))
    BY <1>2 DEF StartPasswordChange
  <2>2. Harmless(Begun("change", "account", {c}, <<"session", "token">>))
    BY <2>1 DEF Begun
  <2> QED BY <2>2
<1>3. CASE StartTokenCreate(r)
  <2>1. PICK c \in live :
          Starts(r, [Begun("token_create", "insert", {c}, <<"token">>)
                        EXCEPT !.era = era_of[c]])
    BY <1>3 DEF StartTokenCreate
  <2>2. Harmless([Begun("token_create", "insert", {c}, <<"token">>)
                        EXCEPT !.era = era_of[c]])
    BY <2>1 DEF Begun
  <2> QED BY <2>2
<1>4. CASE StartRevoke(r)
  <2>1. PICK c \in live, target \in Issued :
          Starts(r, [Begun("revoke", "find", {c}, <<kind_of[target]>>)
                        EXCEPT !.target = target])
    BY <1>4 DEF StartRevoke
  <2>2. Harmless([Begun("revoke", "find", {c}, <<kind_of[target]>>)
                        EXCEPT !.target = target])
    BY <2>1 DEF Begun, Creators
  <2> QED BY <2>2
<1>5. CASE StartLogout(r)
  <2>1. PICK c \in live :
          Starts(r, [Begun("logout", "find", {c}, <<"session">>) EXCEPT !.target = c])
    BY <1>5 DEF StartLogout
  <2>2. Harmless([Begun("logout", "find", {c}, <<"session">>) EXCEPT !.target = c])
    BY <2>1 DEF Begun, Creators
  <2> QED BY <2>2
<1>6. CASE StartRevokeAll(r)
  <2>1. PICK kind \in Kinds : Starts(r, Begun("revoke_all", "find", {}, <<kind>>))
    BY <1>6 DEF StartRevokeAll
  <2>2. Harmless(Begun("revoke_all", "find", {}, <<kind>>))
    BY <2>1 DEF Begun, Creators
  <2> QED BY <2>2
<1>7. CASE StartDelete(r)
  <2>1. Harmless(Begun("delete", "account", {}, <<"session", "token">>))
    BY <1>7 DEF StartDelete, Begun
  <2> QED BY <2>1
<1> QED BY <1>1, <1>2, <1>3, <1>4, <1>5, <1>6, <1>7

LEMMA LimitNextInv ==
  ASSUME LoginsInv, LoginsInv', LimitInv, MaxCredentials \in Nat, [LoginsNext]_login_vars
  PROVE  LimitInv'
<1>1. DOMAIN req = Requests
  BY DEF LoginsInv, LoginsTypeOK
\* A step of one request that leaves the rows alone.
<1>2. ASSUME NEW r \in Requests, UNCHANGED <<rows, histories>>,
             \A s \in Requests \ {r} : req'[s] = req[s],
             \/ r \notin InTransaction'
             \/ req'[r].made = {} /\ req'[r].what \notin Creators
      PROVE  LimitInv'
  <2>1. \/ r \notin InTransaction'
        \/ KeepsToTheLimit(r)' /\ req'[r].made = {}
    BY <1>2 DEF KeepsToTheLimit
  <2>2. kind_of' = kind_of /\ lineage' = lineage /\ crowded' = crowded /\ live' \subseteq live
    BY <1>2 DEF rows, histories
  <2> QED BY <1>2, <2>1, <2>2, CalmStepKeepsLimit
<1>3. ASSUME UNCHANGED <<kind_of, lineage, crowded, req>>, live' \subseteq live
      PROVE  LimitInv'
  BY <1>3, CalmStepKeepsLimit
<1>4. ASSUME NEW r \in Requests,
             \/ StartLogin(r) \/ StartPasswordChange(r) \/ StartTokenCreate(r)
             \/ StartRevoke(r) \/ StartLogout(r) \/ StartRevokeAll(r) \/ StartDelete(r)
      PROVE  LimitInv'
  <2>1. PICK q : Starts(r, q) /\ q.made = {}
            /\ (q.pc \in {"insert", "account"} \/ q.what \notin Creators)
    BY <1>4, StartMakesNothing
  <2>2. /\ req'[r] = q /\ \A s \in Requests \ {r} : req'[s] = req[s]
        /\ UNCHANGED <<rows, histories>>
    BY <1>1, <2>1 DEF Starts
  <2>3. \/ r \notin InTransaction'
        \/ req'[r].made = {} /\ req'[r].what \notin Creators
    BY <2>1, <2>2 DEF InTransaction
  <2> QED BY <1>2, <2>2, <2>3
<1>5. ASSUME NEW r \in Requests, UpdatePassword(r) \/ Tombstone(r) PROVE LimitInv'
  <2>1. /\ req[r].pc = "account" /\ req[r].what \in Enders
        /\ UNCHANGED <<rows, histories>>
    BY <1>5 DEF UpdatePassword, Tombstone, Enders
  <2>2. Working(r) /\ RequestTypeOK(r) /\ OnItsWay(r)
    BY <2>1 DEF Working, Steps, LoginsInv, LoginsTypeOK, Sound
  <2>3. CASE req' = [req EXCEPT ![r] = Done]
    BY <1>1, <1>2, <2>1, <2>3 DEF InTransaction, Done
  <2>4. CASE req' = [req EXCEPT ![r] = [@ EXCEPT !.pc = "find", !.beside = Unfinished]]
    <3>1. /\ \A s \in Requests \ {r} : req'[s] = req[s]
          /\ req'[r] = [req[r] EXCEPT !.pc = "find", !.beside = Unfinished]
      BY <1>1, <2>4
    <3>2. req'[r].made = req[r].made /\ req'[r].what = req[r].what
      BY <2>2, <3>1 DEF RequestTypeOK, Fields
    <3>3. req'[r].made = {} /\ req'[r].what \notin Creators
      BY <2>1, <2>2, <3>2 DEF OnItsWay, Enders, Creators
    <3> QED BY <1>2, <2>1, <3>1, <3>3
  <2> QED BY <1>5, <2>3, <2>4 DEF UpdatePassword, Tombstone
<1>6. ASSUME NEW r \in Requests, Fail(r) \/ Close(r) PROVE LimitInv'
  <2>1. /\ UNCHANGED <<rows, histories>> /\ req' = [req EXCEPT ![r] = Done]
    BY <1>6 DEF Fail, Close
  <2>2. r \notin InTransaction' /\ \A s \in Requests \ {r} : req'[s] = req[s]
    BY <1>1, <2>1 DEF InTransaction, Done
  <2> QED BY <1>2, <2>1, <2>2
<1>7. ASSUME NEW r \in Requests,
             Insert(r) \/ Find(r) \/ Remove(r) \/ Commit(r) \/ CommitUnheard(r)
      PROVE  LimitInv'
  BY <1>7, InsertLimit, FindLimit, RemoveLimit, CommitLimit
<1>8. ASSUME NEW c \in Issued, Connect(c) \/ Expire(c) PROVE LimitInv'
  BY <1>3, <1>8 DEF Connect, Expire, rows, histories
<1>9. CASE Sweep \/ SweepCommit \/ SweepClose
  BY <1>3, <1>9 DEF Sweep, SweepCommit, SweepEnds, SweepClose, rows, histories
<1>10. CASE Undelete
  BY <1>3, <1>10 DEF Undelete, histories
<1>11. CASE UNCHANGED login_vars
  BY <1>3, <1>11 DEF login_vars
<1> QED BY <1>4, <1>5, <1>6, <1>7, <1>8, <1>9, <1>10, <1>11 DEF LoginsNext

\* The limit is passed by creators whose transactions overlap, and by nothing else: a DELETE
\* beside which nobody of its kind inserts leaves the newest, which are no more than the
\* limit (query_session_enforce_limit, query_api_token_enforce_limit), for every limit that
\* leaves room for one session or token.
THEOREM OnlyOverlapIsOverTheLimit ==
    MaxCredentials \in Nat \ {0} => (LoginsSpec => []OnlyOverlapPassesTheLimit)
<1> SUFFICES ASSUME MaxCredentials \in Nat \ {0}
             PROVE  LoginsSpec => []OnlyOverlapPassesTheLimit
  OBVIOUS
<1>1. LoginsInit => LimitInv
  BY LimitInitInv
<1>2. LoginsInv /\ LoginsInv' /\ LimitInv /\ [LoginsNext]_login_vars => LimitInv'
  BY LimitNextInv
<1>3. LimitInv => OnlyOverlapPassesTheLimit
  BY DEF LimitInv
<1> QED BY <1>1, <1>2, <1>3, LoginsInvariant, PTL DEF LoginsSpec
=============================================================================
