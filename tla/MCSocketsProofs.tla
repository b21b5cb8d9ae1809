-------------------------- MODULE MCSocketsProofs ---------------------------
(***************************************************************************)
(* What is proved of the parts that MCSockets checks: the credentials of a *)
(* request, for any routes that may register, the requests of the          *)
(* browser's client, and the frames of a socket.                           *)
(***************************************************************************)
EXTENDS MCSockets, SequenceTheorems, FiniteSetTheorems, TLAPS

AuthPcs == {"idle", "keeper", "cookie", "session", "bearer", "routed", "actors", "account",
            "grants", "authorized", "handling", "refused"}

AuthRequests ==
  [pc : AuthPcs, browser : BOOLEAN, token : Nat, carried : SUBSET Requests!Kinds,
   auth : Requests!Kinds \cup {Requests!Nobody}, route : Routes \cup {Requests!Idle.route}]

\* The keeper that the daemon leg remembers is there for good.
AuthTypes ==
  /\ standing \subseteq Requests!Facts \ {"accepted"}
  /\ keeper \in BOOLEAN /\ (keeper => "keeper" \in standing)
  /\ stood \subseteq Requests!Facts /\ lapsed \subseteq Requests!Facts
  /\ auth_req \in AuthRequests

\* The file is at most the one write behind that is under way.
TokenFile ==
  /\ current \in Nat \ {0} /\ previous \in Nat
  /\ writing \in BOOLEAN /\ write_failed \in BOOLEAN
  /\ write_failed \/ token_file = IF writing THEN previous ELSE current

\* A request remembers all that has stood and all that has not since it began.
NothingForgotten ==
  Requests!Running =>
    /\ Requests!StandingFor(auth_req.token) \subseteq stood
    /\ Requests!Facts \ Requests!StandingFor(auth_req.token) \subseteq lapsed

\* What the legs have made of what the request carries.
ActsOnWhatStood ==
  auth_req.auth # Requests!Nobody =>
    /\ auth_req.auth \in auth_req.carried
    /\ Requests!RestsOn(auth_req.auth) \subseteq stood
    /\ (auth_req.browser => auth_req.auth = "session")

LegsSoFar ==
  /\ auth_req.pc = "keeper" =>
       /\ auth_req.carried = {"daemon_token"} /\ ~auth_req.browser
       /\ auth_req.auth = Requests!Nobody /\ "accepted" \in stood
  /\ auth_req.pc = "cookie" => auth_req.auth \in {Requests!Nobody, "daemon_token"}
  /\ auth_req.pc = "session" =>
       auth_req.auth = Requests!Nobody /\ "session" \in auth_req.carried /\ "cookie" \in stood

StrongerHadLapsed ==
  auth_req.pc \notin {"idle", "keeper"} =>
    \A kind \in auth_req.carried \cap Requests!Stronger(auth_req.auth) :
      \/ Requests!RestsOn(kind) \cap lapsed # {}
      \/ kind = "session" /\ auth_req.pc = "session"

\* What the guards and the authorization phase have found.
AccountNeeded(route_) == {route_.account, route_.actor} # {"none"}

GuardsSoFar ==
  /\ auth_req.pc \in {"actors", "account", "grants", "authorized", "handling"} =>
       Requests!AdmitsCredential(auth_req.route)
  /\ auth_req.pc \in {"actors", "account", "grants"} =>
       auth_req.auth # Requests!Nobody /\ AccountNeeded(auth_req.route)
  /\ (auth_req.pc \in {"grants", "authorized", "handling"} /\ auth_req.auth # Requests!Nobody
      /\ AccountNeeded(auth_req.route)) => Requests!Account(auth_req.auth) \in stood
  /\ auth_req.pc = "grants" => auth_req.route.role # "none"
  /\ auth_req.pc \in {"authorized", "handling"} => Requests!HoldsTheRole(stood)

RefusedForAReason ==
  auth_req.pc = "refused" =>
    \/ ~Requests!AdmitsCredential(auth_req.route)
    \/ Requests!Account(auth_req.auth) \in lapsed
    \/ ~Requests!HoldsTheRole(Requests!Facts \ lapsed)

AuthInv ==
  /\ AuthTypes /\ TokenFile /\ NothingForgotten /\ ActsOnWhatStood /\ LegsSoFar
  /\ StrongerHadLapsed /\ GuardsSoFar /\ RefusedForAReason

\* Who asks for a role asks for the account that holds it (auth_shape.ts, invariant 1).
LEMMA RolesNeedAnAccount ==
  \A route_ \in Routes :
    route_.role # "none" => AccountNeeded(route_) /\ "required" \in {route_.account, route_.actor}
BY RoutesAssumption DEF AccountNeeded

\* With no request, and the token's file just written.
LEMMA AuthBegins == Requests!RequestInit => AuthInv
<1> SUFFICES ASSUME Requests!RequestInit PROVE AuthInv
  OBVIOUS
<1> USE DEF Requests!RequestInit
<1>1. AuthTypes
  BY DEF AuthTypes, AuthRequests, AuthPcs, Requests!Idle, Requests!Facts, Requests!Kinds,
         Requests!Nobody
<1>2. TokenFile
  <2>1. writing = FALSE /\ write_failed = FALSE /\ current = 1 /\ previous = 0 /\ token_file = 1
    OBVIOUS
  <2>2. write_failed \/ token_file = IF writing THEN previous ELSE current
    BY <2>1
  <2>3. writing \in BOOLEAN /\ write_failed \in BOOLEAN
    BY ONLY <2>1, Zenon
  <2> QED BY <2>1, <2>2, <2>3 DEF TokenFile
<1>3. auth_req.pc = "idle" /\ auth_req.auth = Requests!Nobody
  BY DEF Requests!Idle
<1> QED
  BY <1>1, <1>2, <1>3 DEF AuthInv, NothingForgotten, Requests!Running, ActsOnWhatStood,
     LegsSoFar, StrongerHadLapsed, GuardsSoFar, RefusedForAReason

\* While the request stands still and more has stood and lapsed, all that was found holds.
LEMMA FoundForGood ==
  ASSUME AuthInv, auth_req' = auth_req, stood \subseteq stood', lapsed \subseteq lapsed'
  PROVE  ActsOnWhatStood' /\ LegsSoFar' /\ StrongerHadLapsed' /\ GuardsSoFar'
         /\ (auth_req.pc # "refused" => RefusedForAReason')
<1>1. ActsOnWhatStood'
  BY DEF AuthInv, ActsOnWhatStood
<1>2. LegsSoFar'
  BY DEF AuthInv, LegsSoFar
<1>3. StrongerHadLapsed'
  BY DEF AuthInv, StrongerHadLapsed
<1>4. GuardsSoFar'
  BY DEF AuthInv, GuardsSoFar, Requests!AdmitsCredential, Requests!HoldsTheRole
<1> QED BY <1>1, <1>2, <1>3, <1>4 DEF RefusedForAReason

\* What begins or ends is remembered by the request that it meets.
LEMMA ChangesAreRemembered ==
  ASSUME AuthInv, Requests!Changes, TokenFile',
         standing' \subseteq Requests!Facts \ {"accepted"},
         "keeper" \in standing => "keeper" \in standing'
  PROVE  AuthInv'
<1> USE DEF Requests!Changes
<1>1. /\ auth_req' = auth_req /\ keeper' = keeper
      /\ stood \subseteq stood' /\ lapsed \subseteq lapsed' /\ auth_req.pc # "refused"
  BY DEF Requests!Remember
<1>2. stood' \subseteq Requests!Facts /\ lapsed' \subseteq Requests!Facts
  BY <1>1 DEF AuthInv, AuthTypes, Requests!Remember, Requests!StandingFor, Requests!Facts
<1>3. AuthTypes'
  BY <1>1, <1>2 DEF AuthInv, AuthTypes
<1>4. NothingForgotten'
  <2>1. Requests!Running' <=> Requests!Running
    BY <1>1 DEF Requests!Running
  <2>2. Requests!StandingFor(auth_req.token)' = Requests!StandingFor(auth_req.token)'
    OBVIOUS
  <2> QED BY <1>1, <2>1 DEF NothingForgotten, Requests!Remember
<1> QED BY <1>1, <1>3, <1>4, FoundForGood DEF AuthInv, RefusedForAReason

\* All that can begin or end around a request.
AuthChange ==
  \/ \E fact \in {"session", "cookie", "token"} : Requests!EndCredential(fact)
  \/ Requests!Bootstrap \/ Requests!RevokeRole \/ Requests!GrantRole
  \/ Requests!DeleteAccount \/ Requests!UndeleteAccount

\* A revocation, an expiry, a bootstrap or a deletion beside a request keeps the invariant.
LEMMA ChangesKeepAuth ==
  ASSUME AuthInv, AuthChange
  PROVE  AuthInv'
<1>1. /\ Requests!Changes
      /\ standing' \subseteq Requests!Facts \ {"accepted"}
      /\ "keeper" \in standing => "keeper" \in standing'
      /\ UNCHANGED <<current, previous, token_file, writing, write_failed>>
  BY DEF AuthInv, AuthTypes, AuthChange, Requests!EndCredential, Requests!Bootstrap,
     Requests!RevokeRole, Requests!GrantRole, Requests!DeleteAccount,
     Requests!UndeleteAccount, Requests!Facts, Requests!token_vars
<1>2. TokenFile'
  BY <1>1 DEF AuthInv, TokenFile
<1> QED BY <1>1, <1>2, ChangesAreRemembered

\* The token moves before its file, and one write at a time.
LEMMA RotationKeepsAuth ==
  ASSUME AuthInv, Requests!Rotate \/ Requests!WriteTokenFile
  PROVE  AuthInv'
<1>1. CASE Requests!Rotate
  <2>1. /\ ~writing /\ previous' = current /\ current' = current + 1 /\ writing' = TRUE
        /\ UNCHANGED <<standing, token_file, write_failed>> /\ Requests!Changes
    BY <1>1 DEF Requests!Rotate
  <2>2. current' \in Nat \ {0} /\ previous' \in Nat
    BY <2>1 DEF AuthInv, TokenFile
  <2>3. writing' \in BOOLEAN /\ write_failed' \in BOOLEAN
    BY <2>1, Zenon DEF AuthInv, TokenFile
  <2>4. write_failed' \/ token_file' = previous'
    BY <2>1 DEF AuthInv, TokenFile
  <2>5. TokenFile'
    BY <2>1, <2>2, <2>3, <2>4 DEF TokenFile
  <2> QED BY <2>1, <2>5, ChangesAreRemembered DEF AuthInv, AuthTypes
<1>2. CASE Requests!WriteTokenFile
  <2>1. /\ writing /\ writing' = FALSE
        /\ \/ token_file' = current /\ write_failed' = write_failed
           \/ write_failed' = TRUE /\ token_file' = token_file
        /\ UNCHANGED <<standing, keeper, current, previous, auth_req, stood, lapsed>>
    BY <1>2 DEF Requests!WriteTokenFile
  <2>2. writing' \in BOOLEAN /\ write_failed' \in BOOLEAN
    BY <2>1, Zenon DEF AuthInv, TokenFile
  <2>3. write_failed' \/ token_file' = current'
    BY <2>1
  <2>4. TokenFile'
    BY <2>1, <2>2, <2>3 DEF AuthInv, TokenFile
  <2>5. NothingForgotten'
    BY <2>1 DEF AuthInv, NothingForgotten, Requests!Running, Requests!StandingFor,
       Requests!Accepted
  <2>6. AuthTypes' /\ RefusedForAReason'
    BY <2>1 DEF AuthInv, AuthTypes, RefusedForAReason, Requests!AdmitsCredential,
       Requests!HoldsTheRole
  <2> QED BY <2>1, <2>4, <2>5, <2>6, FoundForGood DEF AuthInv
<1> QED BY <1>1, <1>2

\* A step of the request changes nothing around it, and forgets nothing.
LEMMA StepsForgetNothing ==
  ASSUME AuthInv, Requests!Running, auth_req'.token = auth_req.token,
         UNCHANGED <<standing, current, previous, token_file, writing, write_failed,
                     stood, lapsed>>
  PROVE  TokenFile' /\ NothingForgotten'
<1>1. TokenFile'
  BY DEF AuthInv, TokenFile
<1>2. Requests!StandingFor(auth_req.token)' = Requests!StandingFor(auth_req.token)
  BY DEF Requests!StandingFor, Requests!Accepted
<1> QED BY <1>1, <1>2 DEF AuthInv, NothingForgotten

\* The daemon leg begins a request, with what stands at that moment (create_daemon_token_middleware).
LEMMA DaemonLegKeepsAuth ==
  ASSUME AuthInv, Requests!DaemonLeg
  PROVE  AuthInv'
<1>1. PICK browser \in BOOLEAN, token \in 0 .. current :
        LET carries == token # 0 /\ ~browser
        IN  /\ auth_req' = [Requests!Idle EXCEPT
                    !.browser = browser, !.token = token,
                    !.carried = IF carries THEN {"daemon_token"} ELSE {},
                    !.auth = IF carries /\ Requests!Accepted(token) /\ keeper
                             THEN "daemon_token" ELSE Requests!Nobody,
                    !.pc = IF carries /\ Requests!Accepted(token) /\ ~keeper
                           THEN "keeper" ELSE "cookie"]
            /\ stood' = Requests!StandingFor(token)
            /\ lapsed' = Requests!Facts \ Requests!StandingFor(token)
  BY DEF Requests!DaemonLeg
<1> DEFINE carries == token # 0 /\ ~browser
<1>2. UNCHANGED <<standing, current, previous, token_file, writing, write_failed, keeper>>
  BY DEF Requests!DaemonLeg, Requests!environment, Requests!token_vars
<1>3. token \in Nat
  BY DEF AuthInv, TokenFile
<1>4. PICK idle : idle = Requests!Idle
  OBVIOUS
<1>5. idle \in AuthRequests /\ idle.route = Requests!Idle.route
  BY <1>4 DEF Requests!Idle, AuthRequests, AuthPcs, Requests!Kinds, Requests!Nobody
<1>6. /\ auth_req'.browser = browser /\ auth_req'.token = token
      /\ auth_req'.carried = IF carries THEN {"daemon_token"} ELSE {}
      /\ auth_req'.auth = IF carries /\ Requests!Accepted(token) /\ keeper
                          THEN "daemon_token" ELSE Requests!Nobody
      /\ auth_req'.pc = IF carries /\ Requests!Accepted(token) /\ ~keeper
                        THEN "keeper" ELSE "cookie"
      /\ auth_req' \in AuthRequests
  <2> HIDE DEF carries
  <2>1. auth_req' = [idle EXCEPT
                    !.browser = browser, !.token = token,
                    !.carried = IF carries THEN {"daemon_token"} ELSE {},
                    !.auth = IF carries /\ Requests!Accepted(token) /\ keeper
                             THEN "daemon_token" ELSE Requests!Nobody,
                    !.pc = IF carries /\ Requests!Accepted(token) /\ ~keeper
                           THEN "keeper" ELSE "cookie"]
    BY <1>1, <1>4 DEF carries
  <2> QED BY <2>1, <1>3, <1>5 DEF AuthRequests, AuthPcs, Requests!Kinds, Requests!Nobody
<1>7. /\ stood' = Requests!StandingFor(token)
      /\ lapsed' = Requests!Facts \ Requests!StandingFor(token)
      /\ stood' \subseteq Requests!Facts
      /\ (Requests!Accepted(token) => "accepted" \in stood')
      /\ (~Requests!Accepted(token) => "accepted" \in lapsed')
      /\ ("keeper" \in standing => "keeper" \in stood')
  BY <1>1 DEF Requests!StandingFor, Requests!Facts, AuthInv, AuthTypes
<1>8. Requests!StandingFor(auth_req.token)' = Requests!StandingFor(token)
  BY <1>2, <1>6 DEF Requests!StandingFor, Requests!Accepted
<1>9. AuthTypes' /\ TokenFile'
  BY <1>2, <1>6, <1>7 DEF AuthInv, AuthTypes, TokenFile
<1>10. NothingForgotten'
  BY <1>7, <1>8 DEF NothingForgotten
<1>11. ActsOnWhatStood'
  BY <1>6, <1>7 DEF ActsOnWhatStood, AuthInv, AuthTypes, Requests!RestsOn, Requests!Nobody
<1>12. LegsSoFar'
  BY <1>6, <1>7 DEF LegsSoFar, Requests!Nobody
<1>13. StrongerHadLapsed'
  BY <1>6, <1>7 DEF StrongerHadLapsed, Requests!RestsOn, Requests!Stronger, Requests!Nobody
<1>14. GuardsSoFar' /\ RefusedForAReason'
  BY <1>6 DEF GuardsSoFar, RefusedForAReason
<1> QED BY <1>9, <1>10, <1>11, <1>12, <1>13, <1>14 DEF AuthInv

\* A request goes on: what it carries and acts as, and where it is.
Goes(pcs, carried_, auth_) ==
  /\ auth_req'.pc \in pcs /\ auth_req'.carried = carried_ /\ auth_req'.auth = auth_
  /\ auth_req'.browser = auth_req.browser /\ auth_req'.token = auth_req.token
  /\ auth_req'.route = auth_req.route /\ auth_req' \in AuthRequests

\* The daemon leg's read of the keeper: a token that was accepted, and a keeper who is there.
LEMMA KeeperKeepsAuth ==
  ASSUME AuthInv, Requests!ResolveKeeper
  PROVE  AuthInv'
<1>1. /\ auth_req.pc = "keeper" /\ keeper' = ("keeper" \in standing)
      /\ auth_req' = [auth_req EXCEPT !.pc = "cookie",
                                     !.auth = IF keeper' THEN "daemon_token" ELSE @]
      /\ UNCHANGED <<standing, current, previous, token_file, writing, write_failed,
                     stood, lapsed>>
  BY DEF Requests!ResolveKeeper, Requests!environment, Requests!token_vars
<1>2. auth_req \in AuthRequests
  BY DEF AuthInv, AuthTypes
<1>3. Goes({"cookie"}, auth_req.carried, IF keeper' THEN "daemon_token" ELSE auth_req.auth)
  BY <1>1, <1>2 DEF Goes, AuthRequests, AuthPcs, Requests!Kinds
<1>4. /\ auth_req.carried = {"daemon_token"} /\ ~auth_req.browser
      /\ auth_req.auth = Requests!Nobody /\ "accepted" \in stood
  BY <1>1 DEF AuthInv, LegsSoFar
<1>5. Requests!Running
  BY <1>1 DEF Requests!Running
<1>6. IF keeper' THEN "keeper" \in stood ELSE "keeper" \in lapsed
  BY <1>1, <1>5 DEF AuthInv, NothingForgotten, Requests!StandingFor, Requests!Facts
<1>7. TokenFile' /\ NothingForgotten'
  BY <1>1, <1>3, <1>5, StepsForgetNothing DEF Goes
<1>8. AuthTypes'
  <2>1. keeper' = TRUE \/ keeper' = FALSE
    BY <1>1
  <2>2. standing' = standing /\ (keeper' <=> "keeper" \in standing)
    BY <1>1
  <2> QED BY <1>1, <1>3, <2>1, <2>2 DEF AuthInv, AuthTypes, Goes
<1>9. ActsOnWhatStood'
  BY <1>1, <1>3, <1>4, <1>6 DEF ActsOnWhatStood, Goes, Requests!RestsOn, Requests!Nobody
<1>10. LegsSoFar' /\ GuardsSoFar' /\ RefusedForAReason'
  BY <1>3, <1>4 DEF Goes, LegsSoFar, GuardsSoFar, RefusedForAReason
<1>11. StrongerHadLapsed'
  BY <1>1, <1>3, <1>4, <1>6 DEF Goes, StrongerHadLapsed, Requests!RestsOn, Requests!Stronger
<1> QED BY <1>7, <1>8, <1>9, <1>10, <1>11 DEF AuthInv

\* The session leg reads the cookie, and gives way to a credential found before it.
LEMMA SessionKeepsAuth ==
  ASSUME AuthInv, Requests!SessionLeg
  PROVE  AuthInv'
<1>1. PICK carries \in BOOLEAN :
        auth_req' = [auth_req EXCEPT
            !.carried = IF carries THEN @ \cup {"session"} ELSE @,
            !.pc = IF carries /\ "cookie" \in standing /\ auth_req.auth = Requests!Nobody
                   THEN "session" ELSE "bearer"]
  BY DEF Requests!SessionLeg
<1>2. /\ auth_req.pc = "cookie"
      /\ UNCHANGED <<standing, current, previous, token_file, writing, write_failed, keeper,
                     stood, lapsed>>
  BY DEF Requests!SessionLeg, Requests!Keeps, Requests!environment, Requests!token_vars
<1>3. auth_req \in AuthRequests /\ auth_req.auth \in {Requests!Nobody, "daemon_token"}
  BY <1>2 DEF AuthInv, AuthTypes, LegsSoFar
<1>4. /\ Goes({"session", "bearer"},
              IF carries THEN auth_req.carried \cup {"session"} ELSE auth_req.carried,
              auth_req.auth)
      /\ auth_req'.pc = IF carries /\ "cookie" \in standing /\ auth_req.auth = Requests!Nobody
                        THEN "session" ELSE "bearer"
  BY <1>1, <1>3 DEF Goes, AuthRequests, AuthPcs, Requests!Kinds
<1>5. Requests!Running
  BY <1>2 DEF Requests!Running
<1>6. IF "cookie" \in standing THEN "cookie" \in stood ELSE "cookie" \in lapsed
  BY <1>5 DEF AuthInv, NothingForgotten, Requests!StandingFor, Requests!Facts
<1>7. TokenFile' /\ NothingForgotten'
  BY <1>2, <1>4, <1>5, StepsForgetNothing DEF Goes
<1>8. AuthTypes'
  BY <1>2, <1>4 DEF AuthInv, AuthTypes, Goes
<1>9. ActsOnWhatStood'
  BY <1>2, <1>4 DEF AuthInv, ActsOnWhatStood, Goes
<1>10. LegsSoFar' /\ GuardsSoFar' /\ RefusedForAReason'
  BY <1>2, <1>4, <1>6 DEF Goes, LegsSoFar, GuardsSoFar, RefusedForAReason
<1>11. StrongerHadLapsed'
  <2>1. \A kind \in auth_req.carried \cap Requests!Stronger(auth_req.auth) :
          Requests!RestsOn(kind) \cap lapsed # {}
    BY <1>2 DEF AuthInv, StrongerHadLapsed
  <2>2. ASSUME "session" \in auth_req'.carried \cap Requests!Stronger(auth_req.auth),
               "session" \notin auth_req.carried, auth_req'.pc = "bearer"
        PROVE  Requests!RestsOn("session") \cap lapsed # {}
    BY <1>3, <1>4, <1>6, <2>2 DEF Goes, Requests!Stronger, Requests!RestsOn, Requests!Nobody
  <2> QED BY <1>2, <1>4, <2>1, <2>2 DEF Goes, StrongerHadLapsed
<1> QED BY <1>7, <1>8, <1>9, <1>10, <1>11 DEF AuthInv

\* The read of the session's row, for a cookie that was valid.
LEMMA ContextKeepsAuth ==
  ASSUME AuthInv, Requests!RequestContextLeg
  PROVE  AuthInv'
<1>1. /\ auth_req.pc = "session"
      /\ auth_req' = [auth_req EXCEPT !.pc = "bearer",
                          !.auth = IF "session" \in standing THEN "session" ELSE @]
      /\ UNCHANGED <<standing, current, previous, token_file, writing, write_failed, keeper,
                     stood, lapsed>>
  BY DEF Requests!RequestContextLeg, Requests!Keeps, Requests!environment, Requests!token_vars
<1>2. /\ auth_req \in AuthRequests /\ auth_req.auth = Requests!Nobody
      /\ "session" \in auth_req.carried /\ "cookie" \in stood
  BY <1>1 DEF AuthInv, AuthTypes, LegsSoFar
<1>3. Goes({"bearer"}, auth_req.carried,
           IF "session" \in standing THEN "session" ELSE auth_req.auth)
  BY <1>1, <1>2 DEF Goes, AuthRequests, AuthPcs, Requests!Kinds
<1>4. Requests!Running
  BY <1>1 DEF Requests!Running
<1>5. IF "session" \in standing THEN "session" \in stood ELSE "session" \in lapsed
  BY <1>4 DEF AuthInv, NothingForgotten, Requests!StandingFor, Requests!Facts
<1>6. TokenFile' /\ NothingForgotten'
  BY <1>1, <1>3, <1>4, StepsForgetNothing DEF Goes
<1>7. AuthTypes'
  BY <1>1, <1>3 DEF AuthInv, AuthTypes, Goes
<1>8. ActsOnWhatStood'
  BY <1>1, <1>2, <1>3, <1>5 DEF ActsOnWhatStood, Goes, Requests!RestsOn
<1>9. LegsSoFar' /\ GuardsSoFar' /\ RefusedForAReason'
  BY <1>3 DEF Goes, LegsSoFar, GuardsSoFar, RefusedForAReason
<1>10. StrongerHadLapsed'
  <2>1. \A kind \in auth_req.carried :
          kind # "session" => Requests!RestsOn(kind) \cap lapsed # {}
    BY <1>1, <1>2 DEF AuthInv, AuthTypes, AuthRequests, StrongerHadLapsed, Requests!Stronger,
       Requests!Nobody
  <2>2. "session" \notin standing => Requests!RestsOn("session") \cap lapsed # {}
    BY <1>5 DEF Requests!RestsOn
  <2>3. Requests!Stronger("session") = {"daemon_token"}
    BY DEF Requests!Stronger
  <2> QED BY <1>1, <1>2, <1>3, <2>1, <2>2, <2>3 DEF Goes, StrongerHadLapsed
<1> QED BY <1>6, <1>7, <1>8, <1>9, <1>10 DEF AuthInv

\* The bearer leg asks for a token only of a request that acts for nobody and no browser.
LEMMA BearerKeepsAuth ==
  ASSUME AuthInv, Requests!BearerLeg
  PROVE  AuthInv'
<1>1. PICK carries \in {FALSE, ~auth_req.browser /\ auth_req.auth = Requests!Nobody} :
        auth_req' = [auth_req EXCEPT
            !.carried = IF carries THEN @ \cup {"api_token"} ELSE @,
            !.auth = IF carries /\ "token" \in standing THEN "api_token" ELSE @,
            !.pc = "routed"]
  BY DEF Requests!BearerLeg
<1>2. /\ auth_req.pc = "bearer"
      /\ UNCHANGED <<standing, current, previous, token_file, writing, write_failed, keeper,
                     stood, lapsed>>
  BY DEF Requests!BearerLeg, Requests!Keeps, Requests!environment, Requests!token_vars
<1>3. auth_req \in AuthRequests
  BY DEF AuthInv, AuthTypes
<1>4. carries => ~auth_req.browser /\ auth_req.auth = Requests!Nobody
  BY <1>1
<1>5. Goes({"routed"},
           IF carries THEN auth_req.carried \cup {"api_token"} ELSE auth_req.carried,
           IF carries /\ "token" \in standing THEN "api_token" ELSE auth_req.auth)
  BY <1>1, <1>3 DEF Goes, AuthRequests, AuthPcs, Requests!Kinds
<1>6. Requests!Running
  BY <1>2 DEF Requests!Running
<1>7. IF "token" \in standing THEN "token" \in stood ELSE "token" \in lapsed
  BY <1>6 DEF AuthInv, NothingForgotten, Requests!StandingFor, Requests!Facts
<1>8. TokenFile' /\ NothingForgotten'
  BY <1>2, <1>5, <1>6, StepsForgetNothing DEF Goes
<1>9. AuthTypes'
  BY <1>2, <1>5 DEF AuthInv, AuthTypes, Goes
<1>10. ActsOnWhatStood'
  <2>1. CASE carries /\ "token" \in standing
    BY <1>2, <1>4, <1>5, <1>7, <2>1 DEF ActsOnWhatStood, Goes, Requests!RestsOn
  <2>2. CASE ~(carries /\ "token" \in standing)
    BY <1>2, <1>5, <2>2 DEF AuthInv, ActsOnWhatStood, Goes
  <2> QED BY <2>1, <2>2
<1>11. LegsSoFar' /\ GuardsSoFar' /\ RefusedForAReason'
  BY <1>5 DEF Goes, LegsSoFar, GuardsSoFar, RefusedForAReason
<1>12. StrongerHadLapsed'
  <2>1. \A kind \in auth_req.carried \cap Requests!Stronger(auth_req.auth) :
          Requests!RestsOn(kind) \cap lapsed # {}
    BY <1>2 DEF AuthInv, StrongerHadLapsed
  <2>2. CASE ~carries
    BY <1>2, <1>5, <2>1, <2>2 DEF Goes, StrongerHadLapsed
  <2>3. CASE carries
    <3>1. \A kind \in auth_req.carried : Requests!RestsOn(kind) \cap lapsed # {}
      BY <1>3, <1>4, <2>1, <2>3 DEF AuthRequests, Requests!Stronger, Requests!Nobody
    <3>2. "token" \notin standing => Requests!RestsOn("api_token") \cap lapsed # {}
      BY <1>7 DEF Requests!RestsOn
    <3>3. "api_token" \notin Requests!Stronger("api_token")
      BY DEF Requests!Stronger
    <3> QED BY <1>2, <1>5, <2>3, <3>1, <3>2, <3>3 DEF Goes, StrongerHadLapsed
  <2> QED BY <2>2, <2>3
<1> QED BY <1>8, <1>9, <1>10, <1>11, <1>12 DEF AuthInv

\* A guard or a read of the authorization phase leaves what the legs have found.
LEMMA VerdictsLeaveTheLegs ==
  ASSUME AuthInv, Requests!Running, auth_req.pc \notin {"keeper", "cookie", "session"},
         auth_req' \in AuthRequests,
         auth_req'.pc \in AuthPcs \ {"idle", "keeper", "cookie", "session"},
         auth_req'.token = auth_req.token, auth_req'.auth = auth_req.auth,
         auth_req'.carried = auth_req.carried, auth_req'.browser = auth_req.browser,
         Requests!Keeps
  PROVE  /\ AuthTypes' /\ TokenFile' /\ NothingForgotten' /\ ActsOnWhatStood' /\ LegsSoFar'
         /\ StrongerHadLapsed'
<1>1. UNCHANGED <<standing, current, previous, token_file, writing, write_failed, keeper,
                  stood, lapsed>>
  BY DEF Requests!Keeps, Requests!environment, Requests!token_vars
<1>2. TokenFile' /\ NothingForgotten'
  BY <1>1, StepsForgetNothing
<1>3. AuthTypes'
  BY <1>1 DEF AuthInv, AuthTypes
<1>4. ActsOnWhatStood' /\ LegsSoFar'
  BY <1>1 DEF AuthInv, ActsOnWhatStood, LegsSoFar
<1>5. StrongerHadLapsed'
  BY <1>1 DEF AuthInv, StrongerHadLapsed, Requests!Running
<1> QED BY <1>2, <1>3, <1>4, <1>5

\* The guard: a refusal is for the credential, and who passes it has one that is admitted.
LEMMA GuardKeepsAuth ==
  ASSUME AuthInv, Requests!Guard
  PROVE  AuthInv'
<1>1. PICK route_ \in Routes :
        auth_req' = [auth_req EXCEPT
            !.route = route_,
            !.pc = IF ~Requests!AdmitsCredential(route_) THEN "refused"
                   ELSE IF {route_.account, route_.actor} = {"none"}
                           \/ auth_req.auth = Requests!Nobody
                   THEN "authorized"
                   ELSE IF route_.actor = "none" THEN "account" ELSE "actors"]
  BY DEF Requests!Guard
<1>2. auth_req.pc = "routed" /\ Requests!Keeps
  BY DEF Requests!Guard
<1>3. auth_req \in AuthRequests
  BY DEF AuthInv, AuthTypes
<1>4. /\ auth_req' \in AuthRequests /\ auth_req'.route = route_
      /\ auth_req'.token = auth_req.token /\ auth_req'.auth = auth_req.auth
      /\ auth_req'.carried = auth_req.carried /\ auth_req'.browser = auth_req.browser
      /\ auth_req'.pc = IF ~Requests!AdmitsCredential(route_) THEN "refused"
                        ELSE IF {route_.account, route_.actor} = {"none"}
                                \/ auth_req.auth = Requests!Nobody
                        THEN "authorized"
                        ELSE IF route_.actor = "none" THEN "account" ELSE "actors"
  BY <1>1, <1>3 DEF AuthRequests, AuthPcs
<1>5. Requests!Running
  BY <1>2 DEF Requests!Running
<1>6. Requests!AdmitsCredential(route_)' <=> Requests!AdmitsCredential(route_)
  BY <1>4 DEF Requests!AdmitsCredential
<1>7. /\ AuthTypes' /\ TokenFile' /\ NothingForgotten' /\ ActsOnWhatStood' /\ LegsSoFar'
      /\ StrongerHadLapsed'
  BY <1>2, <1>4, <1>5, VerdictsLeaveTheLegs DEF AuthPcs
<1>8. Requests!AdmitsCredential(auth_req.route)' <=> Requests!AdmitsCredential(route_)
  BY <1>4 DEF Requests!AdmitsCredential
<1>9. auth_req'.pc = "authorized" => route_.role = "none"
  BY <1>4, RolesNeedAnAccount DEF Requests!AdmitsCredential, AccountNeeded
<1>10. GuardsSoFar'
  BY <1>4, <1>8, <1>9 DEF GuardsSoFar, AccountNeeded, Requests!HoldsTheRole
<1>11. RefusedForAReason'
  BY <1>4, <1>8 DEF RefusedForAReason
<1> QED BY <1>7, <1>10, <1>11 DEF AuthInv

\* The reads of the authorization phase, each of what stands then, and the handler.
LEMMA AuthorizationKeepsAuth ==
  ASSUME AuthInv,
         Requests!ResolveActingActor \/ Requests!BuildContext \/ Requests!RequireRole
           \/ Requests!Handle
  PROVE  AuthInv'
<1>1. /\ Requests!Keeps /\ auth_req.pc \in {"actors", "account", "grants", "authorized"}
      /\ \E pc \in AuthPcs \ {"idle", "keeper", "cookie", "session"} : Requests!Goes(pc)
  <2>1. CASE Requests!ResolveActingActor
    BY <2>1 DEF Requests!ResolveActingActor, AuthPcs
  <2>2. CASE Requests!BuildContext
    BY <2>2 DEF Requests!BuildContext, AuthPcs
  <2>3. CASE Requests!RequireRole
    BY <2>3 DEF Requests!RequireRole, AuthPcs
  <2>4. CASE Requests!Handle
    BY <2>4 DEF Requests!Handle, AuthPcs
  <2> QED BY <2>1, <2>2, <2>3, <2>4
<1>2. auth_req \in AuthRequests
  BY DEF AuthInv, AuthTypes
<1>3. PICK pc \in AuthPcs \ {"idle", "keeper", "cookie", "session"} : Requests!Goes(pc)
  BY <1>1
<1>4. /\ auth_req' \in AuthRequests /\ auth_req'.pc = pc /\ auth_req'.route = auth_req.route
      /\ auth_req'.token = auth_req.token /\ auth_req'.auth = auth_req.auth
      /\ auth_req'.carried = auth_req.carried /\ auth_req'.browser = auth_req.browser
  BY <1>2, <1>3 DEF AuthRequests, Requests!Goes
<1>5. Requests!Running
  BY <1>1 DEF Requests!Running
<1>6. /\ AuthTypes' /\ TokenFile' /\ NothingForgotten' /\ ActsOnWhatStood' /\ LegsSoFar'
      /\ StrongerHadLapsed'
  BY <1>1, <1>4, <1>5, VerdictsLeaveTheLegs
<1>7. /\ stood' = stood /\ lapsed' = lapsed
      /\ Requests!AdmitsCredential(auth_req.route)' <=> Requests!AdmitsCredential(auth_req.route)
      /\ Requests!AdmitsCredential(auth_req.route)
  BY <1>1, <1>4 DEF Requests!Keeps, Requests!AdmitsCredential, AuthInv, GuardsSoFar
<1>8. /\ standing \subseteq stood
      /\ \A fact \in Requests!Facts \ {"accepted"} : fact \notin standing => fact \in lapsed
  BY <1>5 DEF AuthInv, AuthTypes, NothingForgotten, Requests!StandingFor
<1>9. Requests!Account(auth_req.auth) \in Requests!Facts \ {"accepted"}
  BY DEF Requests!Account, Requests!Facts
<1>10. CASE Requests!ResolveActingActor
  <2>1. auth_req.pc = "actors"
        /\ Requests!Goes(IF Requests!Account(auth_req.auth) \in standing
                         THEN "account" ELSE "refused")
    BY <1>10 DEF Requests!ResolveActingActor, Requests!ActorsAreThere
  <2>2. auth_req'.pc = IF Requests!Account(auth_req.auth) \in standing
                      THEN "account" ELSE "refused"
    BY <2>1, <1>2 DEF Requests!Goes, AuthRequests
  <2>3. GuardsSoFar'
    BY <1>4, <1>7, <2>1, <2>2 DEF GuardsSoFar, AuthInv
  <2>4. RefusedForAReason'
    BY <1>4, <1>7, <1>8, <1>9, <2>2 DEF RefusedForAReason
  <2> QED BY <1>6, <2>3, <2>4 DEF AuthInv
<1>11. CASE Requests!BuildContext
  <2>1. /\ auth_req.pc = "account"
        /\ Requests!Goes(IF Requests!Account(auth_req.auth) \notin standing THEN "refused"
                         ELSE IF auth_req.route.role = "none" THEN "authorized" ELSE "grants")
    BY <1>11 DEF Requests!BuildContext
  <2>2. auth_req'.pc = IF Requests!Account(auth_req.auth) \notin standing THEN "refused"
                      ELSE IF auth_req.route.role = "none" THEN "authorized" ELSE "grants"
    BY <2>1, <1>2 DEF Requests!Goes, AuthRequests
  <2>3. GuardsSoFar'
    BY <1>4, <1>7, <1>8, <2>1, <2>2 DEF GuardsSoFar, AuthInv, Requests!HoldsTheRole
  <2>4. RefusedForAReason'
    BY <1>4, <1>7, <1>8, <1>9, <2>2 DEF RefusedForAReason
  <2> QED BY <1>6, <2>3, <2>4 DEF AuthInv
<1>12. CASE Requests!RequireRole
  <2>1. /\ auth_req.pc = "grants"
        /\ Requests!Goes(IF Requests!RoleGrant(auth_req.auth, auth_req.route.role)
                            /\ auth_req.route.role \in standing
                         THEN "authorized" ELSE "refused")
    BY <1>12 DEF Requests!RequireRole
  <2>2. auth_req'.pc = IF Requests!RoleGrant(auth_req.auth, auth_req.route.role)
                         /\ auth_req.route.role \in standing
                      THEN "authorized" ELSE "refused"
    BY <2>1, <1>2 DEF Requests!Goes, AuthRequests
  <2>3. auth_req.route.role # "none"
    BY <2>1 DEF AuthInv, GuardsSoFar
  <2>4. GuardsSoFar'
    BY <1>4, <1>7, <1>8, <2>1, <2>2 DEF GuardsSoFar, AuthInv, Requests!HoldsTheRole
  <2>5. Requests!RoleGrant(auth_req.auth, auth_req.route.role) =>
          auth_req.route.role \in Requests!Facts \ {"accepted"}
    BY DEF Requests!RoleGrant, Requests!Facts
  <2>6. RefusedForAReason'
    BY <1>4, <1>7, <1>8, <2>2, <2>3, <2>5 DEF RefusedForAReason, Requests!HoldsTheRole
  <2> QED BY <1>6, <2>4, <2>6 DEF AuthInv
<1>13. CASE Requests!Handle
  <2>1. auth_req.pc = "authorized" /\ Requests!Goes("handling")
    BY <1>13 DEF Requests!Handle
  <2>2. auth_req'.pc = "handling"
    BY <2>1, <1>2 DEF Requests!Goes, AuthRequests
  <2>3. GuardsSoFar' /\ RefusedForAReason'
    BY <1>4, <1>7, <2>1, <2>2 DEF GuardsSoFar, RefusedForAReason, AuthInv, Requests!HoldsTheRole
  <2> QED BY <1>6, <2>3 DEF AuthInv
<1> QED BY <1>10, <1>11, <1>12, <1>13

\* The request ends, and what it remembered with it.
LEMMA EndKeepsAuth ==
  ASSUME AuthInv, Requests!End
  PROVE  AuthInv'
<1>1. /\ auth_req' = Requests!Idle /\ stood' = {} /\ lapsed' = {}
      /\ UNCHANGED <<standing, current, previous, token_file, writing, write_failed, keeper>>
  BY DEF Requests!End, Requests!environment, Requests!token_vars
<1>2. /\ auth_req' \in AuthRequests /\ auth_req'.pc = "idle"
      /\ auth_req'.auth = Requests!Nobody
  BY <1>1 DEF Requests!Idle, AuthRequests, AuthPcs, Requests!Kinds, Requests!Nobody
<1>3. AuthTypes' /\ TokenFile'
  BY <1>1, <1>2 DEF AuthInv, AuthTypes, TokenFile
<1> QED
  BY <1>2, <1>3 DEF AuthInv, NothingForgotten, Requests!Running, ActsOnWhatStood,
     LegsSoFar, StrongerHadLapsed, GuardsSoFar, RefusedForAReason

\* Every step of a request, and every change around it, keeps the invariant.
LEMMA AuthStep ==
  ASSUME AuthInv, Requests!RequestNext
  PROVE  AuthInv'
<1>1. \/ AuthChange \/ Requests!Rotate \/ Requests!WriteTokenFile
      \/ Requests!DaemonLeg \/ Requests!ResolveKeeper \/ Requests!SessionLeg
      \/ Requests!RequestContextLeg \/ Requests!BearerLeg \/ Requests!Guard
      \/ Requests!ResolveActingActor \/ Requests!BuildContext \/ Requests!RequireRole
      \/ Requests!Handle \/ Requests!End
  BY DEF Requests!RequestNext, AuthChange
<1> QED
  BY <1>1, ChangesKeepAuth, RotationKeepsAuth, DaemonLegKeepsAuth, KeeperKeepsAuth,
     SessionKeepsAuth, ContextKeepsAuth, BearerKeepsAuth, GuardKeepsAuth,
     AuthorizationKeepsAuth, EndKeepsAuth

\* The steps of the other parts leave it alone.
LEMMA AuthStutters ==
  ASSUME AuthInv, UNCHANGED auth_vars
  PROVE  AuthInv'
BY DEF auth_vars, AuthInv, AuthTypes, TokenFile, NothingForgotten, Requests!Running,
   Requests!StandingFor, Requests!Accepted, ActsOnWhatStood, LegsSoFar, StrongerHadLapsed,
   GuardsSoFar, RefusedForAReason, Requests!AdmitsCredential, Requests!HoldsTheRole

\* What has been found when a handler is reached, or a request refused, is the verdict.
LEMMA AuthInvGivesVerdicts == AuthInv => VerdictsWereTrue
<1> SUFFICES ASSUME AuthInv PROVE VerdictsWereTrue
  OBVIOUS
<1>1. auth_req.pc \in {"handling", "refused"} => Requests!ActsAsTheStrongest
  BY DEF AuthInv, ActsOnWhatStood, StrongerHadLapsed, Requests!ActsAsTheStrongest
<1>2. Requests!VerdictsWereTrue
  BY <1>1 DEF Requests!VerdictsWereTrue, AuthInv, GuardsSoFar, RefusedForAReason, AccountNeeded
<1>3. Requests!FileTokenIsAccepted
  BY DEF Requests!FileTokenIsAccepted, Requests!Accepted, AuthInv, TokenFile
<1> QED BY <1>2, <1>3 DEF VerdictsWereTrue

(***************************************************************************)
(* Who reaches a handler acts as the strongest credential they carried     *)
(* that was valid, with an account and a role that were there at some      *)
(* moment of the request; nobody is refused for whom all of it was there   *)
(* throughout; and the daemon token's file lets its reader in unless a     *)
(* write failed.  For any routes that register, rotations and changes      *)
(* around the request (auth/middleware.ts, request_context.ts,             *)
(* daemon_token_rotation.ts).                                              *)
(***************************************************************************)
THEOREM VerdictsStoodAtSomeMoment == SocketsParts => []VerdictsWereTrue
<1>1. SocketsInit => AuthInv
  BY AuthBegins DEF SocketsInit
<1>2. AuthInv /\ [SocketsNext]_sockets_vars => AuthInv'
  <2> SUFFICES ASSUME AuthInv, [SocketsNext]_sockets_vars
               PROVE  AuthInv'
    OBVIOUS
  <2>1. CASE Requests!RequestNext
    BY <2>1, AuthStep
  <2>2. CASE UNCHANGED auth_vars
    BY <2>2, AuthStutters
  <2>3. Requests!RequestNext \/ UNCHANGED auth_vars
    BY DEF SocketsNext, sockets_vars
  <2> QED BY <2>1, <2>2, <2>3
<1>3. AuthInv => VerdictsWereTrue
  BY AuthInvGivesVerdicts
<1> QED BY <1>1, <1>2, <1>3, PTL DEF SocketsParts

-----------------------------------------------------------------------------
(***************************************************************************)
(* The browser's client: its requests and its link.                        *)
(***************************************************************************)

\* The client's variables, and which requests were made.
ClientTypes ==
  /\ auto_reconnect \in BOOLEAN /\ heartbeat_enabled \in BOOLEAN
  /\ revoked \in BOOLEAN /\ superseded \in BOOLEAN /\ stays_down \in BOOLEAN
  /\ reconnect_timeout \in BOOLEAN /\ heartbeat_timer \in BOOLEAN
  /\ status \in {"initial", "connecting", "connected", "reconnecting", "closed"}
  /\ ws \in {"none", "connecting", "open", "closing"}
  /\ requests \in Nat /\ sockets \in Nat
  /\ promise \in [1 .. requests -> {"waiting", "resolved", "rejected"}]
  /\ sent_on \in [1 .. requests -> Nat]
  /\ sends \in [1 .. requests -> Nat]
  /\ client_pending \subseteq 1 .. requests
  /\ client_queue \in Seq(1 .. requests)

Queued == Client!ToSet(client_queue)

\* A client that is connected has a socket; one that stays down has nothing scheduled.
LinkInv ==
  /\ status = "connected" => ws \in {"open", "closing"}
  /\ (stays_down \/ revoked) => (ws = "none" /\ ~reconnect_timeout /\ status = "closed")
  /\ revoked => (~heartbeat_timer /\ client_pending = {} /\ client_queue = <<>>)

\* An unsettled request is in flight on the current socket, or stranded, or queued and then
\* was never sent.
Tracked ==
  /\ \A id \in 1 .. requests : promise[id] = "waiting" <=> id \in client_pending \cup Queued
  /\ client_pending \cap Queued = {}
  /\ \A i, j \in DOMAIN client_queue : client_queue[i] = client_queue[j] => i = j
  /\ \A id \in client_pending \ stranded : ws # "none" /\ sent_on[id] = sockets
  /\ \A id \in 1 .. requests : sends[id] <= 1
  /\ \A id \in Queued : sends[id] = 0

ClientInv == ClientTypes /\ LinkInv /\ Tracked

\* The ids of the queue are those at its positions.
LEMMA QueueOfIds ==
  ASSUME ClientTypes
  PROVE  /\ Queued \subseteq 1 .. requests
         /\ Queued = {client_queue[i] : i \in 1 .. Len(client_queue)}
         /\ DOMAIN client_queue = 1 .. Len(client_queue) /\ Len(client_queue) \in Nat
BY DEF Queued, Client!ToSet, ClientTypes

\* A sequence without its entry at k.
LEMMA WithoutOneEntry ==
  ASSUME NEW S, NEW s \in Seq(S), NEW k \in 1 .. Len(s)
  PROVE  \E rest \in Seq(S) :
           /\ rest = SubSeq(s, 1, k - 1) \o SubSeq(s, k + 1, Len(s))
           /\ Len(rest) = Len(s) - 1
           /\ \A i \in 1 .. (Len(s) - 1) : rest[i] = IF i < k THEN s[i] ELSE s[i + 1]
<1>1. Len(s) \in Nat /\ k \in Nat /\ \A i \in 1 .. Len(s) : s[i] \in S
  OBVIOUS
<1>2. PICK left : left = SubSeq(s, 1, k - 1)
  OBVIOUS
<1>3. PICK right : right = SubSeq(s, k + 1, Len(s))
  OBVIOUS
<1>4. left \in Seq(S) /\ Len(left) = k - 1
  <2>1. \A i \in 1 .. (k - 1) : s[i] \in S
    BY <1>1
  <2> QED BY <1>1, <1>2, <2>1, SubSeqProperties
<1>5. right \in Seq(S) /\ Len(right) = Len(s) - k
  BY <1>1, <1>3, SubSeqProperties
<1>6. \A i \in 1 .. (k - 1) : left[i] = s[i]
  BY <1>1, <1>2
<1>7. \A i \in 1 .. (Len(s) - k) : right[i] = s[i + k]
  BY <1>1, <1>3
<1>8. PICK rest : rest = left \o right
  OBVIOUS
<1>9. /\ rest \in Seq(S) /\ Len(rest) = Len(s) - 1
      /\ \A i \in 1 .. (Len(s) - 1) :
           rest[i] = IF i <= k - 1 THEN left[i] ELSE right[i - (k - 1)]
  BY <1>1, <1>4, <1>5, <1>8
<1>10. ASSUME NEW i \in 1 .. (Len(s) - 1)
       PROVE  rest[i] = IF i < k THEN s[i] ELSE s[i + 1]
  <2>1. CASE i < k
    BY <1>1, <1>6, <1>9, <2>1
  <2>2. CASE ~(i < k)
    <3>1. i - (k - 1) \in 1 .. (Len(s) - k) /\ (i - (k - 1)) + k = i + 1
      BY <1>1, <2>2
    <3> QED BY <1>1, <1>7, <1>9, <2>2, <3>1
  <2> QED BY <2>1, <2>2
<1>11. rest = SubSeq(s, 1, k - 1) \o SubSeq(s, k + 1, Len(s))
  BY <1>2, <1>3, <1>8
<1> QED BY <1>9, <1>10, <1>11, Zenon

\* findIndex and splice: the one entry of the id goes, the others stay.
LEMMA DroppedFromTheQueue ==
  ASSUME ClientInv, NEW id \in 1 .. requests
  PROVE  LET rest == Client!RemoveFirst(client_queue, id)
         IN  /\ rest \in Seq(1 .. requests)
             /\ Client!ToSet(rest) = Queued \ {id}
             /\ \A i, j \in DOMAIN rest : rest[i] = rest[j] => i = j
<1> DEFINE without == Client!RemoveFirst(client_queue, id)
<1>1. /\ client_queue \in Seq(1 .. requests)
      /\ \A i, j \in 1 .. Len(client_queue) : client_queue[i] = client_queue[j] => i = j
  BY QueueOfIds DEF ClientInv, ClientTypes, Tracked
<1>2. CASE id \notin Queued
  <2>1. ~ \E i \in 1 .. Len(client_queue) : client_queue[i] = id
    BY <1>2, QueueOfIds DEF ClientInv
  <2>2. without = client_queue
    BY <2>1 DEF Client!RemoveFirst
  <2>3. Client!ToSet(without) = Queued \ {id}
    BY <1>2, <2>2 DEF Queued
  <2> QED BY <1>1, <2>2, <2>3, QueueOfIds DEF ClientInv
<1>3. CASE id \in Queued
  <2>1. PICK k \in 1 .. Len(client_queue) : client_queue[k] = id
    BY <1>3, QueueOfIds DEF ClientInv
  <2>2. {i \in 1 .. Len(client_queue) : client_queue[i] = id} = {k}
    BY <1>1, <2>1
  <2>3. Client!Min({k}) = k
    BY <2>1 DEF Client!Min
  <2>4. Client!SelectInSeq(client_queue, LAMBDA v : v = id) = k
    BY <2>2, <2>3 DEF Client!SelectInSeq
  <2>5. without = Client!RemoveAt(client_queue, k)
    BY <2>1, <2>4 DEF Client!RemoveFirst
  <2>6. without = SubSeq(client_queue, 1, k - 1) \o SubSeq(client_queue, k + 1, Len(client_queue))
    BY <2>5 DEF Client!RemoveAt
  <2>7. PICK rest \in Seq(1 .. requests) :
          /\ rest = SubSeq(client_queue, 1, k - 1)
                      \o SubSeq(client_queue, k + 1, Len(client_queue))
          /\ Len(rest) = Len(client_queue) - 1
          /\ \A i \in 1 .. (Len(client_queue) - 1) :
               rest[i] = IF i < k THEN client_queue[i] ELSE client_queue[i + 1]
    <3>1. client_queue \in Seq(1 .. requests)
      BY <1>1
    <3>2. k \in 1 .. Len(client_queue)
      OBVIOUS
    <3>3. PICK ids, q : ids = 1 .. requests /\ q = client_queue
      OBVIOUS
    <3>5. q \in Seq(ids) /\ k \in 1 .. Len(q)
      BY ONLY <3>1, <3>2, <3>3
    <3>4. \E rest \in Seq(ids) :
             /\ rest = SubSeq(q, 1, k - 1) \o SubSeq(q, k + 1, Len(q))
             /\ Len(rest) = Len(q) - 1
             /\ \A i \in 1 .. (Len(q) - 1) : rest[i] = IF i < k THEN q[i] ELSE q[i + 1]
      BY ONLY <3>5, WithoutOneEntry, Zenon
    <3> QED BY ONLY <3>3, <3>4, Zenon
  <2>11. /\ rest \in Seq(1 .. requests) /\ Len(rest) = Len(client_queue) - 1
         /\ \A i \in 1 .. (Len(client_queue) - 1) :
              rest[i] = IF i < k THEN client_queue[i] ELSE client_queue[i + 1]
    BY <2>7, Zenon
  <2>8. DOMAIN rest = 1 .. (Len(client_queue) - 1)
    BY <2>11
  <2>9. \A i, j \in DOMAIN rest : rest[i] = rest[j] => i = j
    BY <1>1, <2>1, <2>11, <2>8
  <2>10. Client!ToSet(rest) = Queued \ {id}
    <3>1. Client!ToSet(rest) = {rest[i] : i \in DOMAIN rest}
      BY DEF Client!ToSet
    <3>2. ASSUME NEW i \in DOMAIN rest PROVE rest[i] \in Queued \ {id}
      BY <1>1, <2>1, <2>11, <2>8, <3>2, QueueOfIds DEF ClientInv
    <3>3. ASSUME NEW q \in Queued \ {id} PROVE \E i \in DOMAIN rest : rest[i] = q
      <4>1. PICK j \in 1 .. Len(client_queue) : client_queue[j] = q /\ j # k
        BY <2>1, <3>3, QueueOfIds DEF ClientInv
      <4>2. CASE j < k
        BY <1>1, <2>1, <2>11, <2>8, <4>1, <4>2
      <4>3. CASE j > k
        <5>1. j - 1 \in 1 .. (Len(client_queue) - 1) /\ ~(j - 1 < k) /\ (j - 1) + 1 = j
          BY <1>1, <2>1, <4>1, <4>3
        <5> QED BY <2>11, <2>8, <4>1, <5>1
      <4> QED BY <4>1, <4>2, <4>3
    <3> QED BY <3>1, <3>2, <3>3
  <2> QED BY <2>6, <2>7, <2>9, <2>10, Zenon
<1> QED BY <1>2, <1>3

request_facts == <<requests, client_pending, client_queue, promise, sent_on, sends>>

\* What is in flight stays so while its socket is there, or is known to be stranded.
LEMMA NothingIsLost ==
  ASSUME ClientInv, UNCHANGED request_facts,
         \A id \in client_pending \ stranded' : ws' # "none" /\ sockets' = sockets
                                               /\ id \notin stranded
  PROVE  Tracked'
BY DEF ClientInv, Tracked, Queued, Client!ToSet, request_facts

\* Rejected requests are settled, and nothing is in flight.
LEMMA RejectionsAreTracked ==
  ASSUME ClientInv, Client!RejectPendingOnly \/ Client!RejectAll,
         UNCHANGED <<requests, sent_on, sends>>
  PROVE  /\ Tracked' /\ client_pending' = {} /\ client_queue' \in {client_queue, <<>>}
         /\ client_queue' \in Seq(1 .. requests)
         /\ promise' \in [1 .. requests -> {"waiting", "resolved", "rejected"}]
<1>1. PICK ids : /\ Client!Reject(ids) /\ client_pending' = {}
                 /\ \/ ids = client_pending /\ client_queue' = client_queue
                    \/ ids = client_pending \cup Queued /\ client_queue' = <<>>
  BY DEF Client!RejectPendingOnly, Client!RejectAll, Queued
<1>2. promise' = [id \in 1 .. requests |-> IF id \in ids THEN "rejected" ELSE promise[id]]
  BY <1>1 DEF Client!Reject, Client!Made
<1>3. Queued' = IF client_queue' = <<>> THEN {} ELSE Queued
  <2>1. CASE client_queue' = <<>>
    BY <2>1 DEF Queued, Client!ToSet
  <2>2. CASE client_queue' # <<>>
    BY <1>1, <2>2 DEF Queued
  <2> QED BY <2>1, <2>2
<1>4. promise' \in [1 .. requests -> {"waiting", "resolved", "rejected"}]
  BY <1>2 DEF ClientInv, ClientTypes
<1>5. \A id \in 1 .. requests : promise'[id] = "waiting" <=> id \in Queued'
  BY <1>1, <1>2, <1>3, QueueOfIds DEF ClientInv, Tracked
<1>6. \A i, j \in DOMAIN client_queue' : client_queue'[i] = client_queue'[j] => i = j
  BY <1>1 DEF ClientInv, Tracked
<1>7. /\ \A id \in 1 .. requests : sends'[id] <= 1
      /\ \A id \in Queued' : sends'[id] = 0
  BY <1>3 DEF ClientInv, Tracked
<1>8. Tracked'
  BY <1>1, <1>5, <1>6, <1>7 DEF Tracked
<1>9. client_queue' \in Seq(1 .. requests)
  <2>1. CASE client_queue' = client_queue
    BY <2>1 DEF ClientInv, ClientTypes
  <2>2. CASE client_queue' = <<>>
    BY <2>2, EmptySeq
  <2> QED BY <1>1, <2>1, <2>2
<1> QED BY <1>1, <1>4, <1>8, <1>9

\* The policies, the timers and the heartbeat's own close leave requests alone.
LEMMA PoliciesKeepClient ==
  ASSUME ClientInv,
         \/ \E auto \in BOOLEAN : Client!SetReconnect(auto)
         \/ \E enabled \in BOOLEAN : Client!SetHeartbeat(enabled)
         \/ Client!CancelReconnect \/ Client!HeartbeatTimeout \/ Client!SocketCloses
  PROVE  ClientInv'
<1>1. UNCHANGED request_facts /\ sockets' = sockets /\ stranded' = stranded
      /\ UNCHANGED <<revoked, superseded, stays_down>>
      /\ (ws' = ws \/ (ws = "open" /\ ws' = "closing"))
  BY DEF Client!SetReconnect, Client!SetHeartbeat, Client!CancelReconnect,
     Client!HeartbeatTimeout, Client!SocketCloses, request_facts, Client!request_vars,
     Client!link_vars, Client!timer_vars
<1>2. Tracked'
  <2>1. \A id \in client_pending \ stranded : ws # "none"
    BY DEF ClientInv, Tracked
  <2> QED BY <1>1, <2>1, NothingIsLost
<1>3. /\ auto_reconnect' \in BOOLEAN /\ heartbeat_enabled' \in BOOLEAN
      /\ reconnect_timeout' \in BOOLEAN /\ heartbeat_timer' \in BOOLEAN
      /\ status' \in {"initial", "connecting", "connected", "reconnecting", "closed"}
  BY DEF ClientInv, ClientTypes, Client!SetReconnect, Client!SetHeartbeat,
     Client!CancelReconnect, Client!HeartbeatTimeout, Client!SocketCloses, Client!link_vars,
     Client!timer_vars, Client!policy_vars
<1>4. ClientTypes'
  BY <1>1, <1>3 DEF ClientInv, ClientTypes, request_facts
<1>5. LinkInv'
  <2>1. CASE \E auto \in BOOLEAN : Client!SetReconnect(auto)
    BY <1>1, <2>1 DEF ClientInv, LinkInv, Client!SetReconnect, request_facts
  <2>2. CASE \E enabled \in BOOLEAN : Client!SetHeartbeat(enabled)
    <3>1. PICK enabled \in BOOLEAN : heartbeat_timer' = (enabled /\ status = "connected")
      BY <2>2 DEF Client!SetHeartbeat
    <3>2. UNCHANGED <<status, ws, reconnect_timeout>>
      BY <2>2 DEF Client!SetHeartbeat, Client!link_vars
    <3>3. status # "connected" => ~heartbeat_timer'
      BY <3>1
    <3> QED BY <1>1, <3>2, <3>3 DEF ClientInv, LinkInv, request_facts
  <2>3. CASE Client!CancelReconnect
    BY <1>1, <2>3 DEF ClientInv, LinkInv, Client!CancelReconnect, request_facts
  <2>4. CASE Client!HeartbeatTimeout \/ Client!SocketCloses
    BY <1>1, <2>4 DEF ClientInv, LinkInv, Client!HeartbeatTimeout, Client!SocketCloses,
       Client!timer_vars, request_facts
  <2> QED BY <2>1, <2>2, <2>3, <2>4
<1> QED BY <1>2, <1>4, <1>5 DEF ClientInv

\* What the end of a link leaves of the requests: those in flight are rejected.
Ends ==
  /\ Client!RejectPendingOnly \/ Client!RejectAll
  /\ UNCHANGED <<requests, sent_on, sends>>

\* disconnect, and the close events.
LEMMA ClosesKeepClient ==
  ASSUME ClientInv,
         \/ Client!Disconnect \/ Client!HandleSessionRevoked \/ Client!HandleConnectionLimit
         \/ Client!HandlePermissionRevoked \/ Client!HandleClose
  PROVE  ClientInv'
<1>1. /\ Ends /\ ws' = "none" /\ heartbeat_timer' = FALSE
      /\ UNCHANGED <<auto_reconnect, heartbeat_enabled, sockets>>
  BY DEF Ends, Client!Disconnect, Client!HandleSessionRevoked, Client!HandleConnectionLimit,
     Client!HandlePermissionRevoked, Client!HandleClose, Client!ClosedForGood, Client!Closed,
     Client!policy_vars
<1>2. /\ Tracked' /\ client_pending' = {} /\ client_queue' \in {client_queue, <<>>}
      /\ promise' \in [1 .. requests -> {"waiting", "resolved", "rejected"}]
      /\ client_queue' \in Seq(1 .. requests)
  BY <1>1, RejectionsAreTracked DEF Ends
<1>3. /\ revoked' \in BOOLEAN /\ superseded' \in BOOLEAN /\ stays_down' \in BOOLEAN
      /\ reconnect_timeout' \in BOOLEAN
      /\ status' \in {"initial", "connecting", "connected", "reconnecting", "closed"}
  <2>1. CASE Client!Disconnect
    BY <2>1 DEF ClientInv, ClientTypes, Client!Disconnect
  <2>2. CASE Client!HandleSessionRevoked \/ Client!HandleConnectionLimit
             \/ Client!HandlePermissionRevoked
    BY <2>2 DEF ClientInv, ClientTypes, Client!HandleSessionRevoked,
       Client!HandleConnectionLimit, Client!HandlePermissionRevoked, Client!ClosedForGood
  <2>3. CASE Client!HandleClose
    BY <2>3 DEF ClientInv, ClientTypes, Client!HandleClose, Client!ScheduleReconnect
  <2> QED BY <2>1, <2>2, <2>3
<1>5. ClientTypes'
  BY <1>1, <1>2, <1>3 DEF ClientInv, ClientTypes, Ends
<1>6. LinkInv'
  <2>1. CASE Client!Disconnect
    <3>1. /\ client_queue' = <<>> /\ reconnect_timeout' = FALSE /\ status' = "closed"
          /\ UNCHANGED <<revoked, stays_down>>
      BY <2>1 DEF Client!Disconnect, Client!RejectAll
    <3> QED BY <1>1, <1>2, <3>1 DEF LinkInv
  <2>2. CASE Client!HandleSessionRevoked \/ Client!HandleConnectionLimit
             \/ Client!HandlePermissionRevoked
    <3>1. client_queue' = <<>> /\ reconnect_timeout' = FALSE /\ status' = "closed"
      BY <2>2 DEF Client!HandleSessionRevoked, Client!HandleConnectionLimit,
         Client!HandlePermissionRevoked, Client!ClosedForGood, Client!RejectAll
    <3> QED BY <1>1, <1>2, <3>1 DEF LinkInv
  <2>3. CASE Client!HandleClose
    <3>1. /\ ws # "none" /\ UNCHANGED <<revoked, stays_down>>
          /\ status' \in {"reconnecting", "closed"}
      BY <2>3 DEF Client!HandleClose, Client!Closed, Client!ScheduleReconnect
    <3>2. ~revoked /\ ~stays_down
      BY <3>1 DEF ClientInv, LinkInv
    <3> QED BY <3>1, <3>2 DEF LinkInv
  <2> QED BY <2>1, <2>2, <2>3
<1> QED BY <1>2, <1>5, <1>6 DEF ClientInv

\* connect: the requests in flight on the socket it tears down are rejected, or stranded.
LEMMA ConnectKeepsClient ==
  ASSUME ClientInv, Client!Connect
  PROVE  ClientInv'
<1>1. /\ ~revoked /\ superseded' = FALSE /\ stays_down' = FALSE
      /\ heartbeat_timer' = (heartbeat_timer /\ ws = "none")
      /\ UNCHANGED <<auto_reconnect, heartbeat_enabled, revoked, requests, sent_on, sends>>
      /\ Client!Teardown /\ Client!NewSocket
  BY DEF Client!Connect, Client!policy_vars
<1>2. /\ client_queue' \in Seq(1 .. requests) /\ client_pending' \subseteq 1 .. requests
      /\ promise' \in [1 .. requests -> {"waiting", "resolved", "rejected"}]
      /\ Tracked'
  <2>1. CASE ws \in {"connecting", "open"}
    <3>1. Client!RejectPendingOnly
      BY <1>1, <2>1 DEF Client!Teardown
    <3>2. /\ Tracked' /\ client_pending' = {} /\ client_queue' \in {client_queue, <<>>}
          /\ promise' \in [1 .. requests -> {"waiting", "resolved", "rejected"}]
          /\ client_queue' \in Seq(1 .. requests)
      BY <1>1, <3>1, RejectionsAreTracked
    <3> QED BY <3>2
  <2>2. CASE ws \notin {"connecting", "open"}
    <3>1. UNCHANGED request_facts
          /\ stranded' = IF ws = "closing" THEN stranded \cup client_pending ELSE stranded
      BY <1>1, <2>2 DEF Client!Teardown, Client!NoRequests, request_facts
    <3>2. client_pending \subseteq stranded'
      BY <2>2, <3>1 DEF ClientInv, ClientTypes, Tracked
    <3> QED BY <3>1, <3>2, NothingIsLost DEF ClientInv, ClientTypes, request_facts
  <2> QED BY <2>1, <2>2
<1>3. /\ sockets' \in Nat /\ ws' \in {"none", "connecting"}
      /\ reconnect_timeout' \in BOOLEAN
      /\ status' \in {"connecting", "reconnecting", "closed"}
  <2>1. sockets \in Nat
    BY DEF ClientInv, ClientTypes
  <2>2. /\ sockets' = sockets \/ sockets' = sockets + 1
        /\ ws' \in {"none", "connecting"}
        /\ reconnect_timeout' = TRUE \/ reconnect_timeout' = FALSE
        /\ status' \in {"connecting", "reconnecting", "closed"}
    BY <1>1 DEF Client!NewSocket, Client!ScheduleReconnect
  <2>3. sockets' \in Nat
    BY <2>1, <2>2
  <2> QED BY <2>2, <2>3
<1>4. heartbeat_timer' \in BOOLEAN
  BY <1>1
<1>5. ClientTypes'
  <2>1. superseded' \in BOOLEAN /\ stays_down' \in BOOLEAN
    BY <1>1
  <2> QED BY <1>1, <1>2, <1>3, <1>4, <2>1 DEF ClientInv, ClientTypes
<1>6. LinkInv'
  BY <1>1, <1>3 DEF LinkInv
<1> QED BY <1>2, <1>5, <1>6 DEF ClientInv

\* What is made of a new request, and nothing else of the requests.
LEMMA OneRequestMore ==
  ASSUME ClientInv, NEW outcome_ \in {"waiting", "rejected"}, Client!NewRequest(outcome_),
         NEW on \in Nat, NEW left \in {0, 1},
         sent_on' = Append(sent_on, on), sends' = Append(sends, left)
  PROVE  /\ requests \in Nat /\ requests' = requests + 1 /\ requests' \in 1 .. requests'
         /\ requests' \notin 1 .. requests
         /\ \A id \in 1 .. requests' : id \in 1 .. requests \/ id = requests'
         /\ \A id \in 1 .. requests : id \in 1 .. requests' /\ id # requests'
         /\ promise' \in [1 .. requests' -> {"waiting", "resolved", "rejected"}]
         /\ sent_on' \in [1 .. requests' -> Nat] /\ sends' \in [1 .. requests' -> Nat]
         /\ \A id \in 1 .. requests :
              promise'[id] = promise[id] /\ sent_on'[id] = sent_on[id] /\ sends'[id] = sends[id]
         /\ promise'[requests'] = outcome_ /\ sent_on'[requests'] = on
         /\ sends'[requests'] = left
<1>1. /\ requests' = requests + 1 /\ promise' = Append(promise, outcome_)
      /\ requests \in Nat
      /\ promise \in [1 .. requests -> {"waiting", "resolved", "rejected"}]
      /\ sent_on \in [1 .. requests -> Nat] /\ sends \in [1 .. requests -> Nat]
  BY DEF Client!NewRequest, ClientInv, ClientTypes
<1>2. /\ promise' \in [1 .. (requests + 1) -> {"waiting", "resolved", "rejected"}]
      /\ \A id \in 1 .. requests : promise'[id] = promise[id]
      /\ promise'[requests + 1] = outcome_
  <2>1. promise \in Seq({"waiting", "resolved", "rejected"}) /\ Len(promise) = requests
    BY <1>1, IsASeq
  <2>2. promise' = Append(promise, outcome_) /\ outcome_ \in {"waiting", "resolved", "rejected"}
    BY <1>1
  <2>3. /\ promise' \in Seq({"waiting", "resolved", "rejected"}) /\ Len(promise') = requests + 1
        /\ \A id \in 1 .. requests : promise'[id] = promise[id]
        /\ promise'[requests + 1] = outcome_
    BY ONLY <1>1, <2>1, <2>2
  <2>4. promise' \in [1 .. (requests + 1) -> {"waiting", "resolved", "rejected"}]
    BY <2>3, LenProperties
  <2> QED BY <2>3, <2>4
<1>3. /\ sent_on' \in [1 .. (requests + 1) -> Nat]
      /\ \A id \in 1 .. requests : sent_on'[id] = sent_on[id]
      /\ sent_on'[requests + 1] = on
  <2>1. sent_on \in Seq(Nat) /\ Len(sent_on) = requests
    BY <1>1, IsASeq
  <2>2. sent_on' = Append(sent_on, on) /\ on \in Nat
    BY <1>1
  <2>3. /\ sent_on' \in Seq(Nat) /\ Len(sent_on') = requests + 1
        /\ \A id \in 1 .. requests : sent_on'[id] = sent_on[id]
        /\ sent_on'[requests + 1] = on
    BY ONLY <1>1, <2>1, <2>2
  <2>4. sent_on' \in [1 .. (requests + 1) -> Nat]
    BY <2>3, LenProperties
  <2> QED BY <2>3, <2>4
<1>4. /\ sends' \in [1 .. (requests + 1) -> Nat]
      /\ \A id \in 1 .. requests : sends'[id] = sends[id]
      /\ sends'[requests + 1] = left
  <2>1. sends \in Seq(Nat) /\ Len(sends) = requests
    BY <1>1, IsASeq
  <2>2. sends' = Append(sends, left) /\ left \in Nat
    BY <1>1
  <2>3. /\ sends' \in Seq(Nat) /\ Len(sends') = requests + 1
        /\ \A id \in 1 .. requests : sends'[id] = sends[id]
        /\ sends'[requests + 1] = left
    BY ONLY <1>1, <2>1, <2>2
  <2>4. sends' \in [1 .. (requests + 1) -> Nat]
    BY <2>3, LenProperties
  <2> QED BY <2>3, <2>4
<1>5. /\ requests' \in 1 .. requests' /\ requests' \notin 1 .. requests
      /\ \A id \in 1 .. requests' : id \in 1 .. requests \/ id = requests'
      /\ \A id \in 1 .. requests : id \in 1 .. requests' /\ id # requests'
  BY <1>1
<1> QED BY <1>1, <1>2, <1>3, <1>4, <1>5

\* A request is in flight, or queued, or settled, from the start.
LEMMA RequestsKeepTrack ==
  ASSUME ClientInv, UNCHANGED <<ws, sockets, stranded>>,
         Client!RequestSent \/ Client!RequestQueued \/ Client!RequestRejected
  PROVE  /\ Tracked' /\ requests' \in Nat
         /\ promise' \in [1 .. requests' -> {"waiting", "resolved", "rejected"}]
         /\ sent_on' \in [1 .. requests' -> Nat] /\ sends' \in [1 .. requests' -> Nat]
         /\ client_pending' \subseteq 1 .. requests' /\ client_queue' \in Seq(1 .. requests')
<1>1. PICK outcome_ \in {"waiting", "rejected"}, on \in Nat, left \in {0, 1} :
        /\ Client!NewRequest(outcome_)
        /\ sent_on' = Append(sent_on, on) /\ sends' = Append(sends, left)
        /\ \/ /\ outcome_ = "waiting" /\ status = "connected" /\ on = sockets
              /\ client_pending' = client_pending \cup {requests'}
              /\ client_queue' = client_queue
           \/ /\ outcome_ = "waiting" /\ on = 0 /\ left = 0
              /\ client_queue' = Append(client_queue, requests')
              /\ client_pending' = client_pending
           \/ /\ outcome_ = "rejected" /\ on = 0 /\ left = 0
              /\ UNCHANGED <<client_pending, client_queue>>
  <2>1. sockets \in Nat
    BY DEF ClientInv, ClientTypes
  <2>2. CASE Client!RequestSent
    BY <2>1, <2>2 DEF Client!RequestSent
  <2>3. CASE Client!RequestQueued
    BY <2>3 DEF Client!RequestQueued
  <2>4. CASE Client!RequestRejected
    BY <2>4 DEF Client!RequestRejected
  <2> QED BY <2>2, <2>3, <2>4
<1>2. /\ requests \in Nat /\ requests' = requests + 1 /\ requests' \in 1 .. requests'
      /\ requests' \notin 1 .. requests
      /\ \A id \in 1 .. requests' : id \in 1 .. requests \/ id = requests'
      /\ \A id \in 1 .. requests : id \in 1 .. requests' /\ id # requests'
      /\ promise' \in [1 .. requests' -> {"waiting", "resolved", "rejected"}]
      /\ sent_on' \in [1 .. requests' -> Nat] /\ sends' \in [1 .. requests' -> Nat]
      /\ \A id \in 1 .. requests :
           promise'[id] = promise[id] /\ sent_on'[id] = sent_on[id] /\ sends'[id] = sends[id]
      /\ promise'[requests'] = outcome_ /\ sent_on'[requests'] = on
      /\ sends'[requests'] = left
  BY <1>1, OneRequestMore
<1>3. /\ Queued \subseteq 1 .. requests /\ client_pending \subseteq 1 .. requests
      /\ client_queue \in Seq(1 .. requests')
      /\ Queued = {client_queue[i] : i \in 1 .. Len(client_queue)}
      /\ \A i, j \in 1 .. Len(client_queue) : client_queue[i] = client_queue[j] => i = j
  <2>1. 1 .. requests \subseteq 1 .. requests'
    BY <1>2
  <2>2. client_queue \in Seq(1 .. requests)
    BY DEF ClientInv, ClientTypes
  <2>3. client_queue \in Seq(1 .. requests')
    BY <2>1, <2>2, SeqMonotonic
  <2> QED BY <2>3, QueueOfIds DEF ClientInv, ClientTypes, Tracked
<1>4. /\ client_pending' \subseteq 1 .. requests'
      /\ client_queue' \in Seq(1 .. requests')
      /\ Queued' = IF client_queue' = client_queue THEN Queued ELSE Queued \cup {requests'}
      /\ \A i, j \in DOMAIN client_queue' : client_queue'[i] = client_queue'[j] => i = j
  <2>1. CASE client_queue' = client_queue
    <3>1. Queued' = Queued
      BY <2>1 DEF Queued
    <3>2. client_pending' \subseteq 1 .. requests'
      BY <1>1, <1>2, <1>3
    <3> QED BY <1>3, <2>1, <3>1, <3>2
  <2>2. CASE client_queue' = Append(client_queue, requests') /\ client_pending' = client_pending
    <3>1. /\ client_queue' \in Seq(1 .. requests') /\ Len(client_queue') = Len(client_queue) + 1
          /\ \A i \in 1 .. Len(client_queue) : client_queue'[i] = client_queue[i]
          /\ client_queue'[Len(client_queue) + 1] = requests'
      BY ONLY <1>2, <1>3, <2>2
    <3>2. Len(client_queue) \in Nat /\ DOMAIN client_queue' = 1 .. (Len(client_queue) + 1)
      BY <1>3, <3>1
    <3>3. Queued' = {client_queue'[i] : i \in 1 .. (Len(client_queue) + 1)}
      BY <3>2 DEF Queued, Client!ToSet
    <3>4. Queued' = Queued \cup {requests'}
      BY <1>3, <3>1, <3>2, <3>3
    <3>5. client_queue' # client_queue
      BY <3>1, <3>2
    <3>6. \A i \in 1 .. Len(client_queue) : client_queue[i] # requests'
      BY <1>2, <1>3
    <3>7. \A i, j \in DOMAIN client_queue' : client_queue'[i] = client_queue'[j] => i = j
      BY <1>3, <3>1, <3>2, <3>6
    <3> QED BY <1>2, <1>3, <2>2, <3>1, <3>4, <3>5, <3>7
  <2> QED BY <1>1, <2>1, <2>2
<1>5. \A id \in 1 .. requests' : promise'[id] = "waiting" <=> id \in client_pending' \cup Queued'
  <2>1. ASSUME NEW id \in 1 .. requests
        PROVE  promise'[id] = "waiting" <=> id \in client_pending' \cup Queued'
    BY <1>1, <1>2, <1>4 DEF ClientInv, Tracked
  <2>2. promise'[requests'] = "waiting" <=> requests' \in client_pending' \cup Queued'
    BY <1>1, <1>2, <1>3, <1>4
  <2> QED BY <1>2, <2>1, <2>2
<1>6. client_pending' \cap Queued' = {}
  BY <1>1, <1>2, <1>3, <1>4 DEF ClientInv, Tracked
<1>7. \A id \in client_pending' \ stranded' : ws' # "none" /\ sent_on'[id] = sockets'
  <2>1. ASSUME NEW id \in client_pending \ stranded
        PROVE  ws # "none" /\ sent_on'[id] = sockets
    BY <1>2, <1>3 DEF ClientInv, Tracked
  <2>2. status = "connected" => ws # "none"
    BY DEF ClientInv, LinkInv
  <2> QED BY <1>1, <1>2, <2>1, <2>2
<1>8. \A id \in 1 .. requests' : sends'[id] <= 1
  <2>1. \A id \in 1 .. requests : sends'[id] <= 1
    BY <1>2 DEF ClientInv, Tracked
  <2>2. sends'[requests'] <= 1
    BY <1>2
  <2> QED BY <1>2, <2>1, <2>2
<1>9. \A id \in Queued' : sends'[id] = 0
  BY <1>1, <1>2, <1>3, <1>4 DEF ClientInv, Tracked
<1>10. Tracked'
  BY <1>4, <1>5, <1>6, <1>7, <1>8, <1>9 DEF Tracked
<1> QED BY <1>2, <1>4, <1>10

\* request, and the heartbeat's own.
LEMMA RequestsKeepClient ==
  ASSUME ClientInv, Client!Request \/ Client!HeartbeatTick
  PROVE  ClientInv'
<1>1. /\ Client!RequestSent \/ Client!RequestQueued \/ Client!RequestRejected
      /\ UNCHANGED <<auto_reconnect, heartbeat_enabled, status, ws, sockets, revoked,
                     superseded, stays_down, reconnect_timeout, heartbeat_timer, stranded>>
  BY DEF Client!Request, Client!HeartbeatTick, Client!policy_vars, Client!link_vars,
     Client!timer_vars
<1>2. /\ Tracked' /\ requests' \in Nat
      /\ promise' \in [1 .. requests' -> {"waiting", "resolved", "rejected"}]
      /\ sent_on' \in [1 .. requests' -> Nat] /\ sends' \in [1 .. requests' -> Nat]
      /\ client_pending' \subseteq 1 .. requests' /\ client_queue' \in Seq(1 .. requests')
  BY <1>1, RequestsKeepTrack
<1>3. ClientTypes'
  BY <1>1, <1>2 DEF ClientInv, ClientTypes
<1>4. LinkInv'
  <2>1. revoked => UNCHANGED <<client_pending, client_queue>>
    BY <1>1 DEF ClientInv, LinkInv, Client!RequestSent, Client!RequestQueued,
       Client!RequestRejected
  <2> QED BY <1>1, <2>1 DEF ClientInv, LinkInv
<1> QED BY <1>2, <1>3, <1>4 DEF ClientInv

\* An abort or an answer settles a request, which is then neither in flight nor queued.
LEMMA SettlingKeepsClient ==
  ASSUME ClientInv, NEW id \in 1 .. requests, Client!Abort(id) \/ Client!HandleMessage(id)
  PROVE  ClientInv'
<1>1. PICK what \in {"resolved", "rejected"} :
        /\ promise' = [promise EXCEPT ![id] = what] /\ client_pending' = client_pending \ {id}
        /\ client_queue' = Client!RemoveFirst(client_queue, id)
             \/ (client_queue' = client_queue /\ id \in client_pending)
  BY DEF Client!Abort, Client!HandleMessage
<1>2. UNCHANGED <<auto_reconnect, heartbeat_enabled, status, ws, sockets, revoked, superseded,
                  stays_down, reconnect_timeout, heartbeat_timer, requests, sent_on, sends,
                  stranded>>
  BY DEF Client!Abort, Client!HandleMessage, Client!policy_vars, Client!link_vars,
     Client!timer_vars
<1>3. /\ client_queue' \in Seq(1 .. requests) /\ Queued' = Queued \ {id}
      /\ \A i, j \in DOMAIN client_queue' : client_queue'[i] = client_queue'[j] => i = j
  <2>1. CASE client_queue' = Client!RemoveFirst(client_queue, id)
    BY <2>1, DroppedFromTheQueue DEF Queued
  <2>2. CASE client_queue' = client_queue /\ id \in client_pending
    <3>1. Queued' = Queued /\ id \notin Queued
      BY <2>2 DEF Queued, ClientInv, Tracked
    <3> QED BY <2>2, <3>1 DEF ClientInv, ClientTypes, Tracked
  <2> QED BY <1>1, <2>1, <2>2
<1>4. /\ promise' \in [1 .. requests -> {"waiting", "resolved", "rejected"}]
      /\ promise'[id] # "waiting"
      /\ \A other \in (1 .. requests) \ {id} : promise'[other] = promise[other]
  BY <1>1 DEF ClientInv, ClientTypes
<1>5. ClientTypes'
  BY <1>1, <1>2, <1>3, <1>4 DEF ClientInv, ClientTypes
<1>6. LinkInv'
  <2>1. revoked => client_queue' = <<>>
    <3>1. ASSUME revoked PROVE Queued' = {}
      BY <1>3, <3>1 DEF ClientInv, LinkInv, Queued, Client!ToSet
    <3>2. ASSUME Queued' = {} PROVE client_queue' = <<>>
      <4>1. DOMAIN client_queue' = {}
        BY <3>2 DEF Queued, Client!ToSet
      <4> QED BY <1>3, <4>1, EmptySeq, LenProperties
    <3> QED BY <3>1, <3>2
  <2> QED BY <1>1, <1>2, <2>1 DEF ClientInv, LinkInv
<1>7. Tracked'
  <2>1. \A i \in 1 .. requests : promise'[i] = "waiting" <=> i \in client_pending' \cup Queued'
    BY <1>1, <1>3, <1>4 DEF ClientInv, Tracked
  <2>2. client_pending' \cap Queued' = {}
    BY <1>1, <1>3 DEF ClientInv, Tracked
  <2>3. /\ \A i \in client_pending' \ stranded' : ws' # "none" /\ sent_on'[i] = sockets'
        /\ \A i \in 1 .. requests' : sends'[i] <= 1
        /\ \A i \in Queued' : sends'[i] = 0
    BY <1>1, <1>2, <1>3 DEF ClientInv, Tracked
  <2> QED BY <1>2, <1>3, <2>1, <2>2, <2>3 DEF Tracked
<1> QED BY <1>5, <1>6, <1>7 DEF ClientInv

\* open: what was queued is in flight on the new socket, sent once, or rejected.
LEMMA OpenKeepsClient ==
  ASSUME ClientInv, Client!HandleOpen
  PROVE  ClientInv'
<1>1. PICK refused \in SUBSET Queued :
        /\ Client!Reject(refused)
        /\ client_pending' = client_pending \cup (Queued \ refused)
        /\ sent_on' = [id \in 1 .. requests |->
                         IF id \in Queued \ refused THEN sockets ELSE sent_on[id]]
        /\ sends' = [id \in 1 .. requests |->
                       IF id \in Queued \ refused THEN sends[id] + 1 ELSE sends[id]]
  BY DEF Client!HandleOpen, Queued, Client!Made
<1>2. /\ ws = "connecting" /\ ws' = "open" /\ status' = "connected"
      /\ reconnect_timeout' = FALSE /\ heartbeat_timer' = heartbeat_enabled
      /\ client_queue' = <<>>
      /\ UNCHANGED <<auto_reconnect, heartbeat_enabled, sockets, revoked, superseded,
                     stays_down, requests, stranded>>
  BY DEF Client!HandleOpen, Client!policy_vars
<1>3. promise' = [id \in 1 .. requests |-> IF id \in refused THEN "rejected" ELSE promise[id]]
  BY <1>1 DEF Client!Reject, Client!Made
<1>4. Queued' = {}
  BY <1>2 DEF Queued, Client!ToSet
<1>5. Queued \subseteq 1 .. requests
  BY QueueOfIds DEF ClientInv
<1>6. /\ promise' \in [1 .. requests -> {"waiting", "resolved", "rejected"}]
      /\ sent_on' \in [1 .. requests -> Nat] /\ sends' \in [1 .. requests -> Nat]
      /\ client_pending' \subseteq 1 .. requests
  <2>1. /\ sockets \in Nat /\ promise \in [1 .. requests -> {"waiting", "resolved", "rejected"}]
        /\ sent_on \in [1 .. requests -> Nat] /\ sends \in [1 .. requests -> Nat]
        /\ client_pending \subseteq 1 .. requests
    BY DEF ClientInv, ClientTypes
  <2>2. \A id \in 1 .. requests : sends[id] \in Nat /\ sends[id] + 1 \in Nat
    BY <2>1
  <2>3. sends' \in [1 .. requests -> Nat]
    BY <1>1, <2>2
  <2>4. sent_on' \in [1 .. requests -> Nat]
    BY <1>1, <2>1
  <2>5. promise' \in [1 .. requests -> {"waiting", "resolved", "rejected"}]
    BY <1>3, <2>1
  <2> QED BY <1>1, <1>5, <2>1, <2>3, <2>4, <2>5
<1>7. ClientTypes'
  <2>1. client_queue' \in Seq(1 .. requests)
    BY <1>2, EmptySeq
  <2>2. reconnect_timeout' \in BOOLEAN
    BY <1>2
  <2> QED BY <1>2, <1>6, <2>1, <2>2 DEF ClientInv, ClientTypes
<1>8. LinkInv'
  <2>1. ~stays_down /\ ~revoked
    BY <1>2 DEF ClientInv, LinkInv
  <2> QED BY <1>2, <2>1 DEF LinkInv
<1>9. Tracked'
  <2>1. \A id \in 1 .. requests : promise'[id] = "waiting" <=> id \in client_pending'
    BY <1>1, <1>3 DEF ClientInv, Tracked
  <2>2. \A id \in client_pending' \ stranded : sent_on'[id] = sockets
    BY <1>1, <1>5, <1>6 DEF ClientInv, Tracked
  <2>3. \A id \in 1 .. requests : sends'[id] <= 1
    <3>1. \A id \in 1 .. requests : sends[id] \in Nat /\ sends[id] <= 1
      BY DEF ClientInv, ClientTypes, Tracked
    <3>2. \A id \in Queued : sends[id] = 0
      BY DEF ClientInv, Tracked
    <3> QED BY <1>1, <3>1, <3>2
  <2>4. \A i, j \in DOMAIN client_queue' : client_queue'[i] = client_queue'[j] => i = j
    BY <1>2
  <2> QED BY <1>2, <1>4, <2>1, <2>2, <2>3, <2>4 DEF Tracked
<1> QED BY <1>7, <1>8, <1>9 DEF ClientInv

\* No request was made.
LEMMA ClientBegins == Client!ClientInit => ClientInv
<1> SUFFICES ASSUME Client!ClientInit PROVE ClientInv
  OBVIOUS
<1> USE DEF Client!ClientInit
<1>1. promise \in [1 .. requests -> {"waiting", "resolved", "rejected"}]
      /\ sent_on \in [1 .. requests -> Nat] /\ sends \in [1 .. requests -> Nat]
      /\ client_queue \in Seq(1 .. requests)
  <2>1. 1 .. requests = {} /\ <<>> \in Seq({}) /\ Len(<<>>) = 0
    BY EmptySeq
  <2>2. <<>> \in Seq(1 .. requests) /\ <<>> \in Seq(Nat)
        /\ <<>> \in Seq({"waiting", "resolved", "rejected"})
    BY EmptySeq
  <2>3. 1 .. 0 = 1 .. requests
    OBVIOUS
  <2> QED BY <2>1, <2>2, <2>3, LenProperties
<1>2. ClientTypes
  BY <1>1 DEF ClientTypes
<1>3. LinkInv
  BY DEF LinkInv
<1>4. Tracked
  BY DEF Tracked, Queued, Client!ToSet
<1> QED BY <1>2, <1>3, <1>4 DEF ClientInv

\* Every method, timer and event of the client keeps the invariant.
LEMMA ClientStep ==
  ASSUME ClientInv, Client!ClientNext
  PROVE  ClientInv'
<1>1. \/ Client!Connect \/ Client!ReconnectFires \/ Client!Disconnect
      \/ \E auto \in BOOLEAN : Client!SetReconnect(auto)
      \/ \E enabled \in BOOLEAN : Client!SetHeartbeat(enabled)
      \/ Client!CancelReconnect \/ Client!Request
      \/ \E id \in 1 .. requests : Client!Abort(id) \/ Client!HandleMessage(id)
      \/ Client!HeartbeatTick \/ Client!HeartbeatTimeout \/ Client!HandleOpen
      \/ Client!SocketCloses \/ Client!HandleSessionRevoked \/ Client!HandleConnectionLimit
      \/ Client!HandlePermissionRevoked \/ Client!HandleClose
  BY DEF Client!ClientNext, Client!Made
<1>2. Client!ReconnectFires => Client!Connect
  BY DEF Client!ReconnectFires
<1> QED
  BY <1>1, <1>2, PoliciesKeepClient, ClosesKeepClient, ConnectKeepsClient, RequestsKeepClient,
     SettlingKeepsClient, OpenKeepsClient

\* The steps of the other parts leave it alone.
LEMMA ClientStutters ==
  ASSUME ClientInv, UNCHANGED client_vars
  PROVE  ClientInv'
<1>1. UNCHANGED request_facts /\ stranded' = stranded /\ ws' = ws /\ sockets' = sockets
  BY DEF client_vars, request_facts
<1>2. Tracked'
  <2>1. \A id \in client_pending \ stranded : ws # "none"
    BY DEF ClientInv, Tracked
  <2> QED BY <1>1, <2>1, NothingIsLost
<1>3. ClientTypes'
  BY DEF client_vars, ClientInv, ClientTypes
<1>4. LinkInv'
  BY DEF client_vars, ClientInv, LinkInv
<1> QED BY <1>2, <1>3, <1>4 DEF ClientInv

(***************************************************************************)
(* A request that is unsettled is in flight or queued, once, and nothing   *)
(* settled is either; what is in flight is so on the current socket, or    *)
(* was stranded with a closing one; no frame leaves twice; and a client    *)
(* told to stay down does.  For any number of requests and sockets, and a  *)
(* queue of any size (actions/socket.svelte.ts).                           *)
(***************************************************************************)
THEOREM RequestsAreNotLost == SocketsParts => []EveryRequestIsTracked
<1>1. SocketsInit => ClientInv
  BY ClientBegins DEF SocketsInit
<1>2. ClientInv /\ [SocketsNext]_sockets_vars => ClientInv'
  <2> SUFFICES ASSUME ClientInv, [SocketsNext]_sockets_vars
               PROVE  ClientInv'
    OBVIOUS
  <2>1. Client!ClientNext \/ UNCHANGED client_vars
    BY DEF SocketsNext, sockets_vars
  <2> QED BY <2>1, ClientStep, ClientStutters
<1>3. ClientInv => EveryRequestIsTracked
  BY DEF ClientInv, LinkInv, Tracked, Queued, EveryRequestIsTracked,
     Client!EveryRequestIsTracked, Client!DownUntilAsked, Client!Made
<1> QED BY <1>1, <1>2, <1>3, PTL DEF SocketsParts

-----------------------------------------------------------------------------
(***************************************************************************)
(* The frames of a socket.  A frame is handled after all that came before; *)
(* the controller of each running request is the one under its id; and the *)
(* outbox has an answer of each request that is done with, one, while the  *)
(* socket is open.                                                         *)
(***************************************************************************)
HandlerRows == [at : {"running", "flushing"}, awaits : Nat]
Sends == [kind : {"reply", "error", "close"}, to : Nat]

Done == Session!Range(dispatched)
Came == 1 .. Len(frames)
RunningNow == {n \in DOMAIN handler : handler[n].at = "running"}
OpenNow == phase = "open" /\ registration[Socket] = "admitted"

SessionTypes ==
  /\ registration \in [{Socket} -> {"pending", "admitted", "gone"}] /\ next_id \in Nat
  /\ phase \in {"opening", "open", "ended"}
  /\ frames \in Seq(Session!FrameKinds)
  /\ queued_frames \in Seq(Nat) /\ draining \in Seq(Nat) /\ dispatched \in Seq(Nat)
  /\ handler \in [DOMAIN handler -> HandlerRows]
  /\ outbox \in Seq(Sends)

Ascends(s) == \A i, j \in DOMAIN s : i < j => s[i] < s[j]

FramesInOrder ==
  /\ Ascends(dispatched) /\ Ascends(draining) /\ Ascends(queued_frames)
  /\ Done \cup Session!Range(draining) \cup Session!Range(queued_frames) \cup settled \subseteq Came
  /\ \A m \in Done, n \in Session!Range(draining) : m < n
  /\ phase = "opening" => draining = <<>> /\ dispatched = <<>> /\ settled = {} /\ outbox = <<>>
  /\ phase # "opening" => queued_frames = <<>>

ControllersAreTheirs ==
  /\ DOMAIN handler \subseteq Done /\ cancelled \subseteq Done
  /\ \A n \in RunningNow : /\ frames[n].id \in DOMAIN pending_controllers
                           /\ pending_controllers[frames[n].id] = n
  /\ \A id \in DOMAIN pending_controllers :
       pending_controllers[id] \in RunningNow /\ frames[pending_controllers[id]].id = id
  /\ \A n \in RunningNow :
       n \in cancelled <=>
         \E m \in Done : m > n /\ frames[m] = [kind |-> "cancel", id |-> frames[n].id]

IsAnswer(e) == e.kind # "close"
Answered(o) == {o[i].to : i \in {j \in DOMAIN o : IsAnswer(o[j])}}

SentOnce(o) ==
  /\ \A i, j \in DOMAIN o :
       IsAnswer(o[i]) /\ IsAnswer(o[j]) /\ o[i].to = o[j].to /\ o[i].to # 0 => i = j
  /\ \A i \in DOMAIN o :
       o[i].kind = "close" /\ o[i].to # 0
         => i > 1 /\ o[i - 1] = [kind |-> "reply", to |-> o[i].to]

AnswersSoFar ==
  /\ SentOnce(outbox)
  /\ Answered(outbox) \subseteq {0} \cup (Done \ RunningNow)
  /\ OpenNow => \A n \in Came : frames[n].kind = "request" =>
       /\ n \in Done \ RunningNow => n \in Answered(outbox)
       /\ n \in settled <=> n \in Done \ DOMAIN handler

SessionInv == SessionTypes /\ FramesInOrder /\ ControllersAreTheirs /\ AnswersSoFar

\* A sequence with one more member.
LEMMA OneMore ==
  ASSUME NEW S, NEW s \in Seq(S), NEW e \in S
  PROVE  /\ Append(s, e) \in Seq(S) /\ Len(Append(s, e)) = Len(s) + 1 /\ Len(s) \in Nat
         /\ DOMAIN s = 1 .. Len(s)
         /\ DOMAIN Append(s, e) = 1 .. (Len(s) + 1)
         /\ Append(s, e)[Len(s) + 1] = e
         /\ \A i \in 1 .. Len(s) : Append(s, e)[i] = s[i]
         /\ Session!Range(Append(s, e)) = Session!Range(s) \cup {e}
<1>1. /\ Len(s) \in Nat /\ DOMAIN s = 1 .. Len(s)
  BY LenProperties
<1>2. /\ Append(s, e) \in Seq(S) /\ Len(Append(s, e)) = Len(s) + 1
      /\ \A i \in 1 .. Len(s) : Append(s, e)[i] = s[i]
      /\ Append(s, e)[Len(s) + 1] = e
  BY AppendProperties
<1>3. DOMAIN Append(s, e) = 1 .. (Len(s) + 1)
  BY <1>2, LenProperties
<1>4. PICK t : t = Append(s, e)
  OBVIOUS
<1>5. Session!Range(t) = Session!Range(s) \cup {e}
  <2>1. DOMAIN t = 1 .. (Len(s) + 1) /\ t[Len(s) + 1] = e /\ \A i \in 1 .. Len(s) : t[i] = s[i]
    BY <1>2, <1>3, <1>4
  <2>2. 1 .. (Len(s) + 1) = (1 .. Len(s)) \cup {Len(s) + 1}
    BY <1>1
  <2> QED BY ONLY <1>1, <2>1, <2>2 DEF Session!Range
<1> QED BY <1>1, <1>2, <1>3, <1>4, <1>5

\* Frames that came before the one that is added.
LEMMA OneMoreAscends ==
  ASSUME NEW s \in Seq(Nat), NEW e \in Nat, Ascends(s), \A n \in Session!Range(s) : n < e
  PROVE  Ascends(Append(s, e))
<1>1. /\ Len(s) \in Nat /\ DOMAIN s = 1 .. Len(s) /\ DOMAIN Append(s, e) = 1 .. (Len(s) + 1)
      /\ Append(s, e)[Len(s) + 1] = e /\ \A i \in 1 .. Len(s) : Append(s, e)[i] = s[i]
  BY OneMore
<1>2. PICK t, k : t = Append(s, e) /\ k = Len(s)
  OBVIOUS
<1>3. \A i \in 1 .. k : s[i] < e
  BY <1>1, <1>2 DEF Session!Range
<1>4. \A i \in 1 .. k : s[i] \in Nat
  BY <1>1, <1>2, ElementOfSeq
<1>5. /\ k \in Nat /\ DOMAIN s = 1 .. k /\ DOMAIN t = 1 .. (k + 1)
      /\ t[k + 1] = e /\ \A i \in 1 .. k : t[i] = s[i]
  BY <1>1, <1>2
<1>6. \A i, j \in 1 .. k : i < j => s[i] < s[j]
  BY <1>5 DEF Ascends
<1>7. ASSUME NEW i \in 1 .. (k + 1), NEW j \in 1 .. (k + 1), i < j PROVE t[i] < t[j]
  <2>1. i \in 1 .. k
    BY ONLY <1>5, <1>7
  <2>2. j \in 1 .. k \/ j = k + 1
    BY ONLY <1>5
  <2> QED BY ONLY <1>3, <1>5, <1>6, <1>7, <2>1, <2>2
<1> QED BY <1>2, <1>5, <1>7 DEF Ascends

\* What is next to be dispatched, and the rest.
LEMMA TheRest ==
  ASSUME NEW s \in Seq(Nat), s # <<>>, Ascends(s)
  PROVE  /\ Tail(s) \in Seq(Nat) /\ Ascends(Tail(s))
         /\ Head(s) \in Session!Range(s) /\ Head(s) \in Nat
         /\ Session!Range(Tail(s)) \subseteq Session!Range(s)
         /\ \A n \in Session!Range(Tail(s)) : Head(s) < n
<1>1. /\ Head(s) \in Nat /\ Tail(s) \in Seq(Nat) /\ Len(Tail(s)) = Len(s) - 1
      /\ \A i \in 1 .. Len(Tail(s)) : Tail(s)[i] = s[i + 1]
      /\ Head(s) = s[1]
  BY HeadTailProperties
<1>2. /\ Len(s) \in Nat /\ Len(s) # 0 /\ DOMAIN s = 1 .. Len(s)
      /\ DOMAIN Tail(s) = 1 .. Len(Tail(s))
  BY <1>1, LenProperties, EmptySeq
<1>3. PICK t, k, h : t = Tail(s) /\ k = Len(s) /\ h = Head(s)
  OBVIOUS
<1>4. /\ k \in Nat /\ k # 0 /\ DOMAIN s = 1 .. k /\ DOMAIN t = 1 .. (k - 1)
      /\ h = s[1] /\ \A i \in 1 .. (k - 1) : t[i] = s[i + 1]
  BY <1>1, <1>2, <1>3
<1>5. \A i, j \in 1 .. k : i < j => s[i] < s[j]
  BY <1>4 DEF Ascends
<1>6. \A i \in 1 .. (k - 1) : i + 1 \in 1 .. k /\ 1 < i + 1
  BY ONLY <1>4
<1>7. Ascends(t)
  BY ONLY <1>4, <1>5, <1>6 DEF Ascends
<1>8. h \in Session!Range(s) /\ Session!Range(t) \subseteq Session!Range(s)
  <2>1. 1 \in 1 .. k
    BY ONLY <1>4
  <2>2. h \in Session!Range(s)
    BY ONLY <1>4, <2>1 DEF Session!Range
  <2>3. ASSUME NEW i \in 1 .. (k - 1) PROVE t[i] \in Session!Range(s)
    BY ONLY <1>4, <1>6, <2>3 DEF Session!Range
  <2> QED BY ONLY <1>4, <2>2, <2>3 DEF Session!Range
<1>9. \A n \in Session!Range(t) : h < n
  BY ONLY <1>4, <1>5, <1>6 DEF Session!Range
<1> QED BY <1>1, <1>3, <1>7, <1>8, <1>9

\* One thing more is sent: what answers has nobody else's answer, and a close that was asked
\* for follows the reply.
LEMMA OneMoreSent ==
  ASSUME NEW o \in Seq(Sends), SentOnce(o), NEW e \in Sends,
         IsAnswer(e) /\ e.to # 0 => e.to \notin Answered(o),
         e.kind = "close" /\ e.to # 0 =>
           Len(o) > 0 /\ o[Len(o)] = [kind |-> "reply", to |-> e.to]
  PROVE  /\ Append(o, e) \in Seq(Sends) /\ SentOnce(Append(o, e))
         /\ Answered(Append(o, e)) = Answered(o) \cup (IF IsAnswer(e) THEN {e.to} ELSE {})
<1>1. /\ Append(o, e) \in Seq(Sends) /\ Len(o) \in Nat /\ DOMAIN o = 1 .. Len(o)
      /\ DOMAIN Append(o, e) = 1 .. (Len(o) + 1) /\ Append(o, e)[Len(o) + 1] = e
      /\ \A i \in 1 .. Len(o) : Append(o, e)[i] = o[i]
  BY OneMore
<1>2. PICK t, k : t = Append(o, e) /\ k = Len(o)
  OBVIOUS
<1>3. /\ k \in Nat /\ DOMAIN o = 1 .. k /\ DOMAIN t = 1 .. (k + 1) /\ t[k + 1] = e
      /\ \A i \in 1 .. k : t[i] = o[i]
  BY <1>1, <1>2
<1>4. \A i \in 1 .. (k + 1) : i \in 1 .. k \/ i = k + 1
  BY ONLY <1>3
<1>5. \A i \in 1 .. k : IsAnswer(o[i]) => o[i].to \in Answered(o)
  BY ONLY <1>3 DEF Answered
<1>6. Answered(t) = Answered(o) \cup (IF IsAnswer(e) THEN {e.to} ELSE {})
  <2>1. k + 1 \in 1 .. (k + 1) /\ \A i \in 1 .. k : i \in 1 .. (k + 1)
    BY ONLY <1>3
  <2> QED BY ONLY <1>3, <1>4, <2>1 DEF Answered
<1>7. ASSUME NEW i \in 1 .. (k + 1), NEW j \in 1 .. (k + 1),
             IsAnswer(t[i]), IsAnswer(t[j]), t[i].to = t[j].to, t[i].to # 0
      PROVE  i = j
  <2>1. CASE i \in 1 .. k /\ j \in 1 .. k
    <3>1. t[i] = o[i] /\ t[j] = o[j]
      BY <1>3, <2>1
    <3> QED BY <1>3, <1>7, <2>1, <3>1 DEF SentOnce
  <2>2. CASE i = k + 1 /\ j \in 1 .. k
    BY <1>3, <1>5, <1>7, <2>2
  <2>3. CASE j = k + 1 /\ i \in 1 .. k
    BY <1>3, <1>5, <1>7, <2>3
  <2> QED BY <1>4, <2>1, <2>2, <2>3
<1>8. ASSUME NEW i \in 1 .. (k + 1), t[i].kind = "close", t[i].to # 0
      PROVE  i > 1 /\ t[i - 1] = [kind |-> "reply", to |-> t[i].to]
  <2>1. CASE i \in 1 .. k
    <3>1. i > 1 /\ o[i - 1] = [kind |-> "reply", to |-> o[i].to]
      <4>1. t[i] = o[i]
        BY <1>3, <2>1
      <4> QED BY <1>3, <1>8, <2>1, <4>1 DEF SentOnce
    <3>2. i - 1 \in 1 .. k
      BY ONLY <1>3, <2>1, <3>1
    <3> QED BY <1>3, <2>1, <3>1, <3>2
  <2>2. CASE i = k + 1
    <3>1. k > 0 /\ o[k] = [kind |-> "reply", to |-> e.to]
      BY <1>2, <1>3, <1>8, <2>2
    <3>2. i > 1 /\ i - 1 = k /\ k \in 1 .. k
      BY ONLY <1>3, <2>2, <3>1
    <3> QED BY <1>3, <2>2, <3>1, <3>2
  <2> QED BY <1>4, <2>1, <2>2
<1>9. SentOnce(t)
  BY <1>3, <1>7, <1>8 DEF SentOnce
<1> QED BY <1>1, <1>2, <1>6, <1>9

\* No frame is forgotten.
FramesGrow ==
  /\ frames' \in Seq(Session!FrameKinds) /\ Came \subseteq Came'
  /\ \A n \in Came : frames'[n] = frames[n]

\* A frame comes.
LEMMA FrameComes ==
  ASSUME SessionInv, NEW f \in Session!FrameKinds, frames' = Append(frames, f)
  PROVE  /\ FramesGrow
         /\ Session!Arriving \in Came' /\ Session!Arriving \in Nat
         /\ Session!Arriving # 0 /\ frames'[Session!Arriving] = f
         /\ \A n \in Came : n < Session!Arriving
<1>1. frames \in Seq(Session!FrameKinds)
  BY DEF SessionInv, SessionTypes
<1>2. /\ frames' \in Seq(Session!FrameKinds) /\ Len(frames') = Len(frames) + 1 /\ Len(frames) \in Nat
      /\ frames'[Len(frames) + 1] = f /\ \A i \in 1 .. Len(frames) : frames'[i] = frames[i]
  BY <1>1, OneMore
<1>3. Session!Arriving = Len(frames) + 1
  BY DEF Session!Arriving
<1> QED BY <1>2, <1>3 DEF FramesGrow, Came

\* Nothing is dispatched, and none of the running requests ends.
LEMMA ControllersStay ==
  ASSUME SessionInv, FramesGrow, UNCHANGED <<dispatched, pending_controllers, cancelled>>,
         DOMAIN handler' = DOMAIN handler, RunningNow' = RunningNow
  PROVE  ControllersAreTheirs'
<1>1. Done \subseteq Came /\ Done' = Done
  BY DEF SessionInv, FramesInOrder, Done
<1>2. DOMAIN handler \subseteq Done /\ RunningNow \subseteq Done
  BY DEF SessionInv, ControllersAreTheirs, RunningNow
<1> QED BY <1>1, <1>2 DEF SessionInv, ControllersAreTheirs, FramesGrow

\* The socket ends, or has ended: nothing is to be answered, and the queue is dropped.
LEMMA SocketEnds ==
  ASSUME SessionInv, FramesGrow,
         UNCHANGED <<dispatched, draining, pending_controllers, cancelled>>,
         handler' \in [DOMAIN handler -> HandlerRows], RunningNow' = RunningNow,
         phase' = "ended", queued_frames' = <<>>,
         registration' \in [{Socket} -> {"pending", "admitted", "gone"}], next_id' \in Nat,
         settled' \subseteq Came', outbox' \in Seq(Sends), SentOnce(outbox'),
         Answered(outbox') \subseteq Answered(outbox) \cup {0}
  PROVE  SessionInv'
<1>1. DOMAIN handler' = DOMAIN handler /\ <<>> \in Seq(Nat)
  BY EmptySeq
<1>2. SessionTypes'
  BY <1>1, EmptySeq DEF SessionInv, SessionTypes, FramesGrow
<1>3. Session!Range(queued_frames') = {} /\ Ascends(queued_frames')
  <2>1. DOMAIN (<<>>) = {}
    OBVIOUS
  <2> QED BY <2>1 DEF Session!Range, Ascends
<1>4. Done' = Done
  BY DEF Done
<1>5. FramesInOrder'
  BY <1>3, <1>4 DEF SessionInv, FramesInOrder, FramesGrow
<1>6. ControllersAreTheirs'
  BY <1>1, ControllersStay
<1>7. AnswersSoFar'
  BY <1>4 DEF SessionInv, AnswersSoFar, OpenNow
<1> QED BY <1>2, <1>5, <1>6, <1>7 DEF SessionInv

\* The ways to end the socket, from inside or by the registry.
LEMMA EndIsEnd ==
  ASSUME SessionInv, NEW sent_, NEW n, NEW done, Session!EndSocket(sent_, n, done)
  PROVE  /\ registration' \in [{Socket} -> {"pending", "admitted", "gone"}] /\ next_id' \in Nat
         /\ phase' = "ended" /\ queued_frames' = <<>>
         /\ settled' = settled \cup done \cup Session!Range(queued_frames)
         /\ outbox' = Append(sent_, [kind |-> "close", to |-> n])
BY DEF Session!EndSocket, Session!Cleanup, Session!Drain, Session!DropQueued, SessionInv,
       SessionTypes

\* A close that no frame asked for, and one after what else is sent.
LEMMA CloseGoesOut ==
  ASSUME NEW o \in Seq(Sends), SentOnce(o)
  PROVE  /\ Append(o, [kind |-> "close", to |-> 0]) \in Seq(Sends)
         /\ SentOnce(Append(o, [kind |-> "close", to |-> 0]))
         /\ Answered(Append(o, [kind |-> "close", to |-> 0])) = Answered(o)
<1> DEFINE e == [kind |-> "close", to |-> 0]
<1>1. e \in Sends /\ ~IsAnswer(e) /\ e.to = 0
  BY DEF Sends, IsAnswer
<1> HIDE DEF e
<1>2. /\ Append(o, e) \in Seq(Sends) /\ SentOnce(Append(o, e))
      /\ Answered(Append(o, e)) = Answered(o) \cup (IF IsAnswer(e) THEN {e.to} ELSE {})
  BY <1>1, OneMoreSent
<1>3. Answered(Append(o, e)) = Answered(o)
  BY <1>1, <1>2
<1> QED BY <1>2, <1>3 DEF e

\* An answer to a frame that has none.
LEMMA AnswerGoesOut ==
  ASSUME NEW o \in Seq(Sends), SentOnce(o), NEW what \in {"reply", "error"}, NEW n \in Nat,
         n = 0 \/ n \notin Answered(o)
  PROVE  LET t == Append(o, [kind |-> what, to |-> n])
         IN  /\ t \in Seq(Sends) /\ SentOnce(t) /\ Answered(t) = Answered(o) \cup {n}
             /\ Len(t) > 0 /\ t[Len(t)] = [kind |-> what, to |-> n]
<1> DEFINE e == [kind |-> what, to |-> n]
<1>1. e \in Sends /\ IsAnswer(e) /\ e.to = n /\ e.kind # "close"
  BY DEF Sends, IsAnswer
<1> HIDE DEF e
<1>2. /\ Append(o, e) \in Seq(Sends) /\ SentOnce(Append(o, e))
      /\ Answered(Append(o, e)) = Answered(o) \cup (IF IsAnswer(e) THEN {e.to} ELSE {})
  BY <1>1, OneMoreSent
<1>3. Answered(Append(o, e)) = Answered(o) \cup {n}
  BY <1>1, <1>2
<1>4. /\ Len(Append(o, e)) = Len(o) + 1 /\ Len(o) \in Nat /\ Append(o, e)[Len(o) + 1] = e
  BY <1>1, OneMore
<1>5. Len(Append(o, e)) > 0 /\ Append(o, e)[Len(Append(o, e))] = e
  BY <1>4
<1> QED BY <1>2, <1>3, <1>5 DEF e

\* A caller that ends its own credential reads the reply, then the close.
LEMMA ReplyThenClose ==
  ASSUME NEW o \in Seq(Sends), SentOnce(o), NEW n \in Nat, n \notin Answered(o)
  PROVE  LET t == Append(Append(o, [kind |-> "reply", to |-> n]), [kind |-> "close", to |-> n])
         IN  t \in Seq(Sends) /\ SentOnce(t) /\ Answered(t) = Answered(o) \cup {n}
<1> DEFINE r == Append(o, [kind |-> "reply", to |-> n])
           e == [kind |-> "close", to |-> n]
<1>1. /\ r \in Seq(Sends) /\ SentOnce(r) /\ Answered(r) = Answered(o) \cup {n}
      /\ Len(r) > 0 /\ r[Len(r)] = [kind |-> "reply", to |-> n]
  BY AnswerGoesOut
<1>2. e \in Sends /\ ~IsAnswer(e) /\ e.to = n
  BY DEF Sends, IsAnswer
<1> HIDE DEF e, r
<1>3. /\ Append(r, e) \in Seq(Sends) /\ SentOnce(Append(r, e))
      /\ Answered(Append(r, e)) = Answered(r) \cup (IF IsAnswer(e) THEN {e.to} ELSE {})
  BY <1>1, <1>2, OneMoreSent
<1>4. Answered(Append(r, e)) = Answered(o) \cup {n}
  BY <1>1, <1>2, <1>3
<1> QED BY <1>3, <1>4 DEF e, r

\* Nothing is dispatched, answered or ended.
LEMMA NothingEnds ==
  ASSUME SessionInv,
         UNCHANGED <<frames, dispatched, draining, queued_frames, pending_controllers, cancelled,
                     settled, phase, outbox>>,
         handler' \in [DOMAIN handler -> HandlerRows], RunningNow' = RunningNow,
         registration' \in [{Socket} -> {"pending", "admitted", "gone"}], next_id' \in Nat,
         OpenNow' => OpenNow
  PROVE  SessionInv'
<1>1. DOMAIN handler' = DOMAIN handler /\ Done' = Done /\ Came' = Came
  BY DEF Done, Came
<1>2. SessionTypes' /\ FramesInOrder'
  BY <1>1 DEF SessionInv, SessionTypes, FramesInOrder
<1>3. FramesGrow
  BY DEF FramesGrow, SessionInv, SessionTypes, Came
<1>4. ControllersAreTheirs'
  BY <1>1, <1>3, ControllersStay
<1>5. AnswersSoFar'
  BY <1>1 DEF SessionInv, AnswersSoFar
<1> QED BY <1>2, <1>4, <1>5 DEF SessionInv

SocketStays == UNCHANGED <<phase, queued_frames, registration, next_id>>

RequestStarts(n, f) ==
  /\ f.kind = "request" /\ f.id \notin DOMAIN pending_controllers
  /\ pending_controllers' = [i \in DOMAIN pending_controllers \cup {f.id} |->
                               IF i = f.id THEN n ELSE pending_controllers[i]]
  /\ handler' = [m \in DOMAIN handler \cup {n} |->
                   IF m = n THEN [at |-> "running", awaits |-> 0] ELSE handler[m]]
  /\ UNCHANGED <<cancelled, outbox, settled>> /\ SocketStays

CancelHandled(n, f) ==
  /\ f.kind = "cancel" /\ UNCHANGED <<pending_controllers, handler, outbox>> /\ SocketStays
  /\ cancelled' = cancelled \cup (IF f.id \in DOMAIN pending_controllers
                                  THEN {pending_controllers[f.id]} ELSE {})
  /\ settled' = settled \cup {n}

FrameSettles(n, f) ==
  /\ f.kind # "cancel" /\ UNCHANGED <<pending_controllers, handler, cancelled>>
  /\ \/ /\ f.kind # "request" /\ UNCHANGED outbox
        /\ settled' = settled \cup {n} /\ SocketStays
     \/ /\ outbox' = Append(outbox, [kind |-> "error", to |-> n])
        /\ settled' = settled \cup {n} /\ SocketStays
     \/ Session!EndSocket(outbox, 0, {n})

\* What a frame is handled as, up to its first await.
LEMMA FrameIsHandled ==
  ASSUME registration[Socket] = "admitted", NEW n, NEW f, Session!HandleFrame(n, f)
  PROVE  /\ dispatched' = Append(dispatched, n)
         /\ RequestStarts(n, f) \/ CancelHandled(n, f) \/ FrameSettles(n, f)
<1>1. dispatched' = Append(dispatched, n)
  BY DEF Session!HandleFrame
<1>2. Session!Admitted
  BY DEF Session!Admitted
<1>3. ASSUME NEW done, Session!Quietly(done) PROVE SocketStays /\ UNCHANGED outbox /\ settled' = settled \cup done
  BY <1>3 DEF Session!Quietly, SocketStays, Session!peer_vars
<1>4. ASSUME f.kind # "cancel", Session!Refused(n) PROVE FrameSettles(n, f)
  <2>1. Session!Answer("error", n, {n}) /\ UNCHANGED <<pending_controllers, handler, cancelled>>
    BY <1>4 DEF Session!Refused, Session!run_vars
  <2>2. \/ /\ outbox' = Append(outbox, [kind |-> "error", to |-> n])
           /\ settled' = settled \cup {n} /\ SocketStays
        \/ Session!EndSocket(outbox, 0, {n})
    BY <1>2, <2>1 DEF Session!Answer, Session!Sent, SocketStays, Session!peer_vars
  <2> QED BY <1>4, <2>1, <2>2 DEF FrameSettles
<1>5. CASE f.kind = "invalid" /\ Session!Refused(n)
  BY <1>1, <1>4, <1>5
<1>6. CASE f.kind = "response" /\ Session!HandleResponse(n, f.id)
  <2>1. /\ settled' = settled \cup {n} /\ UNCHANGED outbox
        /\ UNCHANGED <<pending_controllers, handler, cancelled>>
        /\ SocketStays
    BY <1>6 DEF Session!HandleResponse, Session!run_vars, Session!ResolvePeerResponse, SocketStays,
                Session!peer_vars
  <2> QED BY <1>1, <1>6, <2>1 DEF FrameSettles
<1>7. CASE f.kind = "cancel" /\ Session!HandleCancel(n, f.id)
  BY <1>1, <1>3, <1>7 DEF Session!HandleCancel, CancelHandled, Session!Live
<1>8. CASE f.kind = "request" /\ Session!HandleRequest(n, f.id)
  <2>1. CASE Session!Refused(n)
    BY <1>1, <1>4, <1>8, <2>1
  <2>2. CASE ~Session!Refused(n)
    <3>1. /\ ~Session!Duplicate(f.id) /\ UNCHANGED cancelled /\ Session!Quietly({})
          /\ pending_controllers' = [i \in DOMAIN pending_controllers \cup {f.id} |->
                                       IF i = f.id THEN n ELSE pending_controllers[i]]
          /\ handler' = [m \in DOMAIN handler \cup {n} |->
                           IF m = n THEN [at |-> "running", awaits |-> 0] ELSE handler[m]]
      BY <1>8, <2>2 DEF Session!HandleRequest
    <3>2. SocketStays /\ UNCHANGED outbox /\ settled' = settled
      BY <1>3, <3>1
    <3> QED BY <1>1, <1>8, <3>1, <3>2 DEF RequestStarts, Session!Duplicate, Session!Live
  <2> QED BY <2>1, <2>2
<1> QED BY <1>5, <1>6, <1>7, <1>8 DEF Session!HandleFrame

\* A frame is dispatched, of those that wait or as it comes.
Dispatches(n) ==
  /\ registration[Socket] = "admitted" /\ phase # "opening"
  /\ FramesGrow /\ Came' = Came \cup {n} /\ n \in Nat \ {0}
  /\ Session!HandleFrame(n, frames'[n])
  /\ \A m \in Done : m < n
  /\ OpenNow /\ frames'[n].kind = "request" => n \notin settled
  /\ draining' \in Seq(Nat) /\ Ascends(draining') /\ Session!Range(draining') \subseteq Came'
  /\ \A m \in Session!Range(draining') : n < m

\* It is the last of those dispatched, and was not among them.
LEMMA DispatchedLast ==
  ASSUME SessionInv, NEW n, Dispatches(n)
  PROVE  /\ dispatched' \in Seq(Nat) /\ Ascends(dispatched')
         /\ Done' = Done \cup {n} /\ n \notin Done /\ n \in Came'
<1>1. dispatched' = Append(dispatched, n) /\ n \in Nat /\ dispatched \in Seq(Nat)
  BY FrameIsHandled DEF Dispatches, SessionInv, SessionTypes
<1>2. dispatched' \in Seq(Nat) /\ Session!Range(dispatched') = Session!Range(dispatched) \cup {n}
  BY <1>1, OneMore
<1>3. Ascends(dispatched')
  BY <1>1, OneMoreAscends DEF Dispatches, Done, SessionInv, FramesInOrder
<1>4. Done \subseteq Came /\ \A m \in Done : m # n
  BY <1>1 DEF Dispatches, SessionInv, FramesInOrder, Came
<1> QED BY <1>2, <1>3, <1>4 DEF Done, Dispatches

\* In order: what is dispatched came after all that was.
LEMMA DispatchInOrder ==
  ASSUME SessionInv, NEW n, Dispatches(n)
  PROVE  SessionTypes' /\ FramesInOrder'
<1>1. /\ dispatched' \in Seq(Nat) /\ Ascends(dispatched')
      /\ Done' = Done \cup {n} /\ n \notin Done /\ n \in Came' /\ n \in Nat
  BY DispatchedLast DEF Dispatches
<1>2. RequestStarts(n, frames'[n]) \/ CancelHandled(n, frames'[n]) \/ FrameSettles(n, frames'[n])
  BY FrameIsHandled DEF Dispatches
<1>3. queued_frames = <<>> /\ Session!Range(<<>>) = {} /\ phase # "opening" /\ <<>> \in Seq(Nat)
  <2>1. DOMAIN (<<>>) = {}
    OBVIOUS
  <2>2. Session!Range(<<>>) = {}
    BY <2>1 DEF Session!Range
  <2> QED BY <2>2, EmptySeq DEF Dispatches, SessionInv, FramesInOrder
<1>4. /\ queued_frames' = <<>> /\ phase' \in {"open", "ended"} /\ next_id' \in Nat
      /\ registration' \in [{Socket} -> {"pending", "admitted", "gone"}]
      /\ settled' \subseteq settled \cup {n}
  <2>1. CASE SocketStays
    BY <1>2, <1>3, <2>1 DEF SocketStays, SessionInv, SessionTypes, RequestStarts, CancelHandled,
       FrameSettles, Session!EndSocket, Session!DropQueued
  <2>2. CASE Session!EndSocket(outbox, 0, {n})
    BY <1>3, <2>2, EndIsEnd
  <2> QED BY <1>2, <2>1, <2>2 DEF RequestStarts, CancelHandled, FrameSettles
<1>5. outbox' \in Seq(Sends)
  <2>1. outbox \in Seq(Sends) /\ [kind |-> "error", to |-> n] \in Sends
        /\ [kind |-> "close", to |-> 0] \in Sends
    BY <1>1 DEF SessionInv, SessionTypes, Sends
  <2>2. \/ outbox' = outbox \/ outbox' = Append(outbox, [kind |-> "error", to |-> n])
        \/ outbox' = Append(outbox, [kind |-> "close", to |-> 0])
    BY <1>2 DEF RequestStarts, CancelHandled, FrameSettles, Session!EndSocket
  <2> QED BY <2>1, <2>2, AppendProperties
<1>6. handler' \in [DOMAIN handler' -> HandlerRows]
  <2>1. [at |-> "running", awaits |-> 0] \in HandlerRows
    BY DEF HandlerRows
  <2>2. handler \in [DOMAIN handler -> HandlerRows]
    BY DEF SessionInv, SessionTypes
  <2>3. CASE handler' = handler
    BY <2>2, <2>3
  <2>4. CASE RequestStarts(n, frames'[n])
    BY <2>1, <2>2, <2>4 DEF RequestStarts
  <2> QED BY <1>2, <2>3, <2>4 DEF CancelHandled, FrameSettles
<1>7. SessionTypes'
  BY <1>1, <1>3, <1>4, <1>5, <1>6 DEF SessionTypes, Dispatches, FramesGrow
<1>8. Ascends(queued_frames')
  <2>1. DOMAIN (<<>>) = {}
    OBVIOUS
  <2> QED BY <1>4, <2>1 DEF Ascends
<1>9. Done' \cup Session!Range(draining') \cup Session!Range(queued_frames') \cup settled'
        \subseteq Came'
  BY <1>1, <1>3, <1>4 DEF Dispatches, SessionInv, FramesInOrder
<1>10. \A m \in Done', k \in Session!Range(draining') : m < k
  <2> SUFFICES ASSUME NEW m \in Done', NEW k \in Session!Range(draining') PROVE m < k
    OBVIOUS
  <2>1. /\ m \in Done \/ m = n
        /\ n < k /\ (m \in Done => m < n)
    BY <1>1 DEF Dispatches
  <2>2. m \in Nat /\ n \in Nat /\ k \in Nat
    BY <1>1, <1>9 DEF Came
  <2> QED BY <2>1, <2>2
<1>11. FramesInOrder'
  BY <1>1, <1>4, <1>8, <1>9, <1>10 DEF FramesInOrder, Dispatches
<1> QED BY <1>7, <1>11

\* Whose controllers they are: a request takes an entry that is nobody's, and a cancel fires
\* that of the one which runs under its id.
LEMMA DispatchControls ==
  ASSUME SessionInv, NEW n, Dispatches(n)
  PROVE  ControllersAreTheirs'
<1> DEFINE f == frames'[n]
           named(id) == [kind |-> "cancel", id |-> id]
<1>1. /\ Done' = Done \cup {n} /\ n \notin Done /\ n \in Nat /\ \A m \in Done : m < n /\ m \in Nat
  BY DispatchedLast DEF Dispatches, SessionInv, FramesInOrder, Came
<1>2. RequestStarts(n, f) \/ CancelHandled(n, f) \/ FrameSettles(n, f)
  BY FrameIsHandled DEF Dispatches
<1>3. /\ RunningNow \subseteq DOMAIN handler /\ DOMAIN handler \subseteq Done /\ cancelled \subseteq Done
      /\ \A m \in Done : frames'[m] = frames[m]
  BY DEF SessionInv, ControllersAreTheirs, FramesInOrder, RunningNow, Dispatches, FramesGrow
<1>4. f \in Session!FrameKinds
  BY DispatchedLast, ElementOfSeq DEF Dispatches, FramesGrow, Came
<1>5. \A id : f = named(id) <=> f.kind = "cancel" /\ f.id = id
  BY <1>4 DEF Session!FrameKinds
<1>6. /\ \A m \in RunningNow : /\ frames[m].id \in DOMAIN pending_controllers
                               /\ pending_controllers[frames[m].id] = m
      /\ \A id \in DOMAIN pending_controllers :
           pending_controllers[id] \in RunningNow /\ frames[pending_controllers[id]].id = id
      /\ \A m \in RunningNow :
           m \in cancelled <=> \E k \in Done : k > m /\ frames[k] = named(frames[m].id)
  BY DEF SessionInv, ControllersAreTheirs
<1> HIDE DEF f, named
<1>7. CASE RequestStarts(n, f)
  <2>1. /\ DOMAIN handler' = DOMAIN handler \cup {n} /\ handler'[n].at = "running"
        /\ \A m \in DOMAIN handler : handler'[m] = handler[m]
    BY <1>1, <1>3, <1>7 DEF RequestStarts
  <2>2. RunningNow' = RunningNow \cup {n}
    BY <1>1, <1>3, <2>1 DEF RunningNow
  <2>3. /\ DOMAIN pending_controllers' = DOMAIN pending_controllers \cup {f.id}
        /\ pending_controllers'[f.id] = n /\ f.id \notin DOMAIN pending_controllers
        /\ \A id \in DOMAIN pending_controllers : pending_controllers'[id] = pending_controllers[id]
        /\ cancelled' = cancelled /\ f.kind # "cancel"
    BY <1>7 DEF RequestStarts
  <2>4. \A m \in RunningNow' : frames'[m].id \in DOMAIN pending_controllers'
                            /\ pending_controllers'[frames'[m].id] = m
    BY <1>3, <1>6, <2>2, <2>3 DEF f
  <2>5. \A id \in DOMAIN pending_controllers' :
          pending_controllers'[id] \in RunningNow' /\ frames'[pending_controllers'[id]].id = id
    BY <1>3, <1>6, <2>2, <2>3 DEF f
  <2>6. \A m \in RunningNow' :
          m \in cancelled' <=> \E k \in Done' : k > m /\ frames'[k] = named(frames'[m].id)
    <3>1. ASSUME NEW m \in RunningNow
          PROVE  m \in cancelled' <=> \E k \in Done' : k > m /\ frames'[k] = named(frames'[m].id)
      <4>1. frames'[n] # named(frames'[m].id)
        BY <1>5, <2>3 DEF f
      <4> QED BY <1>1, <1>3, <1>6, <2>3, <4>1
    <3>2. n \notin cancelled' /\ ~\E k \in Done' : k > n
      BY <1>1, <1>3, <2>3
    <3> QED BY <2>2, <3>1, <3>2
  <2>7. DOMAIN handler' \subseteq Done' /\ cancelled' \subseteq Done'
    BY <1>1, <1>3, <2>1, <2>3
  <2> QED BY <2>4, <2>5, <2>6, <2>7 DEF ControllersAreTheirs, named
<1>8. CASE CancelHandled(n, f)
  <2>1. /\ UNCHANGED <<handler, pending_controllers>> /\ f.kind = "cancel" /\ RunningNow' = RunningNow
        /\ cancelled' = cancelled \cup (IF f.id \in DOMAIN pending_controllers
                                        THEN {pending_controllers[f.id]} ELSE {})
    BY <1>8 DEF CancelHandled, RunningNow
  <2>2. ASSUME NEW m \in RunningNow
        PROVE  m \in cancelled' <=> \E k \in Done' : k > m /\ frames'[k] = named(frames'[m].id)
    <3>1. frames'[n] = named(frames'[m].id) <=> f.id = frames[m].id
      BY <1>3, <1>5, <2>1 DEF f
    <3>2. m \in cancelled' <=> m \in cancelled \/ f.id = frames[m].id
      BY <1>6, <2>1
    <3>3. n > m
      BY <1>1, <1>3
    <3> QED BY <1>1, <1>3, <1>6, <3>1, <3>2, <3>3
  <2>3. cancelled' \subseteq Done' /\ DOMAIN handler' \subseteq Done'
    BY <1>1, <1>3, <1>6, <2>1
  <2>4. \A m \in RunningNow' : frames'[m].id \in DOMAIN pending_controllers'
                            /\ pending_controllers'[frames'[m].id] = m
    BY <1>3, <1>6, <2>1
  <2>5. \A id \in DOMAIN pending_controllers' :
          pending_controllers'[id] \in RunningNow' /\ frames'[pending_controllers'[id]].id = id
    BY <1>3, <1>6, <2>1
  <2> QED BY <2>1, <2>2, <2>3, <2>4, <2>5 DEF ControllersAreTheirs, named
<1>9. CASE FrameSettles(n, f)
  <2>1. /\ UNCHANGED <<handler, pending_controllers, cancelled>> /\ f.kind # "cancel"
        /\ RunningNow' = RunningNow
    BY <1>9 DEF FrameSettles, RunningNow
  <2>2. ASSUME NEW m \in RunningNow
        PROVE  m \in cancelled' <=> \E k \in Done' : k > m /\ frames'[k] = named(frames'[m].id)
    <3>1. frames'[n] # named(frames'[m].id)
      BY <1>5, <2>1 DEF f
    <3> QED BY <1>1, <1>3, <1>6, <2>1, <3>1
  <2>3. \A m \in RunningNow' : frames'[m].id \in DOMAIN pending_controllers'
                            /\ pending_controllers'[frames'[m].id] = m
    BY <1>3, <1>6, <2>1
  <2>4. \A id \in DOMAIN pending_controllers' :
          pending_controllers'[id] \in RunningNow' /\ frames'[pending_controllers'[id]].id = id
    BY <1>3, <1>6, <2>1
  <2>5. cancelled' \subseteq Done' /\ DOMAIN handler' \subseteq Done'
    BY <1>1, <1>3, <2>1
  <2> QED BY <2>1, <2>2, <2>3, <2>4, <2>5 DEF ControllersAreTheirs, named
<1> QED BY <1>2, <1>7, <1>8, <1>9

\* Which answers are out: a request that is refused has its error, one that starts has none.
LEMMA DispatchAnswers ==
  ASSUME SessionInv, NEW n, Dispatches(n)
  PROVE  AnswersSoFar'
<1> DEFINE f == frames'[n]
<1>1. /\ Done' = Done \cup {n} /\ n \notin Done /\ n \in Nat /\ n # 0 /\ Came' = Came \cup {n}
      /\ \A m \in Came : frames'[m] = frames[m]
  BY DispatchedLast DEF Dispatches, FramesGrow
<1>2. RequestStarts(n, f) \/ CancelHandled(n, f) \/ FrameSettles(n, f)
  BY FrameIsHandled DEF Dispatches
<1>3. /\ outbox \in Seq(Sends) /\ SentOnce(outbox)
      /\ Answered(outbox) \subseteq {0} \cup (Done \ RunningNow)
      /\ OpenNow => \A m \in Came : frames[m].kind = "request" =>
           /\ m \in Done \ RunningNow => m \in Answered(outbox)
           /\ m \in settled <=> m \in Done \ DOMAIN handler
  BY DEF SessionInv, SessionTypes, AnswersSoFar
<1>4. n \notin Answered(outbox) /\ DOMAIN handler \subseteq Done /\ RunningNow \subseteq DOMAIN handler
  BY <1>1, <1>3 DEF SessionInv, ControllersAreTheirs, RunningNow
<1>5. OpenNow /\ f.kind = "request" => n \notin settled
  BY DEF Dispatches
<1>6. ASSUME SocketStays PROVE OpenNow' = OpenNow
  BY <1>6 DEF SocketStays, OpenNow
<1> HIDE DEF f
<1>7. CASE RequestStarts(n, f)
  <2>1. /\ DOMAIN handler' = DOMAIN handler \cup {n} /\ handler'[n].at = "running"
        /\ \A m \in DOMAIN handler : handler'[m] = handler[m]
    BY <1>1, <1>4, <1>7 DEF RequestStarts
  <2>2. RunningNow' = RunningNow \cup {n}
    BY <1>1, <1>4, <2>1 DEF RunningNow
  <2>3. f.kind = "request" /\ outbox' = outbox /\ settled' = settled /\ OpenNow' = OpenNow
    BY <1>6, <1>7 DEF RequestStarts
  <2>4. Done' \ RunningNow' = Done \ RunningNow /\ Done' \ DOMAIN handler' = Done \ DOMAIN handler
    BY <1>1, <1>4, <2>1, <2>2
  <2>5. OpenNow' => \A m \in Came' : frames'[m].kind = "request" =>
           /\ m \in Done' \ RunningNow' => m \in Answered(outbox')
           /\ m \in settled' <=> m \in Done' \ DOMAIN handler'
    BY <1>1, <1>3, <1>5, <2>3, <2>4 DEF f
  <2> QED BY <1>3, <2>3, <2>4, <2>5 DEF AnswersSoFar
<1>8. CASE /\ RunningNow' = RunningNow /\ handler' = handler /\ f.kind # "request"
           /\ outbox' = outbox /\ settled' = settled \cup {n} /\ SocketStays
  <2>1. OpenNow' => \A m \in Came' : frames'[m].kind = "request" =>
           /\ m \in Done' \ RunningNow' => m \in Answered(outbox')
           /\ m \in settled' <=> m \in Done' \ DOMAIN handler'
    BY <1>1, <1>3, <1>6, <1>8 DEF f
  <2> QED BY <1>1, <1>3, <1>8, <2>1 DEF AnswersSoFar
<1>9. CASE /\ RunningNow' = RunningNow /\ handler' = handler
           /\ outbox' = Append(outbox, [kind |-> "error", to |-> n])
           /\ settled' = settled \cup {n} /\ SocketStays
  <2>1. SentOnce(outbox') /\ Answered(outbox') = Answered(outbox) \cup {n}
    BY <1>1, <1>3, <1>4, <1>9, AnswerGoesOut
  <2>2. OpenNow' => \A m \in Came' : frames'[m].kind = "request" =>
           /\ m \in Done' \ RunningNow' => m \in Answered(outbox')
           /\ m \in settled' <=> m \in Done' \ DOMAIN handler'
    BY <1>1, <1>3, <1>4, <1>6, <1>9, <2>1
  <2> QED BY <1>1, <1>3, <1>4, <1>9, <2>1, <2>2 DEF AnswersSoFar
<1>10. CASE RunningNow' = RunningNow /\ Session!EndSocket(outbox, 0, {n})
  <2>1. SentOnce(outbox') /\ Answered(outbox') = Answered(outbox) /\ ~OpenNow'
    BY <1>3, <1>10, EndIsEnd, CloseGoesOut DEF OpenNow
  <2> QED BY <1>1, <1>3, <1>10, <2>1 DEF AnswersSoFar
<1>11. ASSUME handler' = handler PROVE RunningNow' = RunningNow
  BY <1>11 DEF RunningNow
<1> QED BY <1>2, <1>7, <1>8, <1>9, <1>10, <1>11 DEF CancelHandled, FrameSettles

\* A frame comes while the socket is opening, and waits.
LEMMA FrameWaits ==
  ASSUME SessionInv, NEW f \in Session!FrameKinds, frames' = Append(frames, f),
         phase = "opening", queued_frames' = Append(queued_frames, Session!Arriving),
         UNCHANGED <<phase, draining, dispatched, pending_controllers, handler, cancelled,
                     settled, outbox, registration, next_id>>
  PROVE  SessionInv'
<1>1. /\ FramesGrow /\ Session!Arriving \in Came' /\ Session!Arriving \in Nat
      /\ \A n \in Came : n < Session!Arriving
  BY FrameComes
<1>2. queued_frames \in Seq(Nat) /\ Ascends(queued_frames) /\ Session!Range(queued_frames) \subseteq Came
  BY DEF SessionInv, SessionTypes, FramesInOrder
<1>3. /\ queued_frames' \in Seq(Nat) /\ Ascends(queued_frames')
      /\ Session!Range(queued_frames') = Session!Range(queued_frames) \cup {Session!Arriving}
  <2>1. \A n \in Session!Range(queued_frames) : n < Session!Arriving
    BY <1>1, <1>2
  <2> QED BY <1>1, <1>2, <2>1, OneMore, OneMoreAscends
<1>4. SessionTypes' /\ Done' = Done
  BY <1>1, <1>3 DEF SessionInv, SessionTypes, FramesGrow, Done
<1>5. FramesInOrder'
  BY <1>1, <1>2, <1>3, <1>4 DEF SessionInv, FramesInOrder, FramesGrow
<1>6. ControllersAreTheirs'
  <2>1. DOMAIN handler' = DOMAIN handler /\ RunningNow' = RunningNow
    BY DEF RunningNow
  <2> QED BY <1>1, <2>1, ControllersStay
<1>7. AnswersSoFar'
  <2>1. RunningNow' = RunningNow /\ ~OpenNow'
    BY DEF RunningNow, OpenNow
  <2> QED BY <1>4, <2>1 DEF SessionInv, AnswersSoFar
<1> QED BY <1>4, <1>5, <1>6, <1>7 DEF SessionInv

\* The frames stay in order where none is received or dispatched.
LEMMA OrderStays ==
  ASSUME SessionInv, UNCHANGED <<frames, dispatched, draining>>, phase # "opening",
         phase' \in {phase, "ended"}, queued_frames' \in {queued_frames, <<>>},
         settled' \subseteq Came
  PROVE  FramesInOrder' /\ queued_frames' \in Seq(Nat)
<1>1. queued_frames = <<>> /\ queued_frames \in Seq(Nat)
  BY DEF SessionInv, SessionTypes, FramesInOrder
<1>2. queued_frames' = queued_frames /\ Done' = Done /\ Came' = Came /\ phase' # "opening"
  BY <1>1 DEF Done, Came
<1> QED BY <1>1, <1>2 DEF SessionInv, FramesInOrder

\* A socket that ends of itself, or is closed by the registry, as nothing else happens.
LEMMA EndKeepsSession ==
  ASSUME SessionInv, UNCHANGED <<dispatched, draining, pending_controllers, handler, cancelled>>,
         FramesGrow, NEW sent_ \in Seq(Sends), SentOnce(sent_),
         Answered(sent_) \subseteq Answered(outbox) \cup {0},
         NEW done, done \subseteq Came', Session!EndSocket(sent_, 0, done)
  PROVE  SessionInv'
<1>1. /\ registration' \in [{Socket} -> {"pending", "admitted", "gone"}] /\ next_id' \in Nat
      /\ phase' = "ended" /\ queued_frames' = <<>>
      /\ settled' = settled \cup done \cup Session!Range(queued_frames)
      /\ outbox' = Append(sent_, [kind |-> "close", to |-> 0])
  BY EndIsEnd
<1>2. /\ outbox' \in Seq(Sends) /\ SentOnce(outbox')
      /\ Answered(outbox') \subseteq Answered(outbox) \cup {0}
  BY <1>1, CloseGoesOut
<1>3. settled' \subseteq Came'
  BY <1>1 DEF SessionInv, FramesInOrder, FramesGrow
<1>4. RunningNow' = RunningNow /\ handler' \in [DOMAIN handler -> HandlerRows]
  BY DEF RunningNow, SessionInv, SessionTypes
<1> QED BY <1>1, <1>2, <1>3, <1>4, SocketEnds

\* A frame comes: it is dropped, ends the socket, waits or is handled.
LEMMA ReceiveKeepsSession ==
  ASSUME SessionInv, NEW f \in Session!FrameKinds, NEW size, Session!Receive(f, size)
  PROVE  SessionInv'
<1>1. /\ draining = <<>> /\ frames' = Append(frames, f)
      /\ \/ Session!ReceiveEnded
         \/ Session!EndOnMessage
         \/ Session!ReceiveOpening(size) \/ Session!ReceiveOpen(f)
  BY DEF Session!Receive, Session!Between
<1>2. /\ FramesGrow /\ Session!Arriving \in Came' /\ Session!Arriving \in Nat
      /\ Session!Arriving # 0 /\ frames'[Session!Arriving] = f
      /\ \A n \in Came : n < Session!Arriving
  BY <1>1, FrameComes
<1>3. CASE Session!EndOnMessage
  <2>1. /\ UNCHANGED <<dispatched, draining, pending_controllers, handler, cancelled>>
        /\ Session!EndSocket(outbox, 0, {Session!Arriving})
    BY <1>3 DEF Session!EndOnMessage, Session!run_vars
  <2>2. outbox \in Seq(Sends) /\ SentOnce(outbox) /\ {Session!Arriving} \subseteq Came'
    BY <1>2 DEF SessionInv, SessionTypes, AnswersSoFar
  <2> QED BY <1>2, <2>1, <2>2, EndKeepsSession
<1>4. CASE Session!ReceiveEnded
  <2>1. /\ UNCHANGED <<dispatched, draining, pending_controllers, handler, cancelled, phase,
                       queued_frames, outbox, registration, next_id>>
        /\ settled' = settled \cup {Session!Arriving} /\ phase = "ended"
    BY <1>4 DEF Session!ReceiveEnded, Session!Quietly, Session!run_vars, Session!peer_vars
  <2>2. /\ settled' \subseteq Came' /\ queued_frames' = <<>> /\ outbox' \in Seq(Sends)
        /\ SentOnce(outbox') /\ Answered(outbox') = Answered(outbox) /\ next_id' \in Nat
        /\ registration' \in [{Socket} -> {"pending", "admitted", "gone"}]
        /\ handler' \in [DOMAIN handler -> HandlerRows] /\ RunningNow' = RunningNow
    BY <1>2, <2>1 DEF SessionInv, SessionTypes, AnswersSoFar, FramesInOrder, FramesGrow, RunningNow
  <2> QED BY <1>2, <2>1, <2>2, SocketEnds
<1>5. CASE Session!ReceiveOpening(size)
  <2>1. CASE Session!EndOnMessage
    BY <1>3, <2>1
  <2>2. CASE ~Session!EndOnMessage
    <3>1. /\ phase = "opening" /\ queued_frames' = Append(queued_frames, Session!Arriving)
          /\ UNCHANGED <<phase, draining, dispatched, pending_controllers, handler, cancelled,
                         settled, outbox, registration, next_id>>
      BY <1>5, <2>2 DEF Session!ReceiveOpening, Session!run_vars, Session!peer_vars
    <3> QED BY <1>1, <3>1, FrameWaits
  <2> QED BY <2>1, <2>2
<1>6. CASE Session!ReceiveOpen(f)
  <2>1. CASE Session!EndOnMessage
    BY <1>3, <2>1
  <2>2. CASE ~Session!EndOnMessage
    <3>1. /\ phase = "open" /\ registration[Socket] = "admitted" /\ draining' = draining
          /\ Session!HandleFrame(Session!Arriving, f)
      BY <1>6, <2>2 DEF Session!ReceiveOpen, Session!Admitted
    <3>2. Came' = Came \cup {Session!Arriving}
      <4>1. frames \in Seq(Session!FrameKinds)
        BY DEF SessionInv, SessionTypes
      <4>2. Len(frames') = Len(frames) + 1 /\ Len(frames) \in Nat
        BY <1>1, <4>1, OneMore
      <4> QED BY <4>2 DEF Came, Session!Arriving
    <3>3. Session!Range(<<>>) = {} /\ Ascends(<<>>) /\ <<>> \in Seq(Nat)
      <4>1. DOMAIN (<<>>) = {}
        OBVIOUS
      <4>2. Session!Range(<<>>) = {} /\ Ascends(<<>>)
        BY <4>1 DEF Session!Range, Ascends
      <4> QED BY <4>2, EmptySeq
    <3>4. Session!Arriving \notin settled /\ \A m \in Done : m < Session!Arriving
      BY <1>2 DEF SessionInv, FramesInOrder, Came
    <3>5. draining' = <<>>
      BY <1>1, <3>1
    <3>6. Dispatches(Session!Arriving)
      BY <1>2, <3>1, <3>2, <3>3, <3>4, <3>5 DEF Dispatches
    <3> QED BY <3>6, DispatchInOrder, DispatchControls, DispatchAnswers DEF SessionInv
  <2> QED BY <2>1, <2>2
<1> QED BY <1>1, <1>3, <1>4, <1>5, <1>6

\* The loop goes on: an admitted socket handles the next, another settles it.
LEMMA DrainKeepsSession ==
  ASSUME SessionInv, Session!DrainNext
  PROVE  SessionInv'
<1> DEFINE n == Head(draining)
<1>1. /\ draining # <<>> /\ draining' = Tail(draining) /\ UNCHANGED frames
  BY DEF Session!DrainNext
<1>2. /\ draining' \in Seq(Nat) /\ Ascends(draining') /\ n \in Session!Range(draining) /\ n \in Nat
      /\ Session!Range(draining') \subseteq Session!Range(draining)
      /\ \A m \in Session!Range(draining') : n < m
  BY <1>1, TheRest DEF SessionInv, SessionTypes, FramesInOrder
<1>3. /\ n \in Came /\ n # 0 /\ phase # "opening" /\ Came' = Came /\ FramesGrow
      /\ \A m \in Done : m < n
  BY <1>1, <1>2 DEF SessionInv, SessionTypes, FramesInOrder, Came, FramesGrow
<1> HIDE DEF n
<1>4. CASE registration[Socket] = "admitted"
  <2>1. Session!HandleFrame(n, frames'[n])
    BY <1>1, <1>4 DEF Session!DrainNext, Session!Admitted, n
  <2>2. n \notin Done
    BY <1>2, <1>3
  <2>3. OpenNow /\ frames'[n].kind = "request" => n \notin settled
    BY <1>1, <1>3, <2>2 DEF SessionInv, AnswersSoFar
  <2>4. Dispatches(n)
    BY <1>1, <1>2, <1>3, <1>4, <2>1, <2>3 DEF Dispatches, SessionInv, FramesInOrder
  <2> QED BY <2>4, DispatchInOrder, DispatchControls, DispatchAnswers DEF SessionInv
<1>5. CASE registration[Socket] # "admitted"
  <2>1. /\ settled' = settled \cup {n}
        /\ UNCHANGED <<dispatched, pending_controllers, handler, cancelled, phase,
                       queued_frames, outbox, registration, next_id>>
    BY <1>1, <1>5 DEF Session!DrainNext, Session!Admitted, n, Session!Quietly, Session!run_vars,
       Session!peer_vars
  <2>2. Done' = Done /\ RunningNow' = RunningNow /\ ~OpenNow'
    BY <1>5, <2>1 DEF Done, RunningNow, OpenNow
  <2>3. SessionTypes' /\ FramesInOrder'
    BY <1>1, <1>2, <1>3, <2>1, <2>2 DEF SessionInv, SessionTypes, FramesInOrder
  <2>4. ControllersAreTheirs'
    BY <1>3, <2>1, <2>2, ControllersStay
  <2>5. AnswersSoFar'
    BY <2>1, <2>2 DEF SessionInv, AnswersSoFar
  <2> QED BY <2>3, <2>4, <2>5 DEF SessionInv
<1> QED BY <1>4, <1>5

\* open_socket, from the re-check to the loop.
LEMMA OpenerKeepsSession ==
  ASSUME SessionInv, Session!OpenerNext
  PROVE  SessionInv'
<1>1. /\ outbox \in Seq(Sends) /\ SentOnce(outbox) /\ handler \in [DOMAIN handler -> HandlerRows]
      /\ registration \in [{Socket} -> {"pending", "admitted", "gone"}] /\ next_id \in Nat
  BY DEF SessionInv, SessionTypes, AnswersSoFar
<1>2. UNCHANGED frames => FramesGrow
  BY DEF SessionInv, SessionTypes, FramesGrow, Came
<1>3. CASE Session!AdmitUpgrade
  <2>1. /\ UNCHANGED <<frames, dispatched, draining, queued_frames, pending_controllers, cancelled,
                     settled, phase, outbox, handler, next_id>>
        /\ registration' = [registration EXCEPT ![Socket] = "admitted"] /\ phase = "opening"
    BY <1>3 DEF Session!AdmitUpgrade, Session!AdmitConnection, Session!queue_vars, Session!run_vars,
       Session!peer_vars
  <2>2. RunningNow' = RunningNow /\ ~OpenNow'
    BY <2>1 DEF RunningNow, OpenNow
  <2> QED BY <1>1, <2>1, <2>2, NothingEnds
<1>4. CASE Session!RefuseUpgrade \/ Session!HookThrows
  <2>1. /\ UNCHANGED <<frames, dispatched, draining, pending_controllers, cancelled, handler>>
        /\ \/ Session!Quietly({})
           \/ Session!EndSocket(outbox, 0, {})
           \/ Session!EndSocket(Append(outbox, [kind |-> "error", to |-> 0]), 0, {})
    BY <1>4 DEF Session!RefuseUpgrade, Session!HookThrows, Session!run_vars, Session!Sent
  <2>2. CASE Session!Quietly({})
    <3>1. UNCHANGED <<settled, phase, queued_frames, outbox, registration, next_id>>
      BY <2>2 DEF Session!Quietly, Session!peer_vars
    <3>2. RunningNow' = RunningNow /\ OpenNow' = OpenNow
      BY <2>1, <3>1 DEF RunningNow, OpenNow
    <3> QED BY <1>1, <2>1, <3>1, <3>2, NothingEnds
  <2>3. CASE Session!EndSocket(outbox, 0, {})
    BY <1>1, <1>2, <2>1, <2>3, EndKeepsSession
  <2>4. CASE Session!EndSocket(Append(outbox, [kind |-> "error", to |-> 0]), 0, {})
    <3>1. PICK o : o = Append(outbox, [kind |-> "error", to |-> 0])
      OBVIOUS
    <3>2. o \in Seq(Sends) /\ SentOnce(o) /\ Answered(o) = Answered(outbox) \cup {0}
      BY <1>1, <3>1, AnswerGoesOut
    <3>3. Session!EndSocket(o, 0, {})
      BY <2>4, <3>1
    <3>4. Answered(o) \subseteq Answered(outbox) \cup {0} /\ FramesGrow
      BY <1>2, <2>1, <3>2
    <3> QED BY <2>1, <3>2, <3>3, <3>4, EndKeepsSession
  <2> QED BY <2>1, <2>2, <2>3, <2>4
<1>5. CASE Session!HookReturns
  <2>1. UNCHANGED <<frames, dispatched, pending_controllers, cancelled, handler, settled, outbox,
                    registration, next_id>>
    BY <1>5 DEF Session!HookReturns, Session!run_vars, Session!peer_vars
  <2>2. RunningNow' = RunningNow /\ Done' = Done /\ Came' = Came
    BY <2>1 DEF RunningNow, Done, Came
  <2>3. CASE phase # "opening"
    <3>1. UNCHANGED <<phase, draining, queued_frames>>
      BY <1>5, <2>3 DEF Session!HookReturns
    <3>2. OpenNow' = OpenNow
      BY <2>1, <3>1 DEF OpenNow
    <3> QED BY <1>1, <2>1, <2>2, <3>1, <3>2, NothingEnds
  <2>4. CASE phase = "opening"
    <3>1. phase' = "open" /\ draining' = queued_frames /\ queued_frames' = <<>>
      BY <1>5, <2>4 DEF Session!HookReturns
    <3>2. Session!Range(<<>>) = {} /\ Ascends(<<>>) /\ <<>> \in Seq(Nat)
      <4>1. DOMAIN (<<>>) = {}
        OBVIOUS
      <4>2. Session!Range(<<>>) = {} /\ Ascends(<<>>)
        BY <4>1 DEF Session!Range, Ascends
      <4> QED BY <4>2, EmptySeq
    <3>3. Done = {} /\ settled = {} /\ RunningNow \subseteq Done
      BY <2>4, <3>2 DEF SessionInv, FramesInOrder, ControllersAreTheirs, Done, RunningNow
    <3>4. SessionTypes'
      BY <2>1, <3>1, <3>2 DEF SessionInv, SessionTypes
    <3>5. FramesInOrder'
      BY <2>1, <2>2, <3>1, <3>2, <3>3 DEF SessionInv, FramesInOrder
    <3>6. ControllersAreTheirs'
      BY <1>2, <2>1, <2>2, ControllersStay
    <3>7. AnswersSoFar'
      BY <2>1, <2>2, <3>3 DEF SessionInv, AnswersSoFar
    <3> QED BY <3>4, <3>5, <3>6, <3>7 DEF SessionInv
  <2> QED BY <2>3, <2>4
<1> QED BY <1>3, <1>4, <1>5 DEF Session!OpenerNext

\* A handler that asks the client, hears of it or revokes.
LEMMA AskingKeepsSession ==
  ASSUME SessionInv, NEW n \in Session!Numbers,
         Session!HandlerAsks(n) \/ Session!HandlerHears(n) \/ Session!HandlerRevokes(n)
  PROVE  SessionInv'
<1>1. /\ outbox \in Seq(Sends) /\ SentOnce(outbox) /\ handler \in [DOMAIN handler -> HandlerRows]
      /\ registration \in [{Socket} -> {"pending", "admitted", "gone"}] /\ next_id \in Nat
  BY DEF SessionInv, SessionTypes, AnswersSoFar
<1>2. ASSUME NEW awaited \in Nat, n \in DOMAIN handler,
             handler' = [handler EXCEPT ![n].awaits = awaited]
      PROVE  handler' \in [DOMAIN handler -> HandlerRows] /\ RunningNow' = RunningNow
  <2>1. handler[n] \in HandlerRows
    BY <1>1, <1>2
  <2>2. [handler[n] EXCEPT !.awaits = awaited] = [at |-> handler[n].at, awaits |-> awaited]
    BY <2>1 DEF HandlerRows
  <2>3. PICK new : new = [at |-> handler[n].at, awaits |-> awaited]
    OBVIOUS
  <2>4. handler' = [handler EXCEPT ![n] = new] /\ new \in HandlerRows /\ new.at = handler[n].at
    BY <1>2, <2>1, <2>2, <2>3 DEF HandlerRows
  <2> QED BY <1>1, <2>4 DEF RunningNow
<1>3. UNCHANGED handler => handler' \in [DOMAIN handler -> HandlerRows] /\ RunningNow' = RunningNow
  BY <1>1 DEF RunningNow
<1>4. CASE Session!HandlerAsks(n)
  <2>1. /\ UNCHANGED <<frames, dispatched, draining, pending_controllers, cancelled>>
        /\ n \in DOMAIN handler /\ registration[Socket] = "admitted"
    BY <1>4 DEF Session!HandlerAsks, Session!Running, Session!RequestConnection, Session!MaySend,
       Session!RequestNotAccepted, Session!RequestOverflows
  <2>2. CASE Session!RequestConnection(Socket) /\ handler' = [handler EXCEPT ![n].awaits = next_id']
             /\ UNCHANGED <<phase, queued_frames, settled, outbox>>
    <3>1. UNCHANGED registration /\ next_id' \in Nat
      BY <1>1, <2>2 DEF Session!RequestConnection, Session!Issue
    <3>2. OpenNow' = OpenNow
      BY <2>2, <3>1 DEF OpenNow
    <3> QED BY <1>1, <1>2, <2>1, <2>2, <3>1, <3>2, NothingEnds
  <2>3. CASE Session!RequestNotAccepted(Socket) /\ UNCHANGED handler
             /\ UNCHANGED <<phase, queued_frames, settled, outbox>>
    <3>1. UNCHANGED registration /\ next_id' \in Nat
      BY <1>1, <2>3 DEF Session!RequestNotAccepted, Session!Issue
    <3>2. OpenNow' = OpenNow
      BY <2>3, <3>1 DEF OpenNow
    <3> QED BY <1>1, <1>3, <2>1, <2>3, <3>1, <3>2, NothingEnds
  <2>4. CASE Session!RequestOverflows(Socket) /\ phase' = "ended" /\ Session!DropQueued({})
             /\ outbox' = Append(outbox, [kind |-> "close", to |-> 0]) /\ UNCHANGED handler
    <3>1. /\ next_id' \in Nat
          /\ registration' \in [{Socket} -> {"pending", "admitted", "gone"}]
      BY <1>1, <2>4 DEF Session!RequestOverflows
    <3>2. queued_frames' = <<>> /\ settled' \subseteq Came' /\ FramesGrow
      BY <2>1, <2>4 DEF Session!DropQueued, SessionInv, SessionTypes, FramesInOrder, FramesGrow, Came
    <3>3. /\ outbox' \in Seq(Sends) /\ SentOnce(outbox')
          /\ Answered(outbox') \subseteq Answered(outbox) \cup {0}
      BY <1>1, <2>4, CloseGoesOut
    <3> QED BY <1>3, <2>1, <2>4, <3>1, <3>2, <3>3, SocketEnds
  <2> QED BY <1>4, <2>2, <2>3, <2>4 DEF Session!HandlerAsks
<1>5. CASE Session!HandlerHears(n)
  <2>1. /\ UNCHANGED <<frames, dispatched, draining, queued_frames, pending_controllers, cancelled,
                     settled, phase, outbox, registration, next_id>>
        /\ n \in DOMAIN handler /\ handler' = [handler EXCEPT ![n].awaits = 0]
    BY <1>5 DEF Session!HandlerHears, Session!queue_vars, Session!peer_vars
  <2>2. OpenNow' = OpenNow
    BY <2>1 DEF OpenNow
  <2> QED BY <1>1, <1>2, <2>1, <2>2, NothingEnds
<1>6. CASE Session!HandlerRevokes(n)
  <2>1. UNCHANGED <<frames, dispatched, draining, queued_frames, pending_controllers, cancelled,
                    settled, phase, outbox, registration, next_id, handler>>
    BY <1>6 DEF Session!HandlerRevokes, Session!queue_vars, Session!peer_vars
  <2>2. OpenNow' = OpenNow
    BY <2>1 DEF OpenNow
  <2> QED BY <1>1, <1>3, <2>1, <2>2, NothingEnds
<1> QED BY <1>4, <1>5, <1>6

\* The effects of a request are done: it settles.
LEMMA FlushKeepsSession ==
  ASSUME SessionInv, NEW n \in Session!Numbers, Session!FlushDone(n)
  PROVE  SessionInv'
<1>1. /\ n \in DOMAIN handler /\ handler[n].at = "flushing" /\ settled' = settled \cup {n}
      /\ handler' = [m \in DOMAIN handler \ {n} |-> handler[m]]
      /\ UNCHANGED <<frames, dispatched, draining, queued_frames, pending_controllers, cancelled,
                     phase, outbox, registration, next_id>>
  BY DEF Session!FlushDone, Session!Restrict, Session!queue_vars, Session!peer_vars
<1>2. /\ DOMAIN handler' = DOMAIN handler \ {n} /\ RunningNow' = RunningNow
      /\ Done' = Done /\ Came' = Came
  BY <1>1 DEF RunningNow, Done, Came
<1>3. n \in Done /\ n \in Came /\ phase # "opening"
  <2>1. n \in Done /\ n \in Came
    BY <1>1 DEF SessionInv, ControllersAreTheirs, FramesInOrder
  <2>2. dispatched = <<>> => Done = {}
    <3>1. DOMAIN (<<>>) = {}
      OBVIOUS
    <3> QED BY <3>1 DEF Done, Session!Range
  <2> QED BY <2>1, <2>2 DEF SessionInv, FramesInOrder
<1>4. FramesInOrder'
  BY <1>1, <1>3, OrderStays DEF SessionInv, FramesInOrder
<1>5. SessionTypes'
  BY <1>1, <1>2 DEF SessionInv, SessionTypes
<1>6. ControllersAreTheirs'
  BY <1>1, <1>2 DEF SessionInv, ControllersAreTheirs
<1>7. OpenNow' = OpenNow
  BY <1>1 DEF OpenNow
<1>8. AnswersSoFar'
  BY <1>1, <1>2, <1>3, <1>7 DEF SessionInv, AnswersSoFar
<1> QED BY <1>4, <1>5, <1>6, <1>8 DEF SessionInv

\* A handler returns: its entry goes and its answer is out, before the close that it queued.
LEMMA ReturnKeepsSession ==
  ASSUME SessionInv, NEW n \in Session!Numbers, NEW committed \in BOOLEAN,
         Session!HandlerReturns(n, committed)
  PROVE  SessionInv'
<1> DEFINE replied == Append(outbox, [kind |-> "reply", to |-> n])
<1>1. /\ n \in DOMAIN handler /\ handler[n] = [at |-> "running", awaits |-> 0]
      /\ pending_controllers' = [id \in DOMAIN pending_controllers \ {frames[n].id} |->
                                   pending_controllers[id]]
      /\ handler' = [handler EXCEPT ![n].at = "flushing"]
      /\ UNCHANGED <<frames, draining, cancelled, dispatched>>
  <2>1. Session!Restrict(pending_controllers, DOMAIN pending_controllers \ {frames[n].id})
          = [id \in DOMAIN pending_controllers \ {frames[n].id} |-> pending_controllers[id]]
    BY DEF Session!Restrict
  <2> QED BY <2>1 DEF Session!HandlerReturns, Session!Running
<1>2. \/ registration[Socket] # "admitted" /\ SocketStays /\ UNCHANGED <<outbox, settled>>
      \/ outbox' = replied /\ SocketStays /\ UNCHANGED settled
      \/ Session!EndSocket(outbox, 0, {})
      \/ Session!EndSocket(replied, n, {})
  <2>1. \/ Session!EndSocket(replied, n, {})
        \/ Session!EndSocket(outbox, 0, {})
        \/ Session!Answer("reply", n, {})
    BY DEF Session!HandlerReturns, Session!ReplyThenFlush, Session!Sent
  <2>2. CASE Session!Answer("reply", n, {})
    BY <2>2 DEF Session!Answer, Session!Admitted, Session!Sent, Session!Quietly, SocketStays,
       Session!peer_vars
  <2> QED BY <2>1, <2>2
<1>3. /\ handler' \in [DOMAIN handler -> HandlerRows] /\ handler'[n].at = "flushing"
      /\ \A m \in DOMAIN handler \ {n} : handler'[m] = handler[m]
  <2>1. handler \in [DOMAIN handler -> HandlerRows]
    BY DEF SessionInv, SessionTypes
  <2>2. [handler[n] EXCEPT !.at = "flushing"] = [at |-> "flushing", awaits |-> 0]
    BY <1>1
  <2>3. PICK new : new = [at |-> "flushing", awaits |-> 0]
    OBVIOUS
  <2>4. handler' = [handler EXCEPT ![n] = new] /\ new \in HandlerRows /\ new.at = "flushing"
    BY <1>1, <2>2, <2>3 DEF HandlerRows
  <2> QED BY <1>1, <2>1, <2>4
<1>4. /\ DOMAIN handler' = DOMAIN handler /\ RunningNow' = RunningNow \ {n} /\ n \in RunningNow
      /\ Done' = Done /\ Came' = Came
  BY <1>1, <1>3 DEF RunningNow, Done, Came
<1>5. /\ n \in Done /\ n \in Came /\ n \in Nat /\ n # 0 /\ phase # "opening"
  <2>1. n \in Done /\ n \in Came
    BY <1>1 DEF SessionInv, ControllersAreTheirs, FramesInOrder
  <2>2. dispatched = <<>> => Done = {}
    <3>1. DOMAIN (<<>>) = {}
      OBVIOUS
    <3> QED BY <3>1 DEF Done, Session!Range
  <2>3. n \in Nat /\ n # 0
    BY <2>1 DEF Came
  <2> QED BY <2>1, <2>2, <2>3 DEF SessionInv, FramesInOrder
<1>6. /\ outbox \in Seq(Sends) /\ SentOnce(outbox) /\ n \notin Answered(outbox)
      /\ Answered(outbox) \subseteq {0} \cup (Done \ RunningNow)
  BY <1>4, <1>5 DEF SessionInv, SessionTypes, AnswersSoFar
<1>7. /\ phase' \in {phase, "ended"} /\ queued_frames' \in {queued_frames, <<>>}
      /\ settled' \subseteq Came /\ next_id' \in Nat
      /\ registration' \in [{Socket} -> {"pending", "admitted", "gone"}]
  <2>1. CASE SocketStays /\ UNCHANGED settled
    BY <2>1 DEF SocketStays, SessionInv, SessionTypes, FramesInOrder
  <2>2. ASSUME NEW o, NEW by, Session!EndSocket(o, by, {})
        PROVE  /\ phase' = "ended" /\ queued_frames' = <<>> /\ settled' \subseteq Came
               /\ next_id' \in Nat
               /\ registration' \in [{Socket} -> {"pending", "admitted", "gone"}]
    <3>1. /\ phase' = "ended" /\ queued_frames' = <<>> /\ next_id' \in Nat
          /\ registration' \in [{Socket} -> {"pending", "admitted", "gone"}]
          /\ settled' = settled \cup {} \cup Session!Range(queued_frames)
      BY <2>2, EndIsEnd
    <3>2. settled' \subseteq Came
      BY <3>1 DEF SessionInv, FramesInOrder
    <3> QED BY <3>1, <3>2
  <2> HIDE DEF replied
  <2> QED BY <1>2, <2>1, <2>2
<1>8. FramesInOrder' /\ queued_frames' \in Seq(Nat)
  BY <1>1, <1>5, <1>7, OrderStays
<1>9. /\ outbox' \in Seq(Sends) /\ SentOnce(outbox')
      /\ Answered(outbox') \subseteq {0} \cup (Done \ (RunningNow \ {n}))
      /\ OpenNow' => OpenNow /\ settled' = settled /\ Answered(outbox') = Answered(outbox) \cup {n}
  <2>1. /\ replied \in Seq(Sends) /\ SentOnce(replied) /\ Answered(replied) = Answered(outbox) \cup {n}
    BY <1>5, <1>6, AnswerGoesOut
  <2>2. CASE registration[Socket] # "admitted" /\ SocketStays /\ UNCHANGED <<outbox, settled>>
    <3>1. ~OpenNow'
      BY <2>2 DEF OpenNow, SocketStays
    <3> QED BY <1>6, <2>2, <3>1
  <2>3. CASE outbox' = replied /\ SocketStays /\ UNCHANGED settled
    <3>1. OpenNow' = OpenNow
      BY <2>3 DEF OpenNow, SocketStays
    <3> HIDE DEF replied
    <3> QED BY <1>5, <1>6, <2>1, <2>3, <3>1
  <2>4. CASE Session!EndSocket(outbox, 0, {})
    <3>1. /\ outbox' \in Seq(Sends) /\ SentOnce(outbox') /\ Answered(outbox') = Answered(outbox)
          /\ ~OpenNow'
      BY <1>6, <2>4, EndIsEnd, CloseGoesOut DEF OpenNow
    <3> QED BY <1>6, <3>1
  <2>5. CASE Session!EndSocket(replied, n, {})
    <3>1. outbox' = Append(replied, [kind |-> "close", to |-> n]) /\ ~OpenNow'
      BY <2>5, EndIsEnd DEF OpenNow
    <3>2. /\ outbox' \in Seq(Sends) /\ SentOnce(outbox')
          /\ Answered(outbox') = Answered(outbox) \cup {n}
      BY <1>5, <1>6, <3>1, ReplyThenClose
    <3> QED BY <1>5, <1>6, <3>1, <3>2
  <2> QED BY <1>2, <2>2, <2>3, <2>4, <2>5
<1> HIDE DEF replied
<1>10. SessionTypes'
  BY <1>1, <1>3, <1>4, <1>5, <1>7, <1>8, <1>9 DEF SessionInv, SessionTypes
<1>11. ControllersAreTheirs'
  <2>1. /\ DOMAIN pending_controllers' = DOMAIN pending_controllers \ {frames[n].id}
        /\ \A id \in DOMAIN pending_controllers' : pending_controllers'[id] = pending_controllers[id]
    BY <1>1
  <2>2. /\ \A m \in RunningNow : /\ frames[m].id \in DOMAIN pending_controllers
                                 /\ pending_controllers[frames[m].id] = m
        /\ \A id \in DOMAIN pending_controllers :
             pending_controllers[id] \in RunningNow /\ frames[pending_controllers[id]].id = id
    BY DEF SessionInv, ControllersAreTheirs
  <2>3. \A m \in RunningNow' : /\ frames'[m].id \in DOMAIN pending_controllers'
                               /\ pending_controllers'[frames'[m].id] = m
    BY <1>1, <1>4, <2>1, <2>2
  <2>4. \A id \in DOMAIN pending_controllers' :
          pending_controllers'[id] \in RunningNow' /\ frames'[pending_controllers'[id]].id = id
    BY <1>1, <1>4, <2>1, <2>2
  <2> QED BY <1>1, <1>4, <2>3, <2>4 DEF SessionInv, ControllersAreTheirs
<1>12. AnswersSoFar'
  BY <1>1, <1>4, <1>9 DEF SessionInv, AnswersSoFar
<1> QED BY <1>8, <1>10, <1>11, <1>12 DEF SessionInv

\* Whatever else happens to the connection.
LEMMA WorldKeepsSession ==
  ASSUME SessionInv,
         Session!ClosedByRegistry \/ Session!BareRemoval \/ Session!OnClose
           \/ \E id \in Session!Ids : Session!DeadlinePasses(id)
  PROVE  SessionInv'
<1>1. /\ outbox \in Seq(Sends) /\ SentOnce(outbox) /\ handler \in [DOMAIN handler -> HandlerRows]
      /\ registration \in [{Socket} -> {"pending", "admitted", "gone"}] /\ next_id \in Nat
  BY DEF SessionInv, SessionTypes, AnswersSoFar
<1>2. UNCHANGED frames => FramesGrow
  BY DEF SessionInv, SessionTypes, FramesGrow, Came
<1>3. UNCHANGED handler => RunningNow' = RunningNow
  BY DEF RunningNow
<1>4. CASE Session!ClosedByRegistry
  <2>1. /\ UNCHANGED <<frames, dispatched, draining, pending_controllers, handler, cancelled>>
        /\ Session!EndSocket(outbox, 0, {})
    BY <1>4 DEF Session!ClosedByRegistry, Session!run_vars
  <2> QED BY <1>1, <1>2, <2>1, EndKeepsSession
<1>5. CASE Session!BareRemoval \/ \E id \in Session!Ids : Session!DeadlinePasses(id)
  <2>1. UNCHANGED Session!session_vars /\ next_id' = next_id
        /\ registration' \in {registration, [registration EXCEPT ![Socket] = "gone"]}
    BY <1>5 DEF Session!BareRemoval, Session!EndConnection, Session!Cleanup, Session!Drain,
       Session!DeadlinePasses, Session!PeerTimeout
  <2>2. UNCHANGED <<frames, dispatched, draining, queued_frames, pending_controllers, cancelled,
                    settled, phase, outbox, handler>>
    BY <2>1 DEF Session!session_vars, Session!queue_vars, Session!run_vars
  <2>3. OpenNow' => OpenNow
    BY <1>1, <2>1, <2>2 DEF OpenNow
  <2> QED BY <1>1, <1>3, <2>1, <2>2, <2>3, NothingEnds
<1>6. CASE Session!OnClose
  <2>1. /\ UNCHANGED <<frames, dispatched, draining, pending_controllers, handler, cancelled, outbox>>
        /\ phase' = "ended" /\ queued_frames' = <<>> /\ next_id' = next_id
        /\ settled' = settled \cup Session!Range(queued_frames)
        /\ registration' = [registration EXCEPT ![Socket] = "gone"]
    BY <1>6 DEF Session!OnClose, Session!run_vars, Session!DropQueued, Session!Cleanup, Session!Drain
  <2>2. settled' \subseteq Came' /\ registration' \in [{Socket} -> {"pending", "admitted", "gone"}]
    BY <1>1, <2>1 DEF SessionInv, FramesInOrder, Came
  <2> QED BY <1>1, <1>2, <1>3, <2>1, <2>2, SocketEnds
<1> QED BY <1>4, <1>5, <1>6

\* A step of the session.
LEMMA SessionStep ==
  ASSUME SessionInv, Session!SessionNext
  PROVE  SessionInv'
BY ReceiveKeepsSession, OpenerKeepsSession, DrainKeepsSession, AskingKeepsSession,
   FlushKeepsSession, ReturnKeepsSession, WorldKeepsSession
   DEF Session!SessionNext, Session!HandlerNext

\* Nothing has come at first.
LEMMA SessionBegins == ASSUME Session!SessionInit PROVE SessionInv
<1>1. /\ registration = [c \in {Socket} |-> "pending"] /\ next_id = 0 /\ phase = "opening"
      /\ frames = <<>> /\ queued_frames = <<>> /\ draining = <<>> /\ dispatched = <<>>
      /\ pending_controllers = <<>> /\ handler = <<>> /\ outbox = <<>>
      /\ cancelled = {} /\ settled = {}
  BY DEF Session!SessionInit, Session!PeerInit
<1>2. /\ DOMAIN (<<>>) = {} /\ <<>> \in Seq(Nat) /\ <<>> \in Seq(Sends)
      /\ <<>> \in Seq(Session!FrameKinds)
  BY EmptySeq
<1>3. /\ Done = {} /\ Session!Range(draining) = {} /\ Session!Range(queued_frames) = {}
      /\ RunningNow = {} /\ Answered(outbox) = {} /\ ~OpenNow
  BY <1>1, <1>2 DEF Done, Session!Range, RunningNow, Answered, OpenNow
<1>4. handler \in [DOMAIN handler -> HandlerRows]
  BY <1>1, <1>2
<1>5. SessionTypes
  BY <1>1, <1>2, <1>4 DEF SessionTypes
<1>6. FramesInOrder
  BY <1>1, <1>2, <1>3 DEF FramesInOrder, Ascends
<1>7. ControllersAreTheirs
  BY <1>1, <1>2, <1>3 DEF ControllersAreTheirs
<1>8. AnswersSoFar
  BY <1>1, <1>2, <1>3 DEF AnswersSoFar, SentOnce
<1> QED BY <1>5, <1>6, <1>7, <1>8 DEF SessionInv

\* The session and this module count alike.
LEMMA SessionCardinality == \A S : Session!Cardinality(S) = Cardinality(S)
  BY DEF Session!Cardinality, Cardinality

\* What the invariant says of the frames that have come.
LEMMA SessionServes == ASSUME SessionInv PROVE FramesAreServed
<1>1. Session!HandledInOrder
  BY DEF SessionInv, FramesInOrder, Ascends, Session!HandledInOrder
<1>2. Session!CancelsReachTheirRequest
  BY DEF SessionInv, ControllersAreTheirs, RunningNow, Done, Session!CancelsReachTheirRequest
<1>3. Session!AnsweredOnce
  <2> DEFINE Answers(n) == {i \in DOMAIN outbox : outbox[i].to = n /\ outbox[i].kind # "close"}
  <2>1. ASSUME OpenNow, NEW n \in Session!Numbers, frames[n].kind = "request"
        PROVE  Session!Cardinality(Answers(n)) =
                 IF n \in DOMAIN handler THEN (IF handler[n].at = "running" THEN 0 ELSE 1)
                 ELSE IF n \in settled THEN 1 ELSE 0
    <3>1. n \in Came /\ n \in Nat /\ n # 0
      <4>1. n \in 1 .. Len(frames) /\ Len(frames) \in Nat
        BY LenProperties DEF Session!Numbers, SessionInv, SessionTypes
      <4> QED BY <4>1 DEF Came
    <3>2. /\ n \in Answered(outbox) => n \in Done \ RunningNow
          /\ n \in Done \ RunningNow => n \in Answered(outbox)
          /\ n \in settled <=> n \in Done \ DOMAIN handler
      BY <2>1, <3>1 DEF SessionInv, AnswersSoFar
    <3>3. DOMAIN handler \subseteq Done /\ \A m : m \in RunningNow <=> m \in DOMAIN handler /\ handler[m].at = "running"
      BY DEF SessionInv, ControllersAreTheirs, RunningNow
    <3>4. CASE n \in Answered(outbox)
      <4>1. PICK i \in DOMAIN outbox : outbox[i].to = n /\ outbox[i].kind # "close"
        BY <3>4 DEF Answered, IsAnswer
      <4>2. Answers(n) = {i}
        BY <3>1, <4>1 DEF SessionInv, AnswersSoFar, SentOnce, IsAnswer
      <4>3. Session!Cardinality(Answers(n)) = 1
        <5> HIDE DEF Answers
        <5> QED BY <4>2, FS_Singleton, SessionCardinality
      <4> QED BY <3>2, <3>3, <3>4, <4>3
    <3>5. CASE n \notin Answered(outbox)
      <4>1. Answers(n) = {}
        BY <3>5 DEF Answered, IsAnswer
      <4>2. Session!Cardinality(Answers(n)) = 0
        <5> HIDE DEF Answers
        <5> QED BY <4>1, FS_EmptySet, SessionCardinality
      <4> QED BY <3>2, <3>3, <3>5, <4>2
    <3> QED BY <3>4, <3>5
  <2>2. \A i \in DOMAIN outbox : outbox[i].kind = "close" /\ outbox[i].to # 0
          => i > 1 /\ outbox[i - 1] = [kind |-> "reply", to |-> outbox[i].to]
    BY DEF SessionInv, AnswersSoFar, SentOnce
  <2> QED BY <2>1, <2>2 DEF Session!AnsweredOnce, OpenNow, Session!Admitted
<1> QED BY <1>1, <1>2, <1>3 DEF FramesAreServed

(***************************************************************************)
(* Frames are handled in the order they came, the queue before the         *)
(* admission included; a cancel reaches the request that runs under its id *)
(* and no other; a request is answered once while the socket is open, and  *)
(* before the close that its handler queued: for any bounds of the queue,  *)
(* of frames and of running requests.                                      *)
(***************************************************************************)
THEOREM FramesAreHandled == SocketsParts => []FramesAreServed
<1>1. SocketsInit => SessionInv
  BY SessionBegins DEF SocketsInit
<1>2. SessionInv /\ [SocketsNext]_sockets_vars => SessionInv'
  <2> SUFFICES ASSUME SessionInv, [SocketsNext]_sockets_vars PROVE SessionInv'
    OBVIOUS
  <2>1. Session!SessionNext \/ UNCHANGED session_vars
    BY DEF SocketsNext, sockets_vars
  <2>2. CASE UNCHANGED session_vars
    BY <2>2 DEF session_vars, SessionInv, SessionTypes, FramesInOrder, ControllersAreTheirs,
       AnswersSoFar, Done, Came, RunningNow, OpenNow
  <2>3. CASE Session!SessionNext
    BY <2>3, SessionStep
  <2> QED BY <2>1, <2>2, <2>3
<1>3. SessionInv => FramesAreServed
  BY SessionServes
<1> QED BY <1>1, <1>2, <1>3, PTL DEF SocketsParts
=============================================================================
