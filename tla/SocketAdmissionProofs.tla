------------------------ MODULE SocketAdmissionProofs ------------------------
(***************************************************************************)
(* Theorems about the connection registry, for any number of connections   *)
(* and any cap; and the admission guarantee, for any connections,          *)
(* accounts, credentials, roles and any number of revocations.             *)
(***************************************************************************)
EXTENDS SocketAdmission, FiniteSetTheorems, WellFoundedInduction, TLAPS

(***************************************************************************)
(* The inductive invariant.  The cap holds of the next admission only if   *)
(* the account has an oldest admitted connection to close, hence the       *)
(* distinct ages; a closed connection stays closed only if a fresh id has  *)
(* no close code yet.                                                      *)
(***************************************************************************)
AgesInOrder ==
  /\ \A c \in Connections : Registered(c) => age[c] < next_age
  /\ \A c, d \in Connections :
       Registered(c) /\ Registered(d) /\ age[c] = age[d] => c = d

FreshIsUnused ==
  \A c \in Connections :
    entry[c] = "fresh" => close_code[c] = Null /\ c \notin aborted

RegistryInv ==
  /\ RegistryTypeOK
  /\ AgesInOrder
  /\ FreshIsUnused
  /\ CapRespected
  /\ NothingRegisteredOnceClosing
  /\ ClosedIsAbortedAndGone

-----------------------------------------------------------------------------
(* Facts about eviction.                                                   *)

(* A nonempty set of naturals has a least element. *)
LEMMA LeastNat ==
  ASSUME NEW T, T \subseteq Nat, T # {}
  PROVE  \E m \in T : \A n \in T : m <= n
<1> DEFINE R == {ss \in Nat \X Nat : ss[1] < ss[2]}
<1>1. IsWellFoundedOn(R, Nat)
  BY NatLessThanWellFounded DEF OpToRel
<1>2. PICK m \in T : \A n \in T : ~(<<n, m>> \in R)
  BY <1>1, WFMin
<1>3. ASSUME NEW n \in T
      PROVE  m <= n
  <2>1. n \in Nat /\ m \in Nat
    OBVIOUS
  <2>2. n < m => <<n, m>> \in R
    BY <2>1
  <2> QED BY <1>2, <2>1, <2>2
<1> QED BY <1>3

(* The admitted connections of an account are finitely many. *)
LEMMA AdmittedFinite ==
  ASSUME NEW a
  PROVE  /\ IsFiniteSet(AdmittedOf(a))
         /\ \A S \in SUBSET AdmittedOf(a) :
              /\ IsFiniteSet(S)
              /\ Cardinality(S) \in Nat
              /\ Cardinality(S) <= Cardinality(AdmittedOf(a))
<1>1. AdmittedOf(a) \subseteq Connections
  BY DEF AdmittedOf
<1>2. IsFiniteSet(AdmittedOf(a))
  BY <1>1, RegistryAssumption, FS_Subset
<1> QED BY <1>2, FS_Subset, FS_CardinalityType

(* An account at its cap has an oldest admitted connection, and it goes.   *)
LEMMA OldestIsEvicted ==
  ASSUME RegistryTypeOK, AgesInOrder, NEW a,
         MaxConnectionsPerAccount # Null,
         Cardinality(AdmittedOf(a)) = MaxConnectionsPerAccount
  PROVE  Evicted(a) # {}
<1> DEFINE A == AdmittedOf(a)
<1> MaxConnectionsPerAccount \in Nat \ {0}
  BY RegistryAssumption
<1>1. IsFiniteSet(A) /\ A # {}
  BY AdmittedFinite, FS_EmptySet
<1>2. PICK c \in A : \A d \in A : age[c] <= age[d]
  <2> DEFINE T == {age[x] : x \in A}
  <2>1. T \subseteq Nat /\ T # {}
    BY <1>1 DEF RegistryTypeOK, AdmittedOf
  <2>2. PICK m \in T : \A n \in T : m <= n
    BY <2>1, LeastNat
  <2> QED BY <2>2
<1>3. \A d \in A \ {c} : Older(c, d)
  BY <1>2 DEF Older, AgesInOrder, AdmittedOf, Registered, RegistryTypeOK
<1>4. {d \in A : Older(c, d)} = A \ {c}
  BY <1>2, <1>3 DEF Older, RegistryTypeOK, AdmittedOf
<1>5. Cardinality(A \ {c}) = MaxConnectionsPerAccount - 1
  BY <1>1, <1>2, FS_RemoveElement
<1>6. c \in Evicted(a)
  BY <1>2, <1>4, <1>5 DEF Evicted
<1> QED BY <1>6

(* Admitting c in place of those evicted keeps its account within the cap, *)
(* and every other account as it was or smaller.                           *)
LEMMA EvictionMakesRoom ==
  ASSUME RegistryTypeOK, AgesInOrder, CapRespected,
         NEW c \in Connections, entry[c] # "admitted",
         entry' = [Removed(Evicted(Identity[c].account_id))
                     EXCEPT ![c] = "admitted"]
  PROVE  CapRespected'
<1> DEFINE own == Identity[c].account_id
<1> SUFFICES ASSUME MaxConnectionsPerAccount # Null, NEW a \in Accounts
             PROVE  Cardinality(AdmittedOf(a)') <= MaxConnectionsPerAccount
  BY DEF CapRespected
<1>1. MaxConnectionsPerAccount \in Nat \ {0}
  BY RegistryAssumption
<1>2. /\ Cardinality(AdmittedOf(a)) \in Nat
      /\ Cardinality(AdmittedOf(a)) <= MaxConnectionsPerAccount
      /\ IsFiniteSet(AdmittedOf(a))
  BY AdmittedFinite, FS_CardinalityType DEF CapRespected
<1>3. Evicted(own) \subseteq AdmittedOf(own)
  BY DEF Evicted
<1>4. entry' = [d \in Connections |->
                  IF d = c THEN "admitted"
                  ELSE IF d \in Evicted(own) THEN "gone" ELSE entry[d]]
  BY DEF Removed, RegistryTypeOK
<1>5. CASE a # own
  <2>1. AdmittedOf(a)' = AdmittedOf(a)
    BY <1>3, <1>4, <1>5 DEF AdmittedOf
  <2> QED BY <2>1, <1>2
<1>6. CASE a = own
  <2> DEFINE rest == AdmittedOf(own) \ Evicted(own)
  <2>1. AdmittedOf(a)' = rest \cup {c} /\ c \notin rest
    BY <1>3, <1>4, <1>6 DEF AdmittedOf
  <2>2. IsFiniteSet(rest) /\ Cardinality(rest) \in Nat
    BY <1>6, AdmittedFinite
  <2>3. Cardinality(AdmittedOf(a)') = Cardinality(rest) + 1
    BY <2>1, <2>2, FS_AddElement
  <2>4. Cardinality(rest) < MaxConnectionsPerAccount
    <3>1. CASE Cardinality(AdmittedOf(own)) < MaxConnectionsPerAccount
      <4>1. Cardinality(rest) <= Cardinality(AdmittedOf(own))
        BY AdmittedFinite
      <4> QED BY <4>1, <3>1, <2>2, <1>1, <1>2, <1>6
    <3>2. CASE Cardinality(AdmittedOf(own)) = MaxConnectionsPerAccount
      <4>1. rest # AdmittedOf(own)
        BY <3>2, <1>3, OldestIsEvicted
      <4>2. Cardinality(rest) # Cardinality(AdmittedOf(own))
        BY <4>1, <1>2, <1>6, FS_Subset
      <4>3. Cardinality(rest) <= Cardinality(AdmittedOf(own))
        BY AdmittedFinite
      <4> QED BY <4>2, <4>3, <3>2, <2>2, <1>1
    <3> QED BY <3>1, <3>2, <1>1, <1>2, <1>6
  <2> QED BY <2>3, <2>4, <2>2, <1>1
<1> QED BY <1>5, <1>6

(* Removing connections never breaks the cap. *)
LEMMA FewerKeepTheCap ==
  ASSUME CapRespected,
         \A a \in Accounts : AdmittedOf(a)' \subseteq AdmittedOf(a)
  PROVE  CapRespected'
<1> SUFFICES ASSUME MaxConnectionsPerAccount # Null, NEW a \in Accounts
             PROVE  Cardinality(AdmittedOf(a)') <= MaxConnectionsPerAccount
  BY DEF CapRespected
<1>1. MaxConnectionsPerAccount \in Nat
  BY RegistryAssumption
<1>2. /\ Cardinality(AdmittedOf(a)') <= Cardinality(AdmittedOf(a))
      /\ Cardinality(AdmittedOf(a)') \in Nat
      /\ Cardinality(AdmittedOf(a)) \in Nat
  BY AdmittedFinite
<1>3. Cardinality(AdmittedOf(a)) <= MaxConnectionsPerAccount
  BY DEF CapRespected
<1> QED BY <1>1, <1>2, <1>3

-----------------------------------------------------------------------------
(* What the operations have in common.                                     *)

(* Ending registered connections of S, with a code a pending one may get   *)
(* unless none of S is pending, keeps the invariant.                       *)
LEMMA EndingKeepsInv ==
  ASSUME RegistryInv, NEW S, NEW code \in CloseCodes,
         \A c \in S : c \in Connections /\ Registered(c),
         (\A c \in S : entry[c] = "admitted") \/ code \in PendingCloseCodes,
         entry' = Removed(S), EndSockets(S, code),
         UNCHANGED <<age, next_age>>,
         closing' \in BOOLEAN,
         closing' => closing \/ \A c \in Connections : Registered(c) => c \in S
  PROVE  RegistryInv'
<1> USE DEF RegistryInv
<1>1. RegistryTypeOK'
  BY DEF RegistryTypeOK, EndSockets, Removed, Registered
<1>2. \A c \in Connections : Registered(c)' => Registered(c) /\ c \notin S
  BY DEF Registered, Removed
<1>3. AgesInOrder'
  BY <1>2 DEF AgesInOrder
<1>4. FreshIsUnused'
  BY DEF FreshIsUnused, EndSockets, Removed, Registered, RegistryTypeOK
<1>5. CapRespected'
  BY FewerKeepTheCap DEF AdmittedOf, Removed
<1>6. NothingRegisteredOnceClosing'
  BY <1>2 DEF NothingRegisteredOnceClosing
<1>7. ClosedIsAbortedAndGone'
  BY <1>2, RegistryAssumption DEF ClosedIsAbortedAndGone, EndSockets, Registered
<1> QED BY <1>1, <1>3, <1>4, <1>5, <1>6, <1>7

(* Admitting c, with the eviction it needs, keeps the invariant; the age   *)
(* of c is its old one or, for add_connection, a new one.                  *)
LEMMA AdmittingKeepsInv ==
  ASSUME RegistryInv, NEW c \in Connections, ~closing, closing' = closing,
         entry[c] \in {"fresh", "pending"},
         close_code[c] = Null,
         AdmittedInPlaceOf(c, Evicted(Identity[c].account_id)),
         \/ Inserted(c)
         \/ entry[c] = "pending" /\ UNCHANGED <<age, next_age>>
  PROVE  RegistryInv'
<1> USE DEF RegistryInv
<1> DEFINE S == Evicted(Identity[c].account_id)
<1>1. S \subseteq {d \in Connections : entry[d] = "admitted"} /\ c \notin S
  BY DEF Evicted, AdmittedOf
<1> HIDE DEF S
<1>2. /\ entry' = [Removed(S) EXCEPT ![c] = "admitted"]
      /\ EndSockets(S, "connection_limit")
  BY DEF AdmittedInPlaceOf, S
<1>3. RegistryTypeOK'
  <2> USE DEF RegistryTypeOK
  <2>1. entry' \in [Connections -> {"fresh", "pending", "admitted", "gone"}]
    BY <1>2 DEF Removed
  <2>2. age' \in [Connections -> Nat] /\ next_age' \in Nat
    BY DEF Inserted
  <2>3. pending_close_codes' = pending_close_codes
    BY <1>1, <1>2 DEF EndSockets
  <2>4. closing_writers' \subseteq Connections /\ aborted' \subseteq Connections
    BY <1>1, <1>2 DEF EndSockets
  <2>5. close_code' \in [Connections -> CloseCodes \cup {Null}]
    BY <1>2 DEF EndSockets, CloseCodes
  <2> QED BY <2>1, <2>2, <2>3, <2>4, <2>5
<1>4. \A d \in Connections :
        Registered(d)' => d = c \/ (Registered(d) /\ d \notin S)
  BY <1>2 DEF Registered, Removed, RegistryTypeOK
<1>5. AgesInOrder'
  BY <1>4 DEF AgesInOrder, Inserted, RegistryTypeOK, Registered
<1>6. FreshIsUnused'
  BY <1>1, <1>2 DEF FreshIsUnused, EndSockets, Removed, RegistryTypeOK
<1>7. CapRespected'
  BY <1>2, EvictionMakesRoom DEF S
<1>8. NothingRegisteredOnceClosing'
  BY DEF NothingRegisteredOnceClosing
<1>9. ClosedIsAbortedAndGone'
  BY <1>1, <1>2, <1>4, RegistryAssumption
  DEF ClosedIsAbortedAndGone, EndSockets, RegistryTypeOK
<1> QED BY <1>3, <1>5, <1>6, <1>7, <1>8, <1>9

(* A registration that is born closed is never in the map. *)
LEMMA BornClosedKeepsInv ==
  ASSUME RegistryInv, NEW c \in Connections, BornClosed(c)
  PROVE  RegistryInv'
<1> USE DEF RegistryInv, BornClosed
<1>1. RegistryTypeOK'
  BY DEF RegistryTypeOK, CloseCodes
<1>2. \A d \in Connections : Registered(d)' => Registered(d) /\ d # c
  BY DEF Registered, RegistryTypeOK
<1>3. AgesInOrder'
  BY <1>2 DEF AgesInOrder
<1>4. FreshIsUnused'
  BY DEF FreshIsUnused, RegistryTypeOK
<1>5. CapRespected'
  BY FewerKeepTheCap DEF AdmittedOf, RegistryTypeOK
<1>6. NothingRegisteredOnceClosing' /\ ClosedIsAbortedAndGone'
  BY <1>2
  DEF NothingRegisteredOnceClosing, ClosedIsAbortedAndGone, RegistryTypeOK
<1> QED BY <1>1, <1>3, <1>4, <1>5, <1>6

(* Nothing happens to the registry. *)
LEMMA StutterKeepsInv ==
  ASSUME RegistryInv, UNCHANGED registry_vars
  PROVE  RegistryInv'
BY DEF RegistryInv, registry_vars, RegistryTypeOK, AgesInOrder, FreshIsUnused,
       CapRespected, AdmittedOf, NothingRegisteredOnceClosing, Registered,
       ClosedIsAbortedAndGone

(* Taking one used id out of the map keeps the invariant, if only its own  *)
(* close code changes and it is aborted when it has one.                   *)
LEMMA RemovingKeepsInv ==
  ASSUME RegistryInv, NEW c \in Connections, RegistryTypeOK',
         entry[c] # "fresh", entry' = Removed({c}),
         UNCHANGED <<age, next_age, closing>>,
         aborted \subseteq aborted', aborted' \subseteq aborted \cup {c},
         \A d \in Connections : d # c => close_code'[d] = close_code[d],
         close_code'[c] # Null => c \in aborted' \/ close_code[c] # Null
  PROVE  RegistryInv'
<1> USE DEF RegistryInv
<1>1. \A d \in Connections : Registered(d)' => Registered(d) /\ d # c
  BY DEF Registered, Removed
<1>2. AgesInOrder'
  BY <1>1 DEF AgesInOrder
<1>3. FreshIsUnused'
  BY DEF FreshIsUnused, Removed
<1>4. CapRespected'
  BY FewerKeepTheCap DEF AdmittedOf, Removed
<1>5. NothingRegisteredOnceClosing' /\ ClosedIsAbortedAndGone'
  BY <1>1 DEF NothingRegisteredOnceClosing, ClosedIsAbortedAndGone
<1> QED BY <1>2, <1>3, <1>4, <1>5

(* close_connection, with any code a caller of it has. *)
LEMMA CloseConnectionKeepsInv ==
  ASSUME RegistryInv, NEW c \in Connections, NEW code \in SessionCloseCodes,
         CloseConnection(c, code)
  PROVE  RegistryInv'
<1>1. /\ entry' = Removed({c}) /\ EndSockets({c}, code)
      /\ UNCHANGED <<age, next_age, closing>>
      /\ Registered(c)
  BY DEF CloseConnection, EndConnections
<1>2. code \in PendingCloseCodes /\ code \in CloseCodes
  BY DEF SessionCloseCodes, PendingCloseCodes, CloseCodes
<1>3. closing \in BOOLEAN
  BY DEF RegistryInv, RegistryTypeOK
<1> QED BY <1>1, <1>2, <1>3, EndingKeepsInv

(* Every operation of the registry keeps its invariant. *)
LEMMA RegistryStepKeepsInv ==
  ASSUME RegistryInv, RegistryNext
  PROVE  RegistryInv'
<1> USE DEF RegistryInv
<1>1. CASE CloseAllConnections
  <2> DEFINE live == {c \in Connections : Registered(c)}
  <2>1. entry' = Removed(live) /\ EndSockets(live, "going_away")
    BY <1>1 DEF CloseAllConnections
  <2>2. "going_away" \in PendingCloseCodes /\ "going_away" \in CloseCodes
    BY DEF PendingCloseCodes, CloseCodes
  <2>3. closing' = TRUE /\ UNCHANGED <<age, next_age>>
    BY <1>1 DEF CloseAllConnections
  <2> HIDE DEF RegistryInv
  <2> QED BY <2>1, <2>2, <2>3, EndingKeepsInv
<1>2. CASE \E t \in Targets : CloseConnections(t)
  <2>1. PICK t \in Targets : CloseConnections(t)
    BY <1>2
  <2> DEFINE S == {c \in Connections : Registered(c) /\ Matches(c, t)}
  <2>2. /\ entry' = Removed(S)
        /\ EndSockets(S, TargetCode(t))
        /\ UNCHANGED <<age, next_age, closing>>
    BY <2>1 DEF CloseConnections, EndConnections
  <2>3. TargetCode(t) \in PendingCloseCodes /\ TargetCode(t) \in CloseCodes
    BY DEF TargetCode, PendingCloseCodes, CloseCodes
  <2>4. closing \in BOOLEAN
    BY DEF RegistryTypeOK
  <2>5. \A c \in S : c \in Connections /\ Registered(c)
    OBVIOUS
  <2> HIDE DEF RegistryInv, S
  <2> QED BY <2>2, <2>3, <2>4, <2>5, EndingKeepsInv
<1>3. ASSUME NEW c \in Connections, RegisterPending(c)
      PROVE  RegistryInv'
  <2>1. CASE BornClosed(c)
    BY <2>1, BornClosedKeepsInv
  <2>2. CASE ~BornClosed(c)
    <3>1. /\ ~closing /\ entry[c] = "fresh" /\ Inserted(c)
          /\ entry' = [entry EXCEPT ![c] = "pending"]
          /\ UNCHANGED <<closing, pending_close_codes, closing_writers,
                         aborted, close_code>>
      BY <1>3, <2>2 DEF RegisterPending
    <3>2. RegistryTypeOK'
      BY <3>1 DEF RegistryTypeOK, Inserted
    <3>3. AgesInOrder'
      BY <3>1 DEF AgesInOrder, Inserted, RegistryTypeOK, Registered
    <3>4. FreshIsUnused'
      BY <3>1 DEF FreshIsUnused, RegistryTypeOK
    <3>5. CapRespected'
      BY <3>1, FewerKeepTheCap DEF AdmittedOf, RegistryTypeOK
    <3>6. NothingRegisteredOnceClosing' /\ ClosedIsAbortedAndGone'
      BY <3>1 DEF NothingRegisteredOnceClosing, ClosedIsAbortedAndGone,
                  FreshIsUnused, Registered, RegistryTypeOK
    <3> QED BY <3>2, <3>3, <3>4, <3>5, <3>6
  <2> QED BY <2>1, <2>2
<1>4. ASSUME NEW c \in Connections, AddConnection(c)
      PROVE  RegistryInv'
  <2>1. CASE BornClosed(c)
    BY <2>1, BornClosedKeepsInv
  <2>2. CASE ~BornClosed(c)
    BY <1>4, <2>2, AdmittingKeepsInv DEF AddConnection, FreshIsUnused
  <2> QED BY <2>1, <2>2
<1>5. ASSUME NEW c \in Connections, Admit(c)
      PROVE  RegistryInv'
  <2>1. CASE entry[c] = "pending"
    <3>1. Registered(c)
      BY <2>1 DEF Registered
    <3>2. ~closing
      BY <3>1 DEF NothingRegisteredOnceClosing
    <3>3. close_code[c] = Null
      BY <3>1 DEF ClosedIsAbortedAndGone
    <3>4. /\ AdmittedInPlaceOf(c, Evicted(Identity[c].account_id))
          /\ UNCHANGED <<age, next_age, closing>>
      BY <1>5, <2>1 DEF Admit
    <3> QED BY <2>1, <3>2, <3>3, <3>4, AdmittingKeepsInv
  <2>2. CASE entry[c] # "pending"
    BY <1>5, <2>2, StutterKeepsInv DEF Admit
  <2> QED BY <2>1, <2>2
<1>6. ASSUME NEW c \in Connections, TakePendingCloseCode(c)
      PROVE  RegistryInv'
  BY <1>6
  DEF TakePendingCloseCode, RegistryTypeOK, AgesInOrder, FreshIsUnused,
      CapRespected, AdmittedOf, NothingRegisteredOnceClosing, Registered,
      ClosedIsAbortedAndGone
<1>7. ASSUME NEW c \in Connections, RemoveConnection(c)
      PROVE  RegistryInv'
  <2>1. Forgotten(c) /\ UNCHANGED <<age, next_age, closing, aborted, close_code>>
    BY <1>7 DEF RemoveConnection
  <2>2. RegistryTypeOK'
    BY <2>1 DEF Forgotten, RegistryTypeOK, Removed
  <2> QED BY <2>1, <2>2, RemovingKeepsInv DEF Forgotten
<1>8. ASSUME NEW c \in Connections, NEW code \in SessionCloseCodes,
             CloseConnection(c, code)
      PROVE  RegistryInv'
  BY <1>8, CloseConnectionKeepsInv
<1>9. ASSUME NEW c \in Connections, CloseOverflowed(c)
      PROVE  RegistryInv'
  <2>1. entry' = Removed({c}) /\ EndSockets({c}, "outbound_overflow")
    BY <1>9 DEF CloseOverflowed, EndConnections
  <2>2. UNCHANGED <<age, next_age, closing>> /\ closing \in BOOLEAN
    BY <1>9 DEF CloseOverflowed, EndConnections, RegistryTypeOK
  <2>3. entry[c] = "admitted" /\ Registered(c)
    BY <1>9 DEF CloseOverflowed, Registered
  <2>4. "outbound_overflow" \in CloseCodes
    BY DEF CloseCodes
  <2> HIDE DEF RegistryInv
  <2> QED BY <2>1, <2>2, <2>3, <2>4, EndingKeepsInv
<1>10. ASSUME NEW c \in Connections, DropStalled(c)
       PROVE  RegistryInv'
  <2>1. RegistryTypeOK'
    BY <1>10 DEF DropStalled, RegistryTypeOK, Removed, CloseCodes
  <2>2. /\ entry' = Removed({c}) /\ aborted' = aborted \cup {c}
        /\ UNCHANGED <<age, next_age, closing>>
        /\ \A d \in Connections : d # c => close_code'[d] = close_code[d]
        /\ entry[c] # "fresh"
    BY <1>10 DEF DropStalled, RegistryTypeOK
  <2> QED BY <2>1, <2>2, RemovingKeepsInv
<1>11. ASSUME NEW c \in Connections, CloseSettled(c)
       PROVE  RegistryInv'
  BY <1>11
  DEF CloseSettled, RegistryTypeOK, AgesInOrder, FreshIsUnused,
      CapRespected, AdmittedOf, NothingRegisteredOnceClosing, Registered,
      ClosedIsAbortedAndGone
<1> QED
  BY RegistryNext, <1>1, <1>2, <1>3, <1>4, <1>5, <1>6, <1>7, <1>8, <1>9, <1>10,
     <1>11
  DEF RegistryNext

(* The invariant holds of an empty registry. *)
LEMMA RegistryInitInv == RegistryInit => RegistryInv
<1> SUFFICES ASSUME RegistryInit PROVE RegistryInv
  OBVIOUS
<1> USE DEF RegistryInit
<1>1. RegistryTypeOK /\ AgesInOrder /\ FreshIsUnused
  BY DEF RegistryTypeOK, AgesInOrder, FreshIsUnused, Registered
<1>2. \A a : AdmittedOf(a) = {}
  BY DEF AdmittedOf
<1>3. CapRespected
  BY <1>2, FS_EmptySet, RegistryAssumption DEF CapRespected
<1>4. NothingRegisteredOnceClosing /\ ClosedIsAbortedAndGone
  BY DEF NothingRegisteredOnceClosing, ClosedIsAbortedAndGone
<1> QED BY <1>1, <1>3, <1>4 DEF RegistryInv

-----------------------------------------------------------------------------
(* The theorems.                                                           *)

(* Whatever operations run in whatever order, the registry's invariant     *)
(* holds.                                                                  *)
THEOREM RegistryInvariance == RegistrySpec => []RegistryInv
<1>1. RegistryInv /\ [RegistryNext]_registry_vars => RegistryInv'
  BY RegistryStepKeepsInv, StutterKeepsInv
<1> QED BY RegistryInitInv, <1>1, PTL DEF RegistrySpec

(* The registry's state keeps its types; in particular no pending          *)
(* registration is ever recorded as closed by the cap or for its outbound  *)
(* queue.                                                                  *)
THEOREM RegistryTypeCorrect == RegistrySpec => []RegistryTypeOK
<1>1. RegistryInv => RegistryTypeOK
  BY DEF RegistryInv
<1> QED BY RegistryInvariance, <1>1, PTL

(* The per-account cap holds of any number of connections of any number of *)
(* accounts.                                                               *)
THEOREM CapIsRespected == RegistrySpec => []CapRespected
<1>1. RegistryInv => CapRespected
  BY DEF RegistryInv
<1> QED BY RegistryInvariance, <1>1, PTL

(* Nothing is registered from the shutdown on. *)
THEOREM NothingRegisteredAfterShutdown ==
  RegistrySpec => []NothingRegisteredOnceClosing
<1>1. RegistryInv => NothingRegisteredOnceClosing
  BY DEF RegistryInv
<1> QED BY RegistryInvariance, <1>1, PTL

(* A connection that was sent a close is aborted and out of the map. *)
THEOREM ClosedConnectionsAreGone == RegistrySpec => []ClosedIsAbortedAndGone
<1>1. RegistryInv => ClosedIsAbortedAndGone
  BY DEF RegistryInv
<1> QED BY RegistryInvariance, <1>1, PTL

-----------------------------------------------------------------------------
(* Eviction takes the oldest, and only for a newcomer.                     *)

LeavesOnlyForANewcomer(c) ==
  LeavesForTheCap(c) =>
    LET a == Identity[c].account_id
    IN /\ \E d \in Connections : /\ Identity[d].account_id = a
                                 /\ entry[d] # "admitted"
                                 /\ entry'[d] = "admitted"
       /\ \A d \in AdmittedOf(a) : Older(d, c) => entry'[d] = "gone"

(* What is older than an evicted connection is evicted too. *)
LEMMA EvictedIsOldest ==
  ASSUME RegistryTypeOK, NEW a, NEW c \in Evicted(a),
         NEW d \in AdmittedOf(a), Older(d, c)
  PROVE  d \in Evicted(a)
<1> DEFINE After(x) == {y \in AdmittedOf(a) : Older(x, y)}
<1>1. c \in Connections /\ d \in Connections /\ AdmittedOf(a) \subseteq Connections
  BY DEF Evicted, AdmittedOf
<1>2. After(c) \subseteq After(d)
  BY <1>1 DEF Older, RegistryTypeOK
<1>3. IsFiniteSet(After(d))
  BY AdmittedFinite
<1>4. /\ Cardinality(After(c)) <= Cardinality(After(d))
      /\ Cardinality(After(c)) \in Nat /\ Cardinality(After(d)) \in Nat
  BY <1>2, <1>3, FS_Subset, FS_CardinalityType
<1>5. /\ MaxConnectionsPerAccount \in Nat
      /\ MaxConnectionsPerAccount # Null
      /\ Cardinality(After(c)) + 1 >= MaxConnectionsPerAccount
  BY RegistryAssumption DEF Evicted
<1>6. Cardinality(After(d)) + 1 >= MaxConnectionsPerAccount
  BY <1>4, <1>5
<1> QED BY <1>5, <1>6 DEF Evicted

LEMMA AdmissionEvictsOldest ==
  ASSUME RegistryTypeOK, NEW n \in Connections, entry[n] # "admitted",
         AdmittedInPlaceOf(n, Evicted(Identity[n].account_id)),
         NEW c \in Connections
  PROVE  LeavesOnlyForANewcomer(c)
<1> DEFINE own == Identity[n].account_id
<1> SUFFICES ASSUME LeavesForTheCap(c)
             PROVE  /\ Identity[c].account_id = own
                    /\ entry'[n] = "admitted"
                    /\ \A d \in AdmittedOf(own) : Older(d, c) => entry'[d] = "gone"
  BY DEF LeavesOnlyForANewcomer
<1>1. entry' = [Removed(Evicted(own)) EXCEPT ![n] = "admitted"]
  BY DEF AdmittedInPlaceOf
<1>2. entry'[n] = "admitted"
  BY <1>1 DEF Removed
<1>3. c \in Evicted(own)
  BY <1>1 DEF LeavesForTheCap, Removed
<1>4. \A d \in Evicted(own) : d \in Connections /\ d # n
  BY DEF Evicted, AdmittedOf
<1>5. \A d \in Evicted(own) : entry'[d] = "gone"
  BY <1>1, <1>4 DEF Removed
<1>6. Identity[c].account_id = own
  BY <1>3 DEF Evicted, AdmittedOf
<1> QED BY <1>2, <1>3, <1>5, <1>6, EvictedIsOldest

(* The cap closes a connection only in a step that admits another of its   *)
(* account, and no admitted connection registered before it survives.      *)
THEOREM EvictionTakesTheOldest == RegistrySpec => EvictsOldestForANewcomer
<1> DEFINE Step == \A c \in Connections : LeavesOnlyForANewcomer(c)
<1>1. ASSUME RegistryTypeOK, [RegistryNext]_registry_vars
      PROVE  [Step]_registry_vars
  <2> SUFFICES ASSUME RegistryNext, NEW c \in Connections, LeavesForTheCap(c)
               PROVE  LeavesOnlyForANewcomer(c)
    BY <1>1 DEF LeavesOnlyForANewcomer
  <2>1. close_code'[c] # close_code[c] /\ close_code'[c] = "connection_limit"
    BY RegistryAssumption DEF LeavesForTheCap, CloseCodes
  <2>2. ASSUME NEW n \in Connections, Admit(n)
        PROVE  LeavesOnlyForANewcomer(c)
    BY <2>1, <2>2, <1>1, AdmissionEvictsOldest DEF Admit, registry_vars
  <2>3. ASSUME NEW n \in Connections, AddConnection(n)
        PROVE  LeavesOnlyForANewcomer(c)
    <3>1. ~BornClosed(n)
      BY <2>1, <1>1 DEF BornClosed, RegistryTypeOK
    <3> QED BY <2>3, <3>1, <1>1, AdmissionEvictsOldest DEF AddConnection
  <2>4. \A S, code : EndSockets(S, code) => code = "connection_limit"
    BY <2>1 DEF EndSockets
  <2>5. ~CloseAllConnections /\ \A t \in Targets : ~CloseConnections(t)
    BY <2>4 DEF CloseAllConnections, CloseConnections, EndConnections, TargetCode
  <2>6. ASSUME NEW n \in Connections
        PROVE  /\ ~CloseOverflowed(n) /\ ~DropStalled(n) /\ ~CloseSettled(n)
               /\ ~RegisterPending(n) /\ ~TakePendingCloseCode(n)
               /\ ~RemoveConnection(n)
               /\ \A code \in SessionCloseCodes : ~CloseConnection(n, code)
    <3>1. /\ ~CloseOverflowed(n)
          /\ \A code \in SessionCloseCodes : ~CloseConnection(n, code)
      BY <2>4 DEF CloseOverflowed, CloseConnection, EndConnections, SessionCloseCodes
    <3>2. ~DropStalled(n) /\ ~RegisterPending(n)
      BY <2>1, <1>1 DEF DropStalled, RegisterPending, BornClosed, RegistryTypeOK
    <3>3. ~CloseSettled(n) /\ ~TakePendingCloseCode(n) /\ ~RemoveConnection(n)
      BY <2>1 DEF CloseSettled, TakePendingCloseCode, RemoveConnection
    <3> QED BY <3>1, <3>2, <3>3
  <2> QED BY <2>2, <2>3, <2>5, <2>6 DEF RegistryNext
<1>2. RegistrySpec => [][Step]_registry_vars
  BY <1>1, RegistryTypeCorrect, PTL DEF RegistrySpec
<1> QED BY <1>2 DEF EvictsOldestForANewcomer, LeavesOnlyForANewcomer

-----------------------------------------------------------------------------
(***************************************************************************)
(* The inductive invariant.  A registration's stage and its entry move     *)
(* together; what the re-check has read so far still holds, or its loss is *)
(* committed and a close that names the registration is due.  That is why  *)
(* a pending registration must be closed like an admitted one: the close   *)
(* that finds it pending is the only trace of a loss after the read.       *)
(***************************************************************************)
Due(c) == OwedBy(c, queued) \/ OwedBy(c, silent)

StageMatchesEntry(c) ==
  /\ entry[c] = "fresh" <=> stage[c] \in {"none", "upgrading"}
  /\ entry[c] = "pending" => stage[c] \in Rechecks \cup {"admit", "refuse"}
  /\ entry[c] = "admitted" => stage[c] \in {"admitted", "open"}
  /\ entry[c] = "fresh" => socket[c] = "none"
  /\ stage[c] = "refuse" => refusal[c] # Null

SignalMatchesEntry(c) ==
  /\ Registered(c) => c \notin aborted
  /\ c \in armed => stage[c] = "open"
  /\ entry[c] = "admitted" /\ stage[c] = "open" /\ CredentialOf(c) # {} =>
       c \in armed

ReadSoFar(c) ==
  Registered(c) =>
    /\ stage[c] \in {"account", "actor", "role", "admit", "admitted", "open"} =>
         RowPresent(c) \/ Due(c)
    /\ stage[c] \in {"actor", "role", "admit", "admitted", "open"} =>
         AccountActive(c) \/ Due(c)
    /\ stage[c] \in {"admit", "admitted", "open"} => RoleHeld(c) \/ Due(c)

AdmissionInv ==
  /\ AdmissionTypeOK
  /\ RegistryInv
  /\ \A c \in Connections :
       StageMatchesEntry(c) /\ SignalMatchesEntry(c) /\ ReadSoFar(c)

(* The invariant says of admitted connections what the guarantee says. *)
LEMMA InvImpliesGuarantee == AdmissionInv => AdmittedOnAuthority
<1> SUFFICES ASSUME AdmissionInv, NEW c \in Connections, entry[c] = "admitted",
                    ~Authorized(c)
             PROVE  Owed(c)
  BY DEF AdmittedOnAuthority
<1>1. stage[c] \in {"admitted", "open"} /\ Registered(c)
  BY DEF AdmissionInv, StageMatchesEntry, Registered
<1>2. ReadSoFar(c) /\ SignalMatchesEntry(c)
  BY DEF AdmissionInv
<1>3. CASE ~RowPresent(c) \/ ~AccountActive(c) \/ ~RoleHeld(c)
  BY <1>1, <1>2, <1>3 DEF ReadSoFar, Due, Owed
<1>4. CASE DeadlinePassed(c)
  <2>1. CredentialOf(c) # {}
    BY <1>4 DEF DeadlinePassed
  <2>2. c \in armed \/ stage[c] # "open"
    BY <1>1, <1>2, <2>1 DEF SignalMatchesEntry
  <2> QED BY <1>4, <2>2 DEF Owed, OwedByDeadline
<1> QED BY <1>3, <1>4 DEF Authorized

(* Before any upgrade nothing has been read. *)
LEMMA AdmissionInitInv == AdmissionInit => AdmissionInv
<1> SUFFICES ASSUME AdmissionInit PROVE AdmissionInv
  OBVIOUS
<1>1. RegistryInv
  BY RegistryInitInv DEF AdmissionInit
<1>2. AdmissionTypeOK
  BY <1>1 DEF AdmissionTypeOK, AdmissionInit, RegistryInv, Stages
<1>3. ASSUME NEW c \in Connections
      PROVE  StageMatchesEntry(c) /\ SignalMatchesEntry(c) /\ ReadSoFar(c)
  BY DEF AdmissionInit, RegistryInit, StageMatchesEntry, SignalMatchesEntry,
         ReadSoFar, Registered
<1> QED BY <1>1, <1>2, <1>3 DEF AdmissionInv

-----------------------------------------------------------------------------
(* What most steps do to a connection: leave it alone or end it.           *)

ConnectionInv(c) ==
  StageMatchesEntry(c) /\ SignalMatchesEntry(c) /\ ReadSoFar(c)

KeptOrEnded(c) ==
  /\ entry'[c] = entry[c] \/ (entry'[c] = "gone" /\ entry[c] # "fresh")
  /\ Registered(c)' => c \notin aborted'

Undisturbed(c) ==
  /\ KeptOrEnded(c)
  /\ stage'[c] = stage[c]
  /\ refusal'[c] = refusal[c]
  /\ socket'[c] = socket[c] \/ entry[c] # "fresh"
  /\ c \in armed' => c \in armed
  /\ c \in armed /\ c \notin aborted' => c \in armed'

(* A connection a step leaves alone or ends keeps its part of the invariant. *)
LEMMA UndisturbedKeepsInv ==
  ASSUME AdmissionInv, NEW c \in Connections, Undisturbed(c),
         UNCHANGED <<db_vars, close_vars>>
  PROVE  ConnectionInv(c)'
<1> StageMatchesEntry(c) /\ SignalMatchesEntry(c) /\ ReadSoFar(c)
  BY DEF AdmissionInv
<1> USE DEF Undisturbed, KeptOrEnded
<1>1. StageMatchesEntry(c)'
  BY DEF StageMatchesEntry
<1>2. SignalMatchesEntry(c)'
  BY DEF SignalMatchesEntry, CredentialOf, Registered
<1>3. ReadSoFar(c)'
  BY DEF ReadSoFar, Registered, RowPresent, CredentialOf, AccountActive,
         RoleHeld, Due, OwedBy, Matches, db_vars, close_vars
<1> QED BY <1>1, <1>2, <1>3 DEF ConnectionInv

(* Ending a set of registered connections keeps the rest. *)
LEMMA EndingKeepsOrEnds ==
  ASSUME AdmissionInv, NEW S, NEW code,
         \A c \in S : c \in Connections /\ Registered(c),
         entry' = Removed(S), EndSockets(S, code)
  PROVE  \A c \in Connections : KeptOrEnded(c)
BY DEF KeptOrEnded, Removed, EndSockets, Registered, AdmissionInv,
       SignalMatchesEntry

(* end_socket, on a socket that was opened. *)
LEMMA EndSocketKeeps ==
  ASSUME AdmissionInv, NEW c \in Connections, entry[c] # "fresh",
         NEW code \in SessionCloseCodes, EndSocket(c, code)
  PROVE  /\ RegistryInv'
         /\ \A d \in Connections : KeptOrEnded(d)
         /\ c \in aborted'
<1>1. RegistryInv /\ RegistryTypeOK
  BY DEF AdmissionInv, RegistryInv
<1>2. CASE CloseConnection(c, code)
  <2>1. RegistryInv'
    BY <1>1, <1>2, CloseConnectionKeepsInv
  <2>2. entry' = Removed({c}) /\ EndSockets({c}, code) /\ Registered(c)
    BY <1>2 DEF CloseConnection, EndConnections
  <2>3. \A d \in Connections : KeptOrEnded(d)
    BY <2>2, EndingKeepsOrEnds
  <2> QED BY <2>1, <2>2, <2>3 DEF EndSockets
<1>3. CASE ~CloseConnection(c, code)
  <2>1. /\ ~Registered(c)
        /\ aborted' = aborted \cup {c}
        /\ \A d \in Connections : d # c => close_code'[d] = close_code[d]
        /\ close_code' \in [Connections -> CloseCodes \cup {Null}]
        /\ UNCHANGED <<entry, age, next_age, closing, pending_close_codes,
                       closing_writers>>
    BY <1>1, <1>3 DEF EndSocket, RegistryTypeOK, SessionCloseCodes, CloseCodes
  <2>2. entry' = Removed({c}) \/ entry' = entry
    BY <2>1
  <2>3. RegistryTypeOK'
    BY <1>1, <2>1 DEF RegistryTypeOK
  <2>4. CapRespected'
    BY <1>1, <2>1, FewerKeepTheCap DEF RegistryInv, AdmittedOf
  <2>5. AgesInOrder' /\ FreshIsUnused'
    BY <1>1, <2>1 DEF RegistryInv, AgesInOrder, FreshIsUnused, Registered
  <2>6. NothingRegisteredOnceClosing' /\ ClosedIsAbortedAndGone'
    BY <1>1, <2>1 DEF RegistryInv, NothingRegisteredOnceClosing,
                      ClosedIsAbortedAndGone, Registered
  <2>7. \A d \in Connections : KeptOrEnded(d)
    BY <2>1 DEF KeptOrEnded, Registered, AdmissionInv, SignalMatchesEntry
  <2> QED BY <2>1, <2>3, <2>4, <2>5, <2>6, <2>7 DEF RegistryInv
<1> QED BY <1>2, <1>3

(* The registry alone is disturbed, and only by ends. *)
LEMMA EndsKeepInv ==
  ASSUME AdmissionInv, RegistryInv', AbortListeners,
         \A c \in Connections : KeptOrEnded(c),
         UNCHANGED <<stage, refusal, socket, db_vars, close_vars>>
  PROVE  AdmissionInv'
<1>1. AdmissionTypeOK'
  BY DEF AdmissionTypeOK, AdmissionInv, RegistryInv, AbortListeners, db_vars,
         close_vars
<1>2. ASSUME NEW c \in Connections
      PROVE  Undisturbed(c)
  BY DEF Undisturbed, AbortListeners
<1>3. \A c \in Connections : ConnectionInv(c)'
  BY <1>2, UndisturbedKeepsInv
<1> QED BY <1>1, <1>3 DEF AdmissionInv, ConnectionInv

(* One connection moves on to stage s; the others are left or ended.       *)
LEMMA MoveKeepsInv ==
  ASSUME AdmissionInv, RegistryInv', NEW c \in Connections,
         NEW s \in Stages, StageTo(c, s),
         refusal' \in [Connections -> {"session_revoked", "permission_revoked",
                                       "internal_error", Null}],
         socket' \in [Connections -> {"none", "open", "closed"}],
         armed' \subseteq Connections,
         \A d \in Connections \ {c} :
           /\ KeptOrEnded(d)
           /\ refusal'[d] = refusal[d]
           /\ socket'[d] = socket[d]
           /\ d \in armed' => d \in armed
           /\ d \in armed /\ d \notin aborted' => d \in armed',
         ConnectionInv(c)',
         UNCHANGED <<db_vars, close_vars>>
  PROVE  AdmissionInv'
<1> stage \in [Connections -> Stages]
  BY DEF AdmissionInv, AdmissionTypeOK
<1>1. AdmissionTypeOK'
  BY DEF AdmissionTypeOK, AdmissionInv, RegistryInv, StageTo, db_vars, close_vars
<1>2. ASSUME NEW d \in Connections \ {c}
      PROVE  ConnectionInv(d)'
  <2>1. Undisturbed(d)
    BY DEF Undisturbed, StageTo
  <2> QED BY <2>1, UndisturbedKeepsInv
<1> QED BY <1>1, <1>2 DEF AdmissionInv, ConnectionInv

-----------------------------------------------------------------------------
(* The steps of an upgrade.                                                *)

(* The gates promise nothing yet: the re-check reads everything again. *)
LEMMA PassGatesKeepsInv ==
  ASSUME AdmissionInv, NEW c \in Connections, PassGates(c)
  PROVE  AdmissionInv'
<1> USE DEF PassGates
<1>1. RegistryInv'
  BY StutterKeepsInv DEF AdmissionInv
<1>2. \A d \in Connections : KeptOrEnded(d)
  BY DEF KeptOrEnded, registry_vars, Registered, AdmissionInv, SignalMatchesEntry
<1>3. "upgrading" \in Stages
  BY DEF Stages
<1>4. stage'[c] = "upgrading" /\ entry'[c] = "fresh"
  BY DEF StageTo, AdmissionInv, AdmissionTypeOK, StageMatchesEntry, registry_vars
<1>5. ConnectionInv(c)'
  BY <1>4 DEF ConnectionInv, StageMatchesEntry, SignalMatchesEntry, ReadSoFar,
              Registered, AdmissionInv, StageTo
<1>6. UNCHANGED <<refusal, socket, armed, db_vars, close_vars>>
  OBVIOUS
<1> QED
  BY <1>1, <1>2, <1>3, <1>5, <1>6, MoveKeepsInv DEF AdmissionInv, AdmissionTypeOK

(* A registration starts out pending with nothing read, or is born closed. *)
LEMMA OnOpenKeepsInv ==
  ASSUME AdmissionInv, NEW c \in Connections, OnOpen(c)
  PROVE  AdmissionInv'
<1> USE DEF OnOpen
<1>1. RegistryInv /\ RegistryTypeOK /\ AdmissionTypeOK
  BY DEF AdmissionInv, RegistryInv
<1>2. RegistryInv'
  BY <1>1, RegistryStepKeepsInv DEF RegistryNext
<1>3. /\ stage[c] = "upgrading"
      /\ \/ closing /\ entry'[c] = "gone" /\ stage'[c] = "done"
         \/ ~closing /\ entry'[c] = "pending" /\ stage'[c] = "credential"
              /\ c \notin aborted'
  BY <1>1 DEF RegisterPending, BornClosed, AdmissionTypeOK, RegistryTypeOK,
              StageTo, RegistryInv, FreshIsUnused
<1>4. \A d \in Connections \ {c} :
        KeptOrEnded(d) /\ socket'[d] = socket[d]
  BY <1>1 DEF KeptOrEnded, RegisterPending, BornClosed, RegistryTypeOK,
              Registered, AdmissionInv, SignalMatchesEntry, AdmissionTypeOK
<1>5. c \notin armed'
  BY <1>3 DEF AdmissionInv, SignalMatchesEntry
<1>6. ConnectionInv(c)'
  BY <1>3, <1>5 DEF ConnectionInv, StageMatchesEntry, SignalMatchesEntry,
                    ReadSoFar, Registered, Rechecks
<1>7. \E s \in Stages : StageTo(c, s)
  BY DEF Stages, Rechecks
<1>8. socket' \in [Connections -> {"none", "open", "closed"}]
  BY <1>1 DEF AdmissionTypeOK
<1>9. UNCHANGED <<refusal, armed, db_vars, close_vars>>
  OBVIOUS
<1> QED
  BY <1>1, <1>2, <1>4, <1>6, <1>7, <1>8, <1>9, MoveKeepsInv DEF AdmissionTypeOK

(* Each read adds what it found to what has been read. *)
LEMMA RecheckKeepsInv ==
  ASSUME AdmissionInv, NEW c \in Connections, Recheck(c)
  PROVE  AdmissionInv'
<1> USE DEF Recheck
<1>1. AdmissionTypeOK /\ ConnectionInv(c)
  BY DEF AdmissionInv, ConnectionInv
<1>2. RegistryInv'
  BY StutterKeepsInv DEF AdmissionInv
<1>3. \A d \in Connections : KeptOrEnded(d)
  BY DEF KeptOrEnded, registry_vars, Registered, AdmissionInv, SignalMatchesEntry
<1>4. PICK s \in {"account", "actor", "role", "admit", "refuse"} : StageTo(c, s)
  BY DEF ReadCredential, ReadAccount, ReadActor, ReadRole, ReadFails, RefuseWith
<1>5. stage[c] \in Rechecks /\ stage'[c] = s
  BY <1>1, <1>4 DEF ReadCredential, ReadAccount, ReadActor, ReadRole, ReadFails,
                    Rechecks, StageTo, AdmissionTypeOK
<1>6. /\ s = "account" => RowPresent(c)
      /\ s = "actor" => stage[c] = "account" /\ AccountActive(c)
      /\ s = "role" => stage[c] = "actor"
      /\ s = "admit" => /\ stage[c] \in {"actor", "role"}
                        /\ RoleHeld(c)
  <2>1. \A t : StageTo(c, t) => t = s
    BY <1>1, <1>5 DEF StageTo, AdmissionTypeOK
  <2>2. CASE ReadCredential(c)
    BY <2>1, <2>2 DEF ReadCredential, RefuseWith
  <2>3. CASE ReadAccount(c)
    BY <2>1, <2>3 DEF ReadAccount, RefuseWith
  <2>4. CASE ReadActor(c)
    BY <2>1, <2>4 DEF ReadActor, RefuseWith, RoleHeld
  <2>5. CASE ReadRole(c)
    BY <2>1, <2>5 DEF ReadRole, RefuseWith
  <2>6. CASE ReadFails(c)
    BY <2>1, <2>6 DEF ReadFails, RefuseWith
  <2> QED BY <2>2, <2>3, <2>4, <2>5, <2>6
<1>7. /\ entry' = entry /\ aborted' = aborted
      /\ UNCHANGED <<socket, armed, db_vars, close_vars>>
  BY DEF registry_vars
<1>8. /\ RowPresent(c)' = RowPresent(c) /\ Due(c)' = Due(c)
      /\ AccountActive(c)' = AccountActive(c) /\ RoleHeld(c)' = RoleHeld(c)
  BY <1>7 DEF RowPresent, CredentialOf, Due, OwedBy, Matches, AccountActive,
              RoleHeld, db_vars, close_vars
<1>9. ReadSoFar(c)'
  BY <1>1, <1>5, <1>6, <1>7, <1>8 DEF ReadSoFar, ConnectionInv, Registered
<1>10. /\ s = "refuse" => refusal'[c] # Null
      /\ \A d \in Connections \ {c} : refusal'[d] = refusal[d]
  <2>1. \A t : StageTo(c, t) => t = s
    BY <1>1, <1>5 DEF StageTo, AdmissionTypeOK
  <2>2. \A code \in CloseCodes : RefuseWith(c, code) =>
           /\ refusal'[c] # Null
           /\ \A d \in Connections \ {c} : refusal'[d] = refusal[d]
    BY <1>1, RegistryAssumption DEF RefuseWith, AdmissionTypeOK
  <2> QED
    BY <2>1, <2>2 DEF ReadCredential, ReadAccount, ReadActor, ReadRole,
       ReadFails, CloseCodes
<1>11. StageMatchesEntry(c)' /\ SignalMatchesEntry(c)'
  BY <1>1, <1>5, <1>7, <1>10 DEF StageMatchesEntry, SignalMatchesEntry, ConnectionInv,
                          Rechecks, Registered
<1>12. /\ s \in Stages
       /\ refusal' \in [Connections -> {"session_revoked", "permission_revoked",
                                        "internal_error", Null}]
  BY <1>1 DEF Stages, Rechecks, AdmissionTypeOK, ReadCredential, ReadAccount,
              ReadActor, ReadRole, ReadFails, RefuseWith
<1> QED
  BY <1>1, <1>2, <1>3, <1>4, <1>7, <1>10, <1>9, <1>11, <1>12, MoveKeepsInv
  DEF AdmissionTypeOK, ConnectionInv

(* A failed re-check has said with which code to refuse. *)
LEMMA RefuseKeepsInv ==
  ASSUME AdmissionInv, NEW c \in Connections, Refuse(c)
  PROVE  AdmissionInv'
<1> USE DEF Refuse
<1>1. /\ AdmissionTypeOK /\ RegistryInv /\ ConnectionInv(c)
      /\ entry[c] # "fresh" /\ entry[c] # "admitted"
  BY DEF AdmissionInv, ConnectionInv, StageMatchesEntry
<1>2. /\ RegistryInv' /\ \A d \in Connections : KeptOrEnded(d)
      /\ c \in aborted'
  <2>1. CASE c \in aborted
    <3>1. UNCHANGED registry_vars
      BY <2>1
    <3> QED
      BY <1>1, <2>1, <3>1, StutterKeepsInv
      DEF KeptOrEnded, registry_vars, Registered, AdmissionInv,
          SignalMatchesEntry
  <2>2. CASE c \notin aborted
    <3>1. refusal[c] \in SessionCloseCodes
      BY <1>1 DEF ConnectionInv, StageMatchesEntry, AdmissionTypeOK,
                  SessionCloseCodes
    <3> QED BY <1>1, <2>2, <3>1, EndSocketKeeps
  <2> QED BY <2>1, <2>2
<1>3. stage'[c] = "done" /\ ~Registered(c)' /\ entry'[c] # "fresh"
  BY <1>1, <1>2 DEF KeptOrEnded, StageTo, AdmissionTypeOK, Registered
<1>4. ConnectionInv(c)'
  BY <1>1, <1>3 DEF ConnectionInv, StageMatchesEntry, SignalMatchesEntry,
                    ReadSoFar, Registered, AbortListeners
<1>5. "done" \in Stages /\ armed' \subseteq Connections
  BY <1>1 DEF Stages, AdmissionTypeOK, AbortListeners
<1>6. UNCHANGED <<refusal, socket, db_vars, close_vars>>
  OBVIOUS
<1> QED
  BY <1>1, <1>2, <1>4, <1>5, <1>6, MoveKeepsInv
  DEF AdmissionTypeOK, AbortListeners

(* What the re-check read carries over to the admission. *)
LEMMA AdmitUpgradeKeepsInv ==
  ASSUME AdmissionInv, NEW c \in Connections, AdmitUpgrade(c)
  PROVE  AdmissionInv'
<1> USE DEF AdmitUpgrade
<1>1. AdmissionTypeOK /\ RegistryInv /\ RegistryTypeOK /\ ConnectionInv(c)
  BY DEF AdmissionInv, ConnectionInv, RegistryInv
<1>2. RegistryInv'
  BY <1>1, RegistryStepKeepsInv DEF RegistryNext
<1>3. /\ stage[c] = "admit" /\ entry[c] = "pending"
      /\ AdmittedInPlaceOf(c, Evicted(Identity[c].account_id))
  BY <1>1 DEF Admit, ConnectionInv, StageMatchesEntry
<1> DEFINE S == Evicted(Identity[c].account_id)
<1>4. \A d \in S : d \in Connections /\ entry[d] = "admitted"
  BY DEF Evicted, AdmittedOf
<1>5. /\ entry'[c] = "admitted" /\ stage'[c] = "admitted"
      /\ aborted' = aborted \cup S /\ c \notin aborted'
  BY <1>1, <1>3, <1>4 DEF AdmittedInPlaceOf, Removed, EndSockets, StageTo,
       AdmissionTypeOK, ConnectionInv, SignalMatchesEntry, Registered
<1>6. \A d \in Connections \ {c} : KeptOrEnded(d)
  BY <1>3, <1>4, <1>5 DEF KeptOrEnded, AdmittedInPlaceOf, Removed, Registered,
       AdmissionInv, SignalMatchesEntry
<1>7. ReadSoFar(c)'
  BY <1>1, <1>3, <1>5 DEF ReadSoFar, ConnectionInv, Registered, RowPresent,
       CredentialOf, AccountActive, RoleHeld, Due, OwedBy, Matches, db_vars,
       close_vars
<1>8. ConnectionInv(c)'
  BY <1>1, <1>3, <1>5, <1>7 DEF ConnectionInv, StageMatchesEntry,
       SignalMatchesEntry, AbortListeners
<1>9. "admitted" \in Stages /\ armed' \subseteq Connections
  BY <1>1 DEF Stages, AdmissionTypeOK, AbortListeners
<1>10. UNCHANGED <<refusal, socket, db_vars, close_vars>>
  OBVIOUS
<1> QED
  BY <1>1, <1>2, <1>6, <1>8, <1>9, <1>10, MoveKeepsInv
  DEF AdmissionTypeOK, AbortListeners

(* A registration closed under its re-check is not brought back. *)
LEMMA AdmitUpgradeRefusedKeepsInv ==
  ASSUME AdmissionInv, NEW c \in Connections, AdmitUpgradeRefused(c)
  PROVE  AdmissionInv'
<1> USE DEF AdmitUpgradeRefused
<1>1. /\ AdmissionTypeOK /\ RegistryInv /\ ConnectionInv(c)
      /\ entry[c] # "fresh" /\ ~Registered(c)
  BY DEF AdmissionInv, ConnectionInv, StageMatchesEntry, AdmitRefused
<1>2. RegistryInv' /\ \A d \in Connections : KeptOrEnded(d)
  <2>1. CASE c \in aborted
    <3>1. RegistryInv' /\ UNCHANGED <<entry, aborted>>
      BY <1>1, <2>1, RegistryStepKeepsInv DEF RegistryNext, TakePendingCloseCode
    <3> QED
      BY <3>1 DEF KeptOrEnded, Registered, AdmissionInv, SignalMatchesEntry
  <2>2. CASE c \notin aborted
    <3>1. "session_revoked" \in SessionCloseCodes
      BY DEF SessionCloseCodes
    <3> QED BY <1>1, <2>2, <3>1, EndSocketKeeps
  <2> QED BY <2>1, <2>2
<1>3. stage'[c] = "done" /\ ~Registered(c)' /\ entry'[c] # "fresh"
  BY <1>1, <1>2 DEF KeptOrEnded, StageTo, AdmissionTypeOK, Registered
<1>4. ConnectionInv(c)'
  BY <1>1, <1>3 DEF ConnectionInv, StageMatchesEntry, SignalMatchesEntry,
                    ReadSoFar, Registered, AbortListeners
<1>5. "done" \in Stages /\ armed' \subseteq Connections
  BY <1>1 DEF Stages, AdmissionTypeOK, AbortListeners
<1>6. UNCHANGED <<refusal, socket, db_vars, close_vars>>
  OBVIOUS
<1> QED
  BY <1>1, <1>2, <1>4, <1>5, <1>6, MoveKeepsInv
  DEF AdmissionTypeOK, AbortListeners

(* A connection that goes on to open has its deadline timer, or has ended. *)
LEMMA StartDeadlineKeepsInv ==
  ASSUME AdmissionInv, NEW c \in Connections, StartDeadline(c)
  PROVE  AdmissionInv'
<1> USE DEF StartDeadline
<1>1. /\ AdmissionTypeOK /\ RegistryInv /\ ConnectionInv(c)
      /\ entry[c] # "fresh" /\ entry[c] # "pending"
  BY DEF AdmissionInv, ConnectionInv, StageMatchesEntry, Rechecks
<1>2. stage'[c] = "open" /\ "open" \in Stages
  BY <1>1 DEF StageTo, AdmissionTypeOK, Stages
<1>3. UNCHANGED <<refusal, socket, db_vars, close_vars>>
  OBVIOUS
<1>4. CASE c \notin aborted /\ DeadlinePassed(c)
  <2>1. /\ RegistryInv' /\ \A d \in Connections : KeptOrEnded(d)
        /\ c \in aborted'
    <3>1. "session_revoked" \in SessionCloseCodes
      BY DEF SessionCloseCodes
    <3> QED BY <1>1, <1>4, <3>1, EndSocketKeeps
  <2>2. ~Registered(c)' /\ entry'[c] # "fresh" /\ armed' = armed
    BY <1>1, <1>4, <2>1 DEF KeptOrEnded
  <2>3. ConnectionInv(c)'
    BY <1>2, <2>2 DEF ConnectionInv, StageMatchesEntry, SignalMatchesEntry,
                      ReadSoFar, Registered
  <2> QED
    BY <1>1, <1>2, <1>3, <2>1, <2>2, <2>3, MoveKeepsInv DEF AdmissionTypeOK
<1>5. CASE c \in aborted \/ ~DeadlinePassed(c)
  <2>1. /\ UNCHANGED registry_vars
        /\ armed' = IF c \in aborted \/ CredentialOf(c) = {}
                      THEN armed ELSE armed \cup {c}
    BY <1>5
  <2>2. RegistryInv'
    BY <1>1, <2>1, StutterKeepsInv
  <2>3. \A d \in Connections : KeptOrEnded(d)
    BY <2>1 DEF KeptOrEnded, registry_vars, Registered, AdmissionInv,
                SignalMatchesEntry
  <2>4. UNCHANGED <<entry, aborted>>
    BY <2>1 DEF registry_vars
  <2>5. ReadSoFar(c)'
    BY <1>1, <1>2, <1>3, <2>4 DEF ReadSoFar, ConnectionInv, Registered, RowPresent,
       CredentialOf, AccountActive, RoleHeld, Due, OwedBy, Matches, db_vars,
       close_vars
  <2>6. ConnectionInv(c)'
    BY <1>1, <1>2, <2>1, <2>4, <2>5 DEF ConnectionInv, StageMatchesEntry,
       SignalMatchesEntry, Registered, CredentialOf
  <2> QED
    BY <1>1, <1>2, <1>3, <2>1, <2>2, <2>3, <2>6, MoveKeepsInv
    DEF AdmissionTypeOK
<1> QED BY <1>4, <1>5

-----------------------------------------------------------------------------
(* The ends of a socket.                                                   *)

(* A deadline timer runs only for a socket that was opened. *)
LEMMA DeadlineFiresKeepsInv ==
  ASSUME AdmissionInv, NEW c \in Connections, DeadlineFires(c)
  PROVE  AdmissionInv'
<1>1. entry[c] # "fresh" /\ "session_revoked" \in SessionCloseCodes
  BY DEF AdmissionInv, StageMatchesEntry, SignalMatchesEntry, DeadlineFires,
         SessionCloseCodes
<1>2. RegistryInv' /\ \A d \in Connections : KeptOrEnded(d)
  BY <1>1, EndSocketKeeps DEF DeadlineFires
<1> QED BY <1>2, EndsKeepInv DEF DeadlineFires

(* Only an open socket is closed for a reason of its own. *)
LEMMA EndForOtherReasonKeepsInv ==
  ASSUME AdmissionInv, NEW c \in Connections, EndForOtherReason(c)
  PROVE  AdmissionInv'
<1>1. entry[c] # "fresh" /\ "other" \in SessionCloseCodes
  BY DEF AdmissionInv, StageMatchesEntry, EndForOtherReason, SessionCloseCodes
<1>2. RegistryInv' /\ \A d \in Connections : KeptOrEnded(d)
  BY <1>1, EndSocketKeeps DEF EndForOtherReason
<1> QED BY <1>2, EndsKeepInv DEF EndForOtherReason

(* The outbound bound ends one admitted connection. *)
LEMMA EndByOutboundBoundKeepsInv ==
  ASSUME AdmissionInv, NEW c \in Connections, EndByOutboundBound(c)
  PROVE  AdmissionInv'
<1>1. RegistryInv'
  BY RegistryStepKeepsInv DEF AdmissionInv, RegistryNext, EndByOutboundBound
<1>2. /\ entry[c] = "admitted" /\ entry' = Removed({c})
      /\ aborted' = aborted \cup {c}
  BY DEF EndByOutboundBound, CloseOverflowed, DropStalled, EndConnections,
         EndSockets
<1>3. \A d \in Connections : KeptOrEnded(d)
  BY <1>2 DEF KeptOrEnded, Removed, Registered, AdmissionInv, SignalMatchesEntry
<1> QED BY <1>1, <1>3, EndsKeepInv DEF EndByOutboundBound

(* A close event takes its connection out, whatever stage it had reached. *)
LEMMA OnCloseKeepsInv ==
  ASSUME AdmissionInv, NEW c \in Connections, OnClose(c)
  PROVE  AdmissionInv'
<1> USE DEF OnClose
<1>1. AdmissionTypeOK /\ RegistryInv /\ RegistryTypeOK
  BY DEF AdmissionInv, RegistryInv
<1>2. /\ entry[c] # "fresh" /\ entry' = Removed({c})
      /\ aborted' = aborted \cup {c}
      /\ UNCHANGED <<age, next_age, closing, close_code>>
  BY DEF Forgotten
<1>3. RegistryTypeOK'
  BY <1>1 DEF RegistryTypeOK, Forgotten, Removed
<1>4. RegistryInv'
  BY <1>1, <1>2, <1>3, RemovingKeepsInv
<1>5. AdmissionTypeOK'
  BY <1>1, <1>3 DEF AdmissionTypeOK, AbortListeners, db_vars, close_vars
<1>6. ASSUME NEW d \in Connections
      PROVE  Undisturbed(d)
  <2>1. KeptOrEnded(d)
    BY <1>2 DEF KeptOrEnded, Removed, Registered, AdmissionInv,
                SignalMatchesEntry
  <2>2. socket'[d] = socket[d] \/ entry[d] # "fresh"
    BY <1>1, <1>2 DEF AdmissionTypeOK
  <2> QED BY <2>1, <2>2 DEF Undisturbed, AbortListeners
<1>7. UNCHANGED <<db_vars, close_vars>>
  OBVIOUS
<1>8. \A d \in Connections : ConnectionInv(d)'
  BY <1>6, <1>7, UndisturbedKeepsInv
<1> QED BY <1>4, <1>5, <1>8 DEF AdmissionInv, ConnectionInv

(* Letting a closed connection's writer go touches nothing else. *)
LEMMA WriterSettledKeepsInv ==
  ASSUME AdmissionInv, NEW c \in Connections, WriterSettled(c)
  PROVE  AdmissionInv'
<1> USE DEF WriterSettled
<1>1. RegistryInv'
  BY RegistryStepKeepsInv DEF AdmissionInv, RegistryNext
<1>2. \A d \in Connections : KeptOrEnded(d)
  BY DEF CloseSettled, KeptOrEnded, Registered, AdmissionInv,
         SignalMatchesEntry
<1>3. UNCHANGED <<aborted, stage, refusal, socket, armed, db_vars, close_vars>>
  BY DEF CloseSettled, socket_vars
<1>4. AdmissionTypeOK /\ armed \subseteq Connections
  BY DEF AdmissionInv, AdmissionTypeOK
<1>5. AbortListeners
  BY <1>3, <1>4 DEF AbortListeners
<1> QED BY <1>1, <1>2, <1>3, <1>5, EndsKeepInv

(* The shutdown ends every registered connection. *)
LEMMA ShutdownKeepsInv ==
  ASSUME AdmissionInv, Shutdown
  PROVE  AdmissionInv'
<1> DEFINE live == {c \in Connections : Registered(c)}
<1>1. RegistryInv'
  BY RegistryStepKeepsInv DEF AdmissionInv, RegistryNext, Shutdown
<1>2. entry' = Removed(live) /\ EndSockets(live, "going_away")
  BY DEF Shutdown, CloseAllConnections
<1>3. \A c \in live : c \in Connections /\ Registered(c)
  OBVIOUS
<1> HIDE DEF live
<1>4. \A d \in Connections : KeptOrEnded(d)
  BY <1>2, <1>3, EndingKeepsOrEnds
<1> QED BY <1>1, <1>4, EndsKeepInv DEF Shutdown

-----------------------------------------------------------------------------
(* The closes of revocations.                                              *)

(***************************************************************************)
(* A close that runs is no longer due, and it ends whatever registered     *)
(* connection it names; every other close that was due still is.           *)
(***************************************************************************)
LEMMA RunCloseKeepsInv ==
  ASSUME AdmissionInv, NEW t \in Targets, RunClose(t)
  PROVE  AdmissionInv'
<1> DEFINE named == {c \in Connections : Registered(c) /\ Matches(c, t)}
<1>1. AdmissionTypeOK /\ RegistryInv
  BY DEF AdmissionInv
<1>2. RegistryInv'
  BY <1>1, RegistryStepKeepsInv DEF RegistryNext, RunClose
<1>3. entry' = Removed(named) /\ EndSockets(named, TargetCode(t))
  BY DEF RunClose, CloseConnections, EndConnections
<1>4. \A c \in named : c \in Connections /\ Registered(c)
  OBVIOUS
<1>5. \A c \in Connections : Registered(c)' => Registered(c) /\ ~Matches(c, t)
  BY <1>3 DEF Removed, Registered
<1> HIDE DEF named
<1>6. \A d \in Connections : KeptOrEnded(d)
  BY <1>1, <1>3, <1>4, EndingKeepsOrEnds
<1>7. /\ UNCHANGED <<stage, refusal, socket, db_vars, committed, silent>>
      /\ queued' = queued \ {t} /\ AbortListeners
  BY DEF RunClose
<1>8. AdmissionTypeOK'
  BY <1>1, <1>2, <1>7 DEF AdmissionTypeOK, RegistryInv, AbortListeners, db_vars
<1>9. ASSUME NEW c \in Connections
      PROVE  ConnectionInv(c)'
  <2>1. ConnectionInv(c)
    BY DEF AdmissionInv, ConnectionInv
  <2>2. StageMatchesEntry(c)' /\ SignalMatchesEntry(c)'
    BY <2>1, <1>6, <1>7 DEF ConnectionInv, StageMatchesEntry,
       SignalMatchesEntry, KeptOrEnded, AbortListeners, Registered, CredentialOf
  <2>3. Registered(c)' => Registered(c) /\ ~Matches(c, t)
    BY <1>5
  <2>4. Registered(c)' /\ Due(c) => Due(c)'
    BY <2>3, <1>7 DEF Due, OwedBy, Matches
  <2>5. ReadSoFar(c)'
    BY <2>1, <2>3, <2>4, <1>7 DEF ConnectionInv, ReadSoFar, RowPresent,
       CredentialOf, AccountActive, RoleHeld, db_vars
  <2> QED BY <2>2, <2>5 DEF ConnectionInv
<1> QED BY <1>2, <1>8, <1>9 DEF AdmissionInv, ConnectionInv

-----------------------------------------------------------------------------
(* Losing and regaining authority.                                         *)

(***************************************************************************)
(* A commit may take what was read, if a close that names the connection   *)
(* becomes due with it.                                                    *)
(***************************************************************************)
LEMMA AuthorityKeepsInv ==
  ASSUME AdmissionInv, AdmissionTypeOK',
         UNCHANGED <<registry_vars, socket_vars>>,
         \A c \in Connections :
           /\ Due(c) => Due(c)'
           /\ RowPresent(c) => RowPresent(c)' \/ Due(c)'
           /\ AccountActive(c) => AccountActive(c)' \/ Due(c)'
           /\ RoleHeld(c) => RoleHeld(c)' \/ Due(c)'
  PROVE  AdmissionInv'
<1>1. RegistryInv'
  BY StutterKeepsInv DEF AdmissionInv
<1>2. UNCHANGED <<entry, aborted, stage, refusal, socket, armed>>
  BY DEF registry_vars, socket_vars
<1>3. ASSUME NEW c \in Connections
      PROVE  ConnectionInv(c)'
  <2>1. ConnectionInv(c)
    BY DEF AdmissionInv, ConnectionInv
  <2>2. StageMatchesEntry(c)' /\ SignalMatchesEntry(c)'
    BY <2>1, <1>2 DEF ConnectionInv, StageMatchesEntry, SignalMatchesEntry,
                      Registered, CredentialOf
  <2>3. ReadSoFar(c)'
    BY <2>1, <1>2 DEF ConnectionInv, ReadSoFar, Registered
  <2> QED BY <2>2, <2>3 DEF ConnectionInv
<1> QED BY <1>1, <1>3 DEF AdmissionInv, ConnectionInv

(* A commit makes its close due, or joins those that close nothing.        *)
LEMMA CommittedIsDue ==
  ASSUME AdmissionTypeOK, NEW t \in Targets, Committed(t)
  PROVE  /\ queued' \subseteq committed'
         /\ silent' \subseteq committed'
         /\ committed' \subseteq Targets
         /\ \A c \in Connections : Due(c) \/ Matches(c, t) => Due(c)'
<1>1. /\ committed' = committed \cup {t}
      /\ queued \subseteq queued' /\ silent \subseteq silent'
      /\ queued' \subseteq queued \cup {t} /\ silent' \subseteq silent \cup {t}
      /\ t \in queued' \/ t \in silent'
  BY DEF Committed, CloseQueued, CloseLost
<1>2. \A c \in Connections : Due(c) \/ Matches(c, t) => Due(c)'
  BY <1>1 DEF Due, OwedBy, Matches
<1> QED BY <1>1, <1>2 DEF AdmissionTypeOK

(* The credential of a connection belongs to its account. *)
LEMMA CredentialIsOwned ==
  ASSUME NEW c \in Connections, NEW k \in CredentialOf(c)
  PROVE  /\ Owner[k] = Identity[c].account_id
         /\ k \in Sessions => Identity[c].session_hash = k
         /\ k \in Tokens => Identity[c].api_token_id = k
BY AdmissionAssumption, RegistryAssumption DEF CredentialOf, IdentityRecord

(* A session or a token that goes is named by the close that goes with it. *)
LEMMA CredentialRevokedKeepsInv ==
  ASSUME AdmissionInv, NEW k \in Credentials,
         \/ k \in Sessions /\ RevokeSession(k)
         \/ k \in Tokens /\ RevokeToken(k)
  PROVE  AdmissionInv'
<1>1. PICK t \in Targets :
         /\ Committed(t)
         /\ \/ k \in Sessions /\ t = SessionTarget(k)
            \/ k \in Tokens /\ t = TokenTarget(k)
  BY DEF RevokeSession, RevokeToken, SessionTarget, TokenTarget, Targets
<1>2. /\ credentials' = credentials \ {k}
      /\ UNCHANGED <<registry_vars, socket_vars, expired, active, grants>>
  BY DEF RevokeSession, RevokeToken
<1>3. AdmissionTypeOK
  BY DEF AdmissionInv
<1>4. AdmissionTypeOK' /\ \A c \in Connections : Due(c) \/ Matches(c, t) => Due(c)'
  BY <1>1, <1>2, <1>3, CommittedIsDue
  DEF AdmissionTypeOK, registry_vars, socket_vars, RegistryTypeOK
<1>5. ASSUME NEW c \in Connections, RowPresent(c), ~RowPresent(c)'
      PROVE  Matches(c, t)
  <2>1. k \in CredentialOf(c)
    BY <1>2, <1>5 DEF RowPresent, CredentialOf
  <2> QED
    BY <1>1, <2>1, CredentialIsOwned
    DEF Matches, SessionTarget, TokenTarget
<1>6. \A c \in Connections : /\ AccountActive(c)' = AccountActive(c)
                            /\ RoleHeld(c)' = RoleHeld(c)
  BY <1>2 DEF AccountActive, RoleHeld
<1> QED BY <1>2, <1>4, <1>5, <1>6, AuthorityKeepsInv

(* What leaves with an account's credentials is named by the account.      *)
LEMMA AccountStepKeepsInv ==
  ASSUME AdmissionInv, NEW a \in Accounts,
         RevokeFromAccount(a) \/ DeleteAccount(a)
  PROVE  AdmissionInv'
<1> DEFINE t == AccountTarget(a)
<1>1. t \in Targets /\ Committed(t)
  BY DEF RevokeFromAccount, DeleteAccount, AccountTarget, Targets
<1>2. /\ credentials' \subseteq credentials
      /\ \A k \in credentials \ credentials' : Owner[k] = a
      /\ active' \subseteq active /\ active \ active' \subseteq {a}
      /\ UNCHANGED <<registry_vars, socket_vars, expired, grants>>
  BY DEF RevokeFromAccount, DeleteAccount, CredentialsOf
<1>3. AdmissionTypeOK
  BY DEF AdmissionInv
<1> HIDE DEF t
<1>4. AdmissionTypeOK' /\ \A c \in Connections : Due(c) \/ Matches(c, t) => Due(c)'
  BY <1>1, <1>2, <1>3, CommittedIsDue
  DEF AdmissionTypeOK, registry_vars, socket_vars, RegistryTypeOK
<1>5. \A c \in Connections : Identity[c].account_id = a => Matches(c, t)
  BY DEF Matches, t, AccountTarget
<1>6. ASSUME NEW c \in Connections, RowPresent(c), ~RowPresent(c)'
      PROVE  Identity[c].account_id = a
  <2>1. PICK k \in CredentialOf(c) : k \in credentials \ credentials'
    BY <1>6 DEF RowPresent, CredentialOf
  <2> QED BY <1>2, <2>1, CredentialIsOwned
<1>7. ASSUME NEW c \in Connections, AccountActive(c), ~AccountActive(c)'
      PROVE  Identity[c].account_id = a
  BY <1>2, <1>7 DEF AccountActive
<1>8. \A c \in Connections : RoleHeld(c)' = RoleHeld(c)
  BY <1>2 DEF RoleHeld
<1> QED BY <1>2, <1>4, <1>5, <1>6, <1>7, <1>8, AuthorityKeepsInv

(* A role is lost by the connections its close names. *)
LEMMA RevokeRoleKeepsInv ==
  ASSUME AdmissionInv, NEW a \in Accounts, NEW r \in Roles, RevokeRole(a, r)
  PROVE  AdmissionInv'
<1> DEFINE t == RoleTarget(a, r)
<1>1. t \in Targets /\ Committed(t)
  BY DEF RevokeRole, RoleTarget, Targets
<1>2. /\ grants' = grants \ {<<a, r>>}
      /\ UNCHANGED <<registry_vars, socket_vars, credentials, expired, active>>
  BY DEF RevokeRole
<1>3. AdmissionTypeOK
  BY DEF AdmissionInv
<1> HIDE DEF t
<1>4. AdmissionTypeOK' /\ \A c \in Connections : Due(c) \/ Matches(c, t) => Due(c)'
  BY <1>1, <1>2, <1>3, CommittedIsDue
  DEF AdmissionTypeOK, registry_vars, socket_vars, RegistryTypeOK
<1>5. ASSUME NEW c \in Connections, RoleHeld(c), ~RoleHeld(c)'
      PROVE  Matches(c, t)
  <2>1. PICK q \in Identity[c].required_roles :
          <<Identity[c].account_id, q>> \in grants
    BY <1>5 DEF RoleHeld
  <2>2. <<Identity[c].account_id, q>> = <<a, r>>
    BY <1>2, <1>5, <2>1 DEF RoleHeld
  <2> QED BY <2>1, <2>2 DEF Matches, t, RoleTarget
<1>6. \A c \in Connections : /\ RowPresent(c)' = RowPresent(c)
                            /\ AccountActive(c)' = AccountActive(c)
  BY <1>2 DEF RowPresent, CredentialOf, AccountActive
<1> QED BY <1>2, <1>4, <1>5, <1>6, AuthorityKeepsInv

(***************************************************************************)
(* What comes back, and a deadline that passes, take no row, account or    *)
(* role away: the deadline is the guarantee's own escape.                  *)
(***************************************************************************)
LEMMA NothingRevokedKeepsInv ==
  ASSUME AdmissionInv,
         \/ \E a \in Accounts : UndeleteAccount(a)
         \/ \E a \in Accounts, r \in Roles : GrantRole(a, r)
         \/ \E k \in Credentials : Expire(k)
  PROVE  AdmissionInv'
<1>1. /\ active \subseteq active' /\ active' \subseteq Accounts
      /\ grants \subseteq grants' /\ grants' \subseteq Accounts \X Roles
      /\ expired' \subseteq Credentials
      /\ UNCHANGED <<registry_vars, socket_vars, credentials, close_vars>>
  <2>1. /\ active \subseteq Accounts /\ expired \subseteq Credentials
        /\ grants \subseteq Accounts \X Roles
    BY DEF AdmissionInv, AdmissionTypeOK
  <2>2. CASE \E a \in Accounts : UndeleteAccount(a)
    BY <2>1, <2>2 DEF UndeleteAccount, socket_vars
  <2>3. CASE \E a \in Accounts, r \in Roles : GrantRole(a, r)
    BY <2>1, <2>3 DEF GrantRole, socket_vars
  <2>4. CASE \E k \in Credentials : Expire(k)
    BY <2>1, <2>4 DEF Expire, socket_vars
  <2> QED BY <2>2, <2>3, <2>4
<1>2. AdmissionTypeOK
  BY DEF AdmissionInv
<1>3. AdmissionTypeOK'
  BY <1>1, <1>2 DEF AdmissionTypeOK, registry_vars, socket_vars, close_vars,
                    RegistryTypeOK
<1>4. ASSUME NEW c \in Connections
      PROVE  /\ Due(c) => Due(c)'
             /\ RowPresent(c) => RowPresent(c)'
             /\ AccountActive(c) => AccountActive(c)'
             /\ RoleHeld(c) => RoleHeld(c)'
  BY <1>1 DEF Due, OwedBy, Matches, RowPresent, CredentialOf, AccountActive,
              RoleHeld, close_vars
<1> QED BY <1>1, <1>3, <1>4, AuthorityKeepsInv

-----------------------------------------------------------------------------
(* Every step of the composition keeps the invariant.                      *)
LEMMA AdmissionStepKeepsInv ==
  ASSUME AdmissionInv, [AdmissionNext]_admission_vars
  PROVE  AdmissionInv'
<1>1. CASE \E c \in Connections : SocketStep(c)
  BY <1>1, PassGatesKeepsInv, OnOpenKeepsInv, RecheckKeepsInv, RefuseKeepsInv,
     AdmitUpgradeKeepsInv, AdmitUpgradeRefusedKeepsInv, StartDeadlineKeepsInv,
     DeadlineFiresKeepsInv, EndForOtherReasonKeepsInv,
     EndByOutboundBoundKeepsInv, OnCloseKeepsInv, WriterSettledKeepsInv
  DEF SocketStep
<1>2. CASE AuthorityStep
  BY <1>2, CredentialRevokedKeepsInv, AccountStepKeepsInv, RevokeRoleKeepsInv,
     NothingRevokedKeepsInv
  DEF AuthorityStep, Credentials
<1>3. CASE \E t \in Targets : RunClose(t)
  BY <1>3, RunCloseKeepsInv
<1>4. CASE Shutdown
  BY <1>4, ShutdownKeepsInv
<1>5. CASE UNCHANGED admission_vars
  <2>1. UNCHANGED <<registry_vars, stage, refusal, socket, armed, db_vars,
                    close_vars>>
    BY <1>5 DEF admission_vars, socket_vars
  <2>2. RegistryInv' /\ \A d \in Connections : KeptOrEnded(d)
    BY <2>1, StutterKeepsInv DEF AdmissionInv, KeptOrEnded, registry_vars,
       Registered, SignalMatchesEntry
  <2>3. AbortListeners
    BY <2>1 DEF AbortListeners, registry_vars
  <2> QED BY <2>1, <2>2, <2>3, EndsKeepInv
<1> QED BY <1>1, <1>2, <1>3, <1>4, <1>5 DEF AdmissionNext

(***************************************************************************)
(* The invariant holds of every behaviour of the composition, with any     *)
(* number of connections, accounts, credentials and losses of authority.   *)
(***************************************************************************)
THEOREM AdmissionInvariance == AdmissionSafetySpec => []AdmissionInv
BY AdmissionInitInv, AdmissionStepKeepsInv, PTL DEF AdmissionSafetySpec

(* The state of the composed upgrade keeps its types; in particular no     *)
(* upgrade is refused with a code the re-check does not answer.            *)
THEOREM AdmissionTypeCorrect == AdmissionSafetySpec => []AdmissionTypeOK
<1>1. AdmissionInv => AdmissionTypeOK
  BY DEF AdmissionInv
<1> QED BY AdmissionInvariance, <1>1, PTL

(***************************************************************************)
(* The admission guarantee: at no point of any interleaving is a           *)
(* connection admitted without the authority it opened on, unless the      *)
(* close for that loss is still due, or is one that closes nothing.        *)
(***************************************************************************)
THEOREM AdmissionGuarantee == AdmissionSafetySpec => []AdmittedOnAuthority
BY AdmissionInvariance, InvImpliesGuarantee, PTL

(***************************************************************************)
(* The registry's own guarantees survive the composition: the cap holds    *)
(* and nothing is registered after the shutdown while upgrades race        *)
(* revocations.                                                            *)
(***************************************************************************)
THEOREM RegistryHoldsUnderAdmission ==
  AdmissionSafetySpec => [](CapRespected /\ NothingRegisteredOnceClosing
                              /\ ClosedIsAbortedAndGone)
<1>1. AdmissionInv => CapRespected /\ NothingRegisteredOnceClosing
                        /\ ClosedIsAbortedAndGone
  BY DEF AdmissionInv, RegistryInv
<1> QED BY AdmissionInvariance, <1>1, PTL

-----------------------------------------------------------------------------
(* What is left of a socket.                                               *)

(***************************************************************************)
(* Whatever takes an entry out aborts its socket, a timer runs only for a  *)
(* socket that is not aborted, and the close event forgets the rest.       *)
(***************************************************************************)
TornDown(c) ==
  /\ entry[c] = "gone" => c \in aborted
  /\ c \in armed => c \notin aborted
  /\ socket[c] = "closed" =>
       entry[c] = "gone" /\ pending_close_codes[c] = Null /\ c \notin closing_writers

(* What a step does to a connection that it does not register or admit. *)
LeftOrTakenOut(c) ==
  \/ /\ entry'[c] = entry[c]
     /\ pending_close_codes'[c] \in {pending_close_codes[c], Null}
     /\ c \in closing_writers' => c \in closing_writers
  \/ Registered(c) /\ entry'[c] = "gone" /\ c \in aborted'

LEMMA TakenOutIsTornDown ==
  ASSUME NEW c \in Connections, TornDown(c), LeftOrTakenOut(c), socket'[c] = socket[c],
         aborted \subseteq aborted', AbortListeners
  PROVE  TornDown(c)'
BY DEF TornDown, LeftOrTakenOut, AbortListeners, Registered

(* Ending a set of registered connections. *)
LEMMA EndingTakesOut ==
  ASSUME AdmissionInv, NEW S, NEW code, \A c \in S : c \in Connections /\ Registered(c),
         entry' = Removed(S), EndSockets(S, code)
  PROVE  aborted \subseteq aborted' /\ \A c \in Connections : LeftOrTakenOut(c)
BY DEF LeftOrTakenOut, Removed, EndSockets, AdmissionInv, RegistryInv, RegistryTypeOK

LEMMA EndSocketTakesOut ==
  ASSUME AdmissionInv, NEW c \in Connections, NEW code, EndSocket(c, code)
  PROVE  aborted \subseteq aborted' /\ \A d \in Connections : LeftOrTakenOut(d)
<1>1. CASE CloseConnection(c, code)
  <2>1. entry' = Removed({c}) /\ EndSockets({c}, code) /\ Registered(c)
    BY <1>1 DEF CloseConnection, EndConnections
  <2> QED BY <2>1, EndingTakesOut
<1>2. CASE ~CloseConnection(c, code)
  BY <1>2 DEF EndSocket, LeftOrTakenOut
<1> QED BY <1>1, <1>2

LEMMA SocketStepTearsDown ==
  ASSUME AdmissionInv, NEW c \in Connections, SocketStep(c),
         \A d \in Connections : TornDown(d)
  PROVE  \A d \in Connections : TornDown(d)'
<1>0. /\ AdmissionTypeOK /\ RegistryTypeOK /\ StageMatchesEntry(c) /\ SignalMatchesEntry(c)
      /\ RegistryInv
  BY DEF AdmissionInv, RegistryInv
<1>1. ASSUME UNCHANGED <<registry_vars, socket, armed>>
      PROVE  \A d \in Connections : TornDown(d)'
  BY <1>1 DEF TornDown, registry_vars
<1>2. ASSUME AbortListeners, UNCHANGED socket, aborted \subseteq aborted',
             \A d \in Connections : LeftOrTakenOut(d)
      PROVE  \A d \in Connections : TornDown(d)'
  BY <1>2, TakenOutIsTornDown
<1>3. CASE PassGates(c) \/ Recheck(c)
  BY <1>1, <1>3 DEF PassGates, Recheck
<1>4. CASE OnOpen(c)
  <2>1. \A d \in Connections \ {c} : TornDown(d)'
    BY <1>0, <1>4 DEF OnOpen, RegisterPending, BornClosed, TornDown, AdmissionTypeOK,
                      RegistryTypeOK
  <2>2. /\ entry[c] = "fresh" /\ socket'[c] = "open" /\ c \notin armed
        /\ entry'[c] = "gone" => c \in aborted'
    BY <1>0, <1>4 DEF OnOpen, RegisterPending, BornClosed, AdmissionTypeOK,
                      RegistryTypeOK, SignalMatchesEntry
  <2>3. TornDown(c)'
    BY <1>4, <2>2 DEF TornDown, OnOpen
  <2> QED BY <2>1, <2>3
<1>5. CASE Refuse(c)
  <2>1. CASE c \in aborted
    <3>1. UNCHANGED <<registry_vars, socket>> /\ armed' = armed
      BY <1>0, <1>5, <2>1 DEF Refuse, AbortListeners, registry_vars, AdmissionTypeOK
    <3> QED BY <1>1, <3>1
  <2>2. CASE c \notin aborted
    BY <1>2, <1>5, <2>2, EndSocketTakesOut DEF Refuse
  <2> QED BY <2>1, <2>2
<1>6. CASE AdmitUpgrade(c)
  <2> DEFINE S == Evicted(Identity[c].account_id)
  <2>1. AbortListeners /\ UNCHANGED socket /\ entry[c] = "pending" /\ AdmittedInPlaceOf(c, S)
    BY <1>0, <1>6 DEF AdmitUpgrade, Admit, StageMatchesEntry
  <2>2. \A d \in S : d \in Connections /\ entry[d] = "admitted"
    BY DEF Evicted, AdmittedOf
  <2> HIDE DEF S
  <2>3. aborted \subseteq aborted' /\ \A d \in Connections \ {c} : LeftOrTakenOut(d)
    BY <1>0, <2>1, <2>2 DEF AdmittedInPlaceOf, EndSockets, Removed, LeftOrTakenOut,
                            Registered, RegistryTypeOK
  <2>4. \A d \in Connections \ {c} : TornDown(d)'
    BY <2>1, <2>3, TakenOutIsTornDown
  <2>5. entry'[c] = "admitted" /\ socket'[c] # "closed"
    BY <1>0, <2>1, <2>2 DEF AdmittedInPlaceOf, Removed, RegistryTypeOK, TornDown
  <2>6. TornDown(c)'
    BY <2>1, <2>5 DEF TornDown, AbortListeners
  <2> QED BY <2>4, <2>6
<1>7. CASE AdmitUpgradeRefused(c)
  <2>1. CASE c \in aborted
    <3>1. aborted' = aborted /\ \A d \in Connections : LeftOrTakenOut(d)
      BY <1>0, <1>7, <2>1 DEF AdmitUpgradeRefused, TakePendingCloseCode, LeftOrTakenOut,
                              RegistryTypeOK
    <3> QED BY <1>2, <1>7, <3>1 DEF AdmitUpgradeRefused
  <2>2. CASE c \notin aborted
    BY <1>2, <1>7, <2>2, EndSocketTakesOut DEF AdmitUpgradeRefused
  <2> QED BY <2>1, <2>2
<1>8. CASE StartDeadline(c)
  <2>1. CASE c \notin aborted /\ DeadlinePassed(c)
    <3>1. EndSocket(c, "session_revoked") /\ UNCHANGED <<socket, armed>>
      BY <1>8, <2>1 DEF StartDeadline
    <3>2. aborted' = aborted \cup {c} /\ c \notin armed
      BY <1>0, <1>8, <3>1 DEF EndSocket, CloseConnection, EndConnections, EndSockets,
                              StartDeadline, SignalMatchesEntry
    <3>3. AbortListeners
      BY <3>1, <3>2 DEF AbortListeners
    <3> QED BY <1>2, <3>1, <3>3, EndSocketTakesOut
  <2>2. CASE ~(c \notin aborted /\ DeadlinePassed(c))
    <3>1. /\ UNCHANGED <<registry_vars, socket>>
          /\ armed' = IF c \in aborted \/ CredentialOf(c) = {} THEN armed ELSE armed \cup {c}
      BY <1>8, <2>2 DEF StartDeadline
    <3>2. \A d \in Connections : d \in armed' => d \in armed \/ d \notin aborted
      BY <3>1
    <3> QED BY <3>1, <3>2 DEF TornDown, registry_vars
  <2> QED BY <2>1, <2>2
<1>9. CASE DeadlineFires(c)
  BY <1>2, <1>9, EndSocketTakesOut DEF DeadlineFires
<1>10. CASE EndForOtherReason(c)
  BY <1>2, <1>10, EndSocketTakesOut DEF EndForOtherReason
<1>11. CASE EndByOutboundBound(c)
  <2>1. /\ AbortListeners /\ UNCHANGED socket /\ entry[c] = "admitted"
        /\ entry' = Removed({c}) /\ aborted' = aborted \cup {c}
    BY <1>11 DEF EndByOutboundBound, CloseOverflowed, DropStalled, EndConnections, EndSockets
  <2>2. \A d \in Connections \ {c} : LeftOrTakenOut(d)
    BY <1>0, <1>11, <2>1 DEF EndByOutboundBound, CloseOverflowed, DropStalled,
         EndConnections, EndSockets, Removed, LeftOrTakenOut, RegistryTypeOK
  <2>3. LeftOrTakenOut(c)
    BY <1>0, <2>1 DEF LeftOrTakenOut, Removed, Registered, RegistryTypeOK
  <2> QED BY <1>2, <2>1, <2>2, <2>3
<1>12. CASE OnClose(c)
  <2>1. /\ AbortListeners /\ aborted' = aborted \cup {c} /\ entry' = Removed({c})
        /\ pending_close_codes' = [pending_close_codes EXCEPT ![c] = Null]
        /\ closing_writers' = closing_writers \ {c}
        /\ \A d \in Connections \ {c} : socket'[d] = socket[d]
    BY <1>0, <1>12 DEF OnClose, Forgotten, AdmissionTypeOK
  <2>2. \A d \in Connections \ {c} : LeftOrTakenOut(d)
    BY <1>0, <2>1 DEF LeftOrTakenOut, Removed, RegistryTypeOK
  <2>3. \A d \in Connections \ {c} : TornDown(d)'
    BY <2>1, <2>2, TakenOutIsTornDown
  <2>4. TornDown(c)'
    BY <1>0, <2>1 DEF TornDown, AbortListeners, Removed, RegistryTypeOK
  <2> QED BY <2>3, <2>4
<1>13. CASE WriterSettled(c)
  BY <1>13 DEF WriterSettled, CloseSettled, TornDown, socket_vars
<1> QED BY <1>3, <1>4, <1>5, <1>6, <1>7, <1>8, <1>9, <1>10, <1>11, <1>12, <1>13
        DEF SocketStep

(* The closes of revocations and the shutdown take out what they end. *)
LEMMA StepTearsDown ==
  ASSUME AdmissionInv, [AdmissionNext]_admission_vars,
         \A d \in Connections : TornDown(d)
  PROVE  \A d \in Connections : TornDown(d)'
<1>1. ASSUME UNCHANGED <<registry_vars, socket, armed>>
      PROVE  \A d \in Connections : TornDown(d)'
  BY <1>1 DEF TornDown, registry_vars
<1>2. ASSUME NEW S, NEW code, \A c \in S : c \in Connections /\ Registered(c),
             entry' = Removed(S), EndSockets(S, code), AbortListeners, UNCHANGED socket
      PROVE  \A d \in Connections : TornDown(d)'
  BY <1>2, EndingTakesOut, TakenOutIsTornDown
<1>3. CASE \E c \in Connections : SocketStep(c)
  BY <1>3, SocketStepTearsDown
<1>4. CASE AuthorityStep
  <2>1. UNCHANGED <<registry_vars, socket_vars>>
    BY <1>4 DEF AuthorityStep, RevokeSession, RevokeToken, Expire, RevokeFromAccount,
                DeleteAccount, UndeleteAccount, RevokeRole, GrantRole
  <2> QED BY <1>1, <2>1 DEF socket_vars
<1>5. CASE \E t \in Targets : RunClose(t)
  <2>1. PICK t \in Targets : RunClose(t)
    BY <1>5
  <2> DEFINE named == {c \in Connections : Registered(c) /\ Matches(c, t)}
  <2>2. /\ entry' = Removed(named) /\ EndSockets(named, TargetCode(t))
        /\ AbortListeners /\ UNCHANGED socket
    BY <2>1 DEF RunClose, CloseConnections, EndConnections
  <2>3. \A c \in named : c \in Connections /\ Registered(c)
    OBVIOUS
  <2> HIDE DEF named
  <2> QED BY <1>2, <2>2, <2>3
<1>6. CASE Shutdown
  <2> DEFINE registered == {c \in Connections : Registered(c)}
  <2>1. /\ entry' = Removed(registered) /\ EndSockets(registered, "going_away")
        /\ AbortListeners /\ UNCHANGED socket
    BY <1>6 DEF Shutdown, CloseAllConnections
  <2>2. \A c \in registered : c \in Connections /\ Registered(c)
    OBVIOUS
  <2> HIDE DEF registered
  <2> QED BY <1>2, <2>1, <2>2
<1>7. CASE UNCHANGED admission_vars
  BY <1>1, <1>7 DEF admission_vars, socket_vars
<1> QED BY <1>3, <1>4, <1>5, <1>6, <1>7 DEF AdmissionNext

-----------------------------------------------------------------------------
(* What a close code says.                                                 *)

(***************************************************************************)
(* What the code, if it is one a client takes as final, tells of c.        *)
(***************************************************************************)
Says(c, code) ==
  /\ code = "session_revoked" =>
       \/ DeadlinePassed(c)
       \/ \E t \in committed : t.kind # "role" /\ Matches(c, t)
  /\ code = "permission_revoked" =>
       \E t \in committed : t.kind = "role" /\ Matches(c, t)

(* What the re-check misses, some commit has taken and named. *)
LossesAreNamed ==
  /\ \A s \in Sessions \ credentials :
       SessionTarget(s) \in committed \/ AccountTarget(Owner[s]) \in committed
  /\ \A k \in Tokens \ credentials :
       TokenTarget(k) \in committed \/ AccountTarget(Owner[k]) \in committed
  /\ \A a \in Accounts \ active : AccountTarget(a) \in committed
  /\ \A a \in Accounts, r \in Roles : <<a, r>> \notin grants => RoleTarget(a, r) \in committed

TruthInv ==
  /\ LossesAreNamed
  /\ \A c \in Connections : /\ TornDown(c)
                            /\ Says(c, close_code[c])
                            /\ Says(c, refusal[c])

LEMMA TruthInitInv == AdmissionInit => TruthInv
<1> SUFFICES ASSUME AdmissionInit PROVE TruthInv
  OBVIOUS
<1>1. LossesAreNamed
  BY DEF AdmissionInit, LossesAreNamed, Credentials
<1>2. Null \notin {"session_revoked", "permission_revoked"}
  BY RegistryAssumption DEF CloseCodes
<1>3. \A c \in Connections : TornDown(c) /\ Says(c, close_code[c]) /\ Says(c, refusal[c])
  BY <1>2 DEF AdmissionInit, RegistryInit, TornDown, Says
<1> QED BY <1>1, <1>3 DEF TruthInv

(* A re-check that finds nothing wrong in vain has a commit to point at. *)
LEMMA MissingIsNamed ==
  ASSUME LossesAreNamed, NEW c \in Connections
  PROVE  /\ ~RowPresent(c) => Says(c, "session_revoked")
         /\ ~AccountActive(c) => Says(c, "session_revoked")
         /\ ~RoleHeld(c) => Says(c, "permission_revoked")
<1>0. Identity[c] \in IdentityRecord
  BY RegistryAssumption
<1>1. ASSUME ~RowPresent(c)
      PROVE  \E t \in committed : t.kind # "role" /\ Matches(c, t)
  <2>1. PICK k \in CredentialOf(c) : k \notin credentials
    BY <1>1 DEF RowPresent
  <2>2. k \in Sessions \/ k \in Tokens
    BY <1>0, <2>1 DEF CredentialOf, IdentityRecord
  <2>3. Owner[k] = Identity[c].account_id
    BY CredentialIsOwned
  <2>4. CASE k \in Sessions
    <3>1. Matches(c, SessionTarget(k)) /\ Matches(c, AccountTarget(Owner[k]))
      BY <2>3, <2>4, CredentialIsOwned DEF Matches, SessionTarget, AccountTarget
    <3> QED BY <2>1, <2>4, <3>1 DEF LossesAreNamed, SessionTarget, AccountTarget
  <2>5. CASE k \in Tokens
    <3>1. Matches(c, TokenTarget(k)) /\ Matches(c, AccountTarget(Owner[k]))
      BY <2>3, <2>5, CredentialIsOwned DEF Matches, TokenTarget, AccountTarget
    <3> QED BY <2>1, <2>5, <3>1 DEF LossesAreNamed, TokenTarget, AccountTarget
  <2> QED BY <2>2, <2>4, <2>5
<1>2. ASSUME ~AccountActive(c)
      PROVE  \E t \in committed : t.kind # "role" /\ Matches(c, t)
  <2>1. AccountTarget(Identity[c].account_id) \in committed
    BY <1>0, <1>2 DEF AccountActive, LossesAreNamed, IdentityRecord
  <2> QED BY <2>1 DEF AccountTarget, Matches
<1>3. ASSUME ~RoleHeld(c)
      PROVE  \E t \in committed : t.kind = "role" /\ Matches(c, t)
  <2>1. PICK r \in Identity[c].required_roles : <<Identity[c].account_id, r>> \notin grants
    BY <1>3 DEF RoleHeld
  <2>2. RoleTarget(Identity[c].account_id, r) \in committed
    BY <1>0, <2>1 DEF LossesAreNamed, IdentityRecord
  <2> QED BY <2>1, <2>2 DEF RoleTarget, Matches
<1> QED BY <1>1, <1>2, <1>3 DEF Says

(* A loss once named stays named, and a loss not yet named is named now. *)
LEMMA CommitNames ==
  ASSUME LossesAreNamed, AuthorityStep
  PROVE  LossesAreNamed' /\ committed \subseteq committed' /\ expired \subseteq expired'
<1>1. ASSUME NEW t, Committed(t)
      PROVE  committed' = committed \cup {t}
  BY <1>1 DEF Committed, CloseQueued, CloseLost
<1>2. CASE \E s \in Sessions : RevokeSession(s)
  <2>1. PICK s \in Sessions : RevokeSession(s)
    BY <1>2
  <2>2. /\ credentials' = credentials \ {s} /\ committed' = committed \cup {SessionTarget(s)}
        /\ UNCHANGED <<expired, active, grants>>
    BY <1>1, <2>1 DEF RevokeSession
  <2>3. s \notin Tokens
    BY AdmissionAssumption
  <2> QED BY <2>2, <2>3 DEF LossesAreNamed
<1>3. CASE \E k \in Tokens : RevokeToken(k)
  <2>1. PICK k \in Tokens : RevokeToken(k)
    BY <1>3
  <2>2. /\ credentials' = credentials \ {k} /\ committed' = committed \cup {TokenTarget(k)}
        /\ UNCHANGED <<expired, active, grants>>
    BY <1>1, <2>1 DEF RevokeToken
  <2>3. k \notin Sessions
    BY AdmissionAssumption
  <2> QED BY <2>2, <2>3 DEF LossesAreNamed
<1>4. CASE \E a \in Accounts : RevokeFromAccount(a) \/ DeleteAccount(a)
  <2>1. PICK a \in Accounts : RevokeFromAccount(a) \/ DeleteAccount(a)
    BY <1>4
  <2>2. /\ committed' = committed \cup {AccountTarget(a)}
        /\ active \ active' \subseteq {a}
        /\ \A k \in credentials \ credentials' : Owner[k] = a
        /\ UNCHANGED <<expired, grants>>
    BY <1>1, <2>1 DEF RevokeFromAccount, DeleteAccount, CredentialsOf
  <2> QED BY <2>2 DEF LossesAreNamed
<1>5. CASE \E a \in Accounts, r \in Roles : RevokeRole(a, r)
  <2>1. PICK a \in Accounts, r \in Roles : RevokeRole(a, r)
    BY <1>5
  <2>2. /\ grants' = grants \ {<<a, r>>} /\ committed' = committed \cup {RoleTarget(a, r)}
        /\ UNCHANGED <<expired, active, credentials>>
    BY <1>1, <2>1 DEF RevokeRole
  <2> QED BY <2>2 DEF LossesAreNamed
<1>6. CASE \/ \E k \in Credentials : Expire(k)
           \/ \E a \in Accounts : UndeleteAccount(a)
           \/ \E a \in Accounts, r \in Roles : GrantRole(a, r)
  <2>1. /\ UNCHANGED <<committed, credentials>> /\ expired \subseteq expired'
        /\ active \subseteq active' /\ grants \subseteq grants'
    BY <1>6 DEF Expire, UndeleteAccount, GrantRole, close_vars
  <2> QED BY <2>1 DEF LossesAreNamed
<1> QED BY <1>2, <1>3, <1>4, <1>5, <1>6 DEF AuthorityStep

(* What has been said stays true. *)
LEMMA SaidStaysSo ==
  ASSUME NEW c \in Connections, NEW code, Says(c, code),
         committed \subseteq committed', expired \subseteq expired'
  PROVE  Says(c, code)'
<1>1. CredentialOf(c)' = CredentialOf(c) /\ \A t : Matches(c, t)' = Matches(c, t)
  BY DEF CredentialOf, Matches
<1> QED BY <1>1 DEF Says, DeadlinePassed

(* What a step writes to a socket: nothing new, or the code it is given. *)
LEMMA EndSocketSays ==
  ASSUME AdmissionInv, NEW c \in Connections, NEW code, EndSocket(c, code)
  PROVE  \A d \in Connections : \/ close_code'[d] = close_code[d]
                                \/ d = c /\ close_code'[d] = code
BY DEF EndSocket, CloseConnection, EndConnections, EndSockets, AdmissionInv, RegistryInv,
       RegistryTypeOK

(* A socket step answers with a code only where it is true. *)
LEMMA SocketStepSays ==
  ASSUME AdmissionInv, TruthInv, NEW c \in Connections, SocketStep(c), NEW d \in Connections
  PROVE  /\ close_code'[d] = close_code[d] \/ Says(d, close_code'[d])
         /\ refusal'[d] = refusal[d] \/ Says(d, refusal'[d])
<1>0. /\ AdmissionTypeOK /\ RegistryTypeOK /\ StageMatchesEntry(c)
      /\ LossesAreNamed /\ TornDown(c)
      /\ Says(c, refusal[c])
  BY DEF AdmissionInv, RegistryInv, TruthInv
<1>1. \A code : code \notin {"session_revoked", "permission_revoked"} => Says(d, code)
  BY DEF Says
<1>2. ASSUME NEW code, EndSocket(c, code), Says(c, code)
      PROVE  close_code'[d] = close_code[d] \/ Says(d, close_code'[d])
  BY <1>2, EndSocketSays
<1>3. CASE PassGates(c) \/ WriterSettled(c)
  BY <1>3 DEF PassGates, WriterSettled, CloseSettled, registry_vars, socket_vars
<1>4. CASE OnOpen(c)
  <2>1. close_code'[d] \in {close_code[d], "going_away"} /\ refusal' = refusal
    BY <1>0, <1>4 DEF OnOpen, RegisterPending, BornClosed, RegistryTypeOK
  <2> QED BY <1>1, <2>1
<1>5. CASE Recheck(c)
  <2>1. close_code' = close_code
    BY <1>5 DEF Recheck, registry_vars
  <2>2. ASSUME NEW code, RefuseWith(c, code), Says(c, code)
        PROVE  refusal'[d] = refusal[d] \/ Says(d, refusal'[d])
    BY <1>0, <2>2 DEF RefuseWith, AdmissionTypeOK
  <2>3. DeadlinePassed(c) => Says(c, "session_revoked")
    BY DEF Says
  <2>4. Says(c, "internal_error")
    BY DEF Says
  <2>5. refusal' = refusal \/ \E code : RefuseWith(c, code) /\ Says(c, code)
    <3>1. CASE ReadCredential(c)
      BY <1>0, <3>1, <2>3, MissingIsNamed DEF ReadCredential
    <3>2. CASE ReadAccount(c) \/ ReadActor(c)
      BY <1>0, <3>2, MissingIsNamed DEF ReadAccount, ReadActor
    <3>3. CASE ReadRole(c)
      BY <1>0, <3>3, MissingIsNamed DEF ReadRole
    <3>4. CASE ReadFails(c)
      BY <2>4, <3>4 DEF ReadFails
    <3> QED BY <1>5, <3>1, <3>2, <3>3, <3>4 DEF Recheck
  <2> QED BY <2>1, <2>2, <2>5
<1>6. CASE Refuse(c)
  BY <1>0, <1>2, <1>6 DEF Refuse, registry_vars
<1>7. CASE AdmitUpgrade(c)
  <2>1. close_code'[d] \in {close_code[d], "connection_limit"} /\ refusal' = refusal
    BY <1>7 DEF AdmitUpgrade, Admit, AdmittedInPlaceOf, EndSockets, registry_vars
  <2> QED BY <1>1, <2>1
<1>8. CASE AdmitUpgradeRefused(c)
  <2>1. c \in aborted
    BY <1>0, <1>8 DEF AdmitUpgradeRefused, AdmitRefused, StageMatchesEntry, TornDown,
                      Registered, RegistryTypeOK
  <2> QED BY <1>8, <2>1 DEF AdmitUpgradeRefused, TakePendingCloseCode
<1>9. CASE StartDeadline(c) \/ DeadlineFires(c)
  <2>1. DeadlinePassed(c) => Says(c, "session_revoked")
    BY DEF Says
  <2> QED BY <1>2, <1>9, <2>1 DEF StartDeadline, DeadlineFires, registry_vars
<1>10. CASE EndForOtherReason(c)
  <2>1. Says(c, "other")
    BY DEF Says
  <2> QED BY <1>2, <1>10, <2>1 DEF EndForOtherReason
<1>11. CASE EndByOutboundBound(c)
  <2>1. close_code'[d] \in {close_code[d], "outbound_overflow"} /\ refusal' = refusal
    BY <1>0, <1>11 DEF EndByOutboundBound, CloseOverflowed, DropStalled, EndConnections,
                       EndSockets, RegistryTypeOK
  <2> QED BY <1>1, <2>1
<1>12. CASE OnClose(c)
  BY <1>12 DEF OnClose
<1> QED BY <1>3, <1>4, <1>5, <1>6, <1>7, <1>8, <1>9, <1>10, <1>11, <1>12 DEF SocketStep

LEMMA TruthStepInv ==
  ASSUME AdmissionInv, TruthInv, [AdmissionNext]_admission_vars
  PROVE  TruthInv'
<1>1. \A d \in Connections : TornDown(d)'
  BY StepTearsDown DEF TruthInv
<1>2. ASSUME LossesAreNamed', committed \subseteq committed', expired \subseteq expired',
             \A d \in Connections :
               /\ close_code'[d] = close_code[d] \/ Says(d, close_code'[d])
               /\ refusal'[d] = refusal[d] \/ Says(d, refusal'[d])
      PROVE  TruthInv'
  <2>1. ASSUME NEW d \in Connections
        PROVE  Says(d, close_code[d])' /\ Says(d, refusal[d])'
    <3>1. PICK told, refused : told = close_code'[d] /\ refused = refusal'[d]
      OBVIOUS
    <3>2. Says(d, told) /\ Says(d, refused)
      BY <1>2, <3>1 DEF TruthInv
    <3>3. Says(d, told)' /\ Says(d, refused)'
      BY <1>2, <3>2, SaidStaysSo
    <3> QED BY <3>1, <3>3 DEF Says
  <2> QED BY <1>1, <1>2, <2>1 DEF TruthInv
<1>3. ASSUME UNCHANGED <<db_vars, committed>>
      PROVE  LossesAreNamed' /\ committed \subseteq committed' /\ expired \subseteq expired'
  BY <1>3 DEF LossesAreNamed, TruthInv, db_vars
<1>4. CASE \E c \in Connections : SocketStep(c)
  <2>1. UNCHANGED <<db_vars, committed>>
    BY <1>4 DEF SocketStep, PassGates, OnOpen, Recheck, Refuse, AdmitUpgrade,
       AdmitUpgradeRefused, StartDeadline, DeadlineFires, EndForOtherReason,
       EndByOutboundBound, OnClose, WriterSettled, close_vars
  <2> QED BY <1>2, <1>3, <1>4, <2>1, SocketStepSays
<1>5. CASE AuthorityStep
  <2>1. UNCHANGED <<close_code, refusal>>
    BY <1>5 DEF AuthorityStep, RevokeSession, RevokeToken, Expire, RevokeFromAccount,
                DeleteAccount, UndeleteAccount, RevokeRole, GrantRole, registry_vars,
                socket_vars
  <2> QED BY <1>2, <1>5, <2>1, CommitNames DEF TruthInv
<1>6. CASE \E t \in Targets : RunClose(t)
  <2>1. PICK t \in Targets : RunClose(t)
    BY <1>6
  <2>2. t \in committed
    BY <2>1 DEF RunClose, AdmissionInv, AdmissionTypeOK
  <2>3. \A d \in Connections : Matches(d, t) => Says(d, TargetCode(t))
    BY <2>2 DEF Says, TargetCode
  <2>4. \A d \in Connections : \/ close_code'[d] = close_code[d]
                               \/ Matches(d, t) /\ close_code'[d] = TargetCode(t)
    BY <2>1 DEF RunClose, CloseConnections, EndConnections, EndSockets
  <2>5. UNCHANGED <<refusal, db_vars, committed>>
    BY <2>1 DEF RunClose
  <2> QED BY <1>2, <1>3, <2>3, <2>4, <2>5
<1>7. CASE Shutdown
  <2>1. /\ \A d \in Connections : close_code'[d] \in {close_code[d], "going_away"}
        /\ UNCHANGED <<refusal, db_vars, committed>>
    BY <1>7 DEF Shutdown, CloseAllConnections, EndSockets, close_vars
  <2>2. \A d \in Connections : Says(d, "going_away")
    BY DEF Says
  <2> QED BY <1>2, <1>3, <2>1, <2>2
<1>8. CASE UNCHANGED admission_vars
  BY <1>2, <1>3, <1>8 DEF admission_vars, registry_vars, socket_vars, close_vars
<1> QED BY <1>4, <1>5, <1>6, <1>7, <1>8 DEF AdmissionNext

(***************************************************************************)
(* A code a client takes as final - your session is over, your role is     *)
(* gone - is only ever sent for a deadline that has passed or a revocation *)
(* that has committed and names the connection, and once a socket's close  *)
(* event has been handled nothing of it is left.                           *)
(***************************************************************************)
THEOREM ClosesTellTheTruth == AdmissionSafetySpec => []ClosesAreTrueAndFinal
<1>1. AdmissionInv /\ TruthInv => ClosesAreTrueAndFinal
  <2> SUFFICES ASSUME AdmissionInv, TruthInv PROVE ClosesAreTrueAndFinal
    OBVIOUS
  <2>1. RevocationCodesAreTrue
    BY DEF TruthInv, RevocationCodesAreTrue, Says
  <2>2. NothingOutlivesTheSocket
    BY DEF TruthInv, NothingOutlivesTheSocket, TornDown, Registered
  <2> QED BY <2>1, <2>2 DEF ClosesAreTrueAndFinal
<1> QED
  BY AdmissionInvariance, TruthInitInv, TruthStepInv, <1>1, PTL DEF AdmissionSafetySpec

-----------------------------------------------------------------------------
(* The mechanism implements the promise.                                   *)

(* An admitted connection whose deadline has passed has a timer to end it. *)
DeadlinesAreWatched ==
  \A c \in Connections : entry[c] = "admitted" /\ DeadlinePassed(c) => OwedByDeadline(c)

LEMMA InvWatchesDeadlines == AdmissionInv => DeadlinesAreWatched
BY DEF AdmissionInv, DeadlinesAreWatched, OwedByDeadline, DeadlinePassed, StageMatchesEntry,
       SignalMatchesEntry

(* A step that takes no authority and admits nobody is an end, if of       *)
(* nobody: whoever stays admitted stays owed what it was owed.             *)
LEMMA EndingImplements ==
  ASSUME DeadlinesAreWatched', UNCHANGED <<db_vars, silent>>, queued' \subseteq queued,
         \A c \in Connections :
           /\ entry[c] = "gone" => entry'[c] = "gone"
           /\ entry'[c] = "admitted" => entry[c] = "admitted"
           /\ entry[c] = "admitted" => entry'[c] \in {"admitted", "gone"}
           /\ c \in armed' \/ stage'[c] # "open" => c \in armed \/ stage[c] # "open"
           /\ entry'[c] = "admitted" /\ OwedBy(c, queued) => OwedBy(c, queued)'
  PROVE  Abstract!End
<1> DEFINE ended == {c \in Connections : entry[c] # "gone" /\ entry'[c] = "gone"}
           over == {c \in Connections : entry[c] = "gone"}
<1>1. ended \in SUBSET (Connections \ over)
  OBVIOUS
<1>2. ASSUME NEW c \in Connections
      PROVE  /\ Authorized(c)' = Authorized(c) /\ DeadlinePassed(c)' = DeadlinePassed(c)
             /\ OwedBy(c, silent)' = OwedBy(c, silent)
             /\ OwedBy(c, queued)' => OwedBy(c, queued)
  <2>1. /\ RowPresent(c)' = RowPresent(c) /\ DeadlinePassed(c)' = DeadlinePassed(c)
        /\ AccountActive(c)' = AccountActive(c) /\ RoleHeld(c)' = RoleHeld(c)
    BY DEF RowPresent, DeadlinePassed, AccountActive, RoleHeld, CredentialOf, db_vars
  <2> QED BY <2>1 DEF Authorized, OwedBy, Matches
<1>3. ASSUME NEW c \in Connections
      PROVE  /\ Owed(c)' => Owed(c)
             /\ entry'[c] = "admitted" /\ Owed(c) => Owed(c)'
  BY <1>2 DEF Owed, OwedByDeadline, DeadlinesAreWatched
<1>4. /\ {c \in Connections : entry[c] = "gone"}' = over \cup ended
      /\ {c \in Connections : entry[c] = "admitted"}'
           = {c \in Connections : entry[c] = "admitted"} \ ended
      /\ {c \in Connections : Authorized(c)}' = {c \in Connections : Authorized(c)}
      /\ {c \in Connections : Owed(c)}' \subseteq {c \in Connections : Owed(c)}
      /\ {c \in Connections : entry[c] = "admitted"}' \cap {c \in Connections : Owed(c)}
           \subseteq {c \in Connections : Owed(c)}'
  BY <1>2, <1>3
<1> QED BY <1>1, <1>4 DEF Abstract!End

(* Who is admitted was found authorized, or a close that names it is due. *)
LEMMA AdmitUpgradeImplements ==
  ASSUME AdmissionInv, DeadlinesAreWatched', NEW c \in Connections, AdmitUpgrade(c)
  PROVE  Abstract!GoLive(c)
<1> DEFINE evicted == Evicted(Identity[c].account_id)
<1>1. /\ entry[c] = "pending" /\ stage[c] = "admit" /\ AdmittedInPlaceOf(c, evicted)
      /\ entry \in [Connections -> {"fresh", "pending", "admitted", "gone"}]
      /\ stage \in [Connections -> Stages]
      /\ UNCHANGED <<db_vars, close_vars>> /\ StageTo(c, "admitted") /\ AbortListeners
  BY DEF AdmitUpgrade, Admit, AdmissionInv, AdmissionTypeOK, RegistryTypeOK, StageMatchesEntry
<1>2. Authorized(c) \/ Owed(c)
  <2>1. ReadSoFar(c)
    BY DEF AdmissionInv
  <2>2. DeadlinePassed(c) => OwedByDeadline(c)
    BY <1>1 DEF OwedByDeadline
  <2> QED BY <1>1, <2>1, <2>2 DEF ReadSoFar, Registered, Authorized, Owed, Due
<1>3. evicted \subseteq {d \in Connections : entry[d] = "admitted"}
  BY DEF Evicted, AdmittedOf
<1> HIDE DEF evicted
<1>4. /\ entry' = [d \in Connections |-> IF d = c THEN "admitted"
                                         ELSE IF d \in evicted THEN "gone" ELSE entry[d]]
      /\ \A d \in Connections : d \in armed' => d \in armed
      /\ \A d \in Connections : stage[d] # "open" <=> stage'[d] # "open"
  BY <1>1 DEF AdmittedInPlaceOf, Removed, AbortListeners, StageTo
<1>5. ASSUME NEW d \in Connections
      PROVE  /\ Authorized(d)' = Authorized(d) /\ DeadlinePassed(d)' = DeadlinePassed(d)
             /\ OwedBy(d, silent)' = OwedBy(d, silent)
             /\ OwedBy(d, queued)' = OwedBy(d, queued)
  <2>1. /\ RowPresent(d)' = RowPresent(d) /\ DeadlinePassed(d)' = DeadlinePassed(d)
        /\ AccountActive(d)' = AccountActive(d) /\ RoleHeld(d)' = RoleHeld(d)
    BY <1>1 DEF RowPresent, DeadlinePassed, AccountActive, RoleHeld, CredentialOf, db_vars
  <2> QED BY <1>1, <2>1 DEF Authorized, OwedBy, Matches, close_vars
<1>6. ASSUME NEW d \in Connections
      PROVE  /\ Owed(d)' => Owed(d)
             /\ entry'[d] = "admitted" /\ Owed(d) => Owed(d)'
  BY <1>4, <1>5 DEF Owed, OwedByDeadline, DeadlinesAreWatched
<1>7. /\ {d \in Connections : entry[d] = "gone"}'
           = {d \in Connections : entry[d] = "gone"} \cup evicted
      /\ {d \in Connections : entry[d] = "admitted"}'
           = ({d \in Connections : entry[d] = "admitted"} \ evicted) \cup {c}
      /\ {d \in Connections : Authorized(d)}' = {d \in Connections : Authorized(d)}
      /\ {d \in Connections : Owed(d)}' \subseteq {d \in Connections : Owed(d)}
      /\ {d \in Connections : entry[d] = "admitted"}' \cap {d \in Connections : Owed(d)}
           \subseteq {d \in Connections : Owed(d)}'
  BY <1>1, <1>3, <1>4, <1>5, <1>6
<1>8. /\ c \notin {d \in Connections : entry[d] = "admitted"}
                    \cup {d \in Connections : entry[d] = "gone"}
      /\ c \in {d \in Connections : Authorized(d)} \cup {d \in Connections : Owed(d)}
  BY <1>1, <1>2
<1> QED BY <1>3, <1>7, <1>8 DEF Abstract!GoLive

(* The other steps of a socket. *)
LEMMA SocketStepImplements ==
  ASSUME AdmissionInv, AdmissionInv', NEW c \in Connections, SocketStep(c)
  PROVE  Abstract!End \/ Abstract!GoLive(c)
<1>0. /\ DeadlinesAreWatched' /\ AdmissionTypeOK /\ RegistryTypeOK
      /\ \A d \in Connections : StageMatchesEntry(d) /\ SignalMatchesEntry(d)
      /\ \A d \in Connections : StageMatchesEntry(d)' /\ SignalMatchesEntry(d)'
  BY InvWatchesDeadlines DEF AdmissionInv, RegistryInv, DeadlinesAreWatched, OwedByDeadline,
     DeadlinePassed, StageMatchesEntry, SignalMatchesEntry
<1>1. CASE AdmitUpgrade(c)
  BY <1>0, <1>1, AdmitUpgradeImplements
<1>2. ASSUME UNCHANGED <<db_vars, close_vars>>,
             \A d \in Connections :
               /\ \/ entry'[d] = entry[d]
                  \/ Registered(d) /\ entry'[d] = "gone"
                  \/ entry[d] = "fresh" /\ entry'[d] \in {"pending", "gone"}
               /\ c \in armed' => c \in armed \/ stage[c] # "open"
               /\ stage'[c] # "open" => stage[c] # "open"
               /\ d # c => stage'[d] = stage[d] /\ (d \in armed' => d \in armed)
      PROVE  Abstract!End
  BY <1>0, <1>2, EndingImplements DEF Registered, close_vars, OwedBy, Matches
<1>3. stage \in [Connections -> Stages]
  BY <1>0 DEF AdmissionTypeOK
<1>4. ASSUME NEW code, EndSocket(c, code)
      PROVE  \A d \in Connections : \/ entry'[d] = entry[d]
                                    \/ Registered(d) /\ entry'[d] = "gone"
  BY <1>4, EndSocketTakesOut DEF LeftOrTakenOut
<1>5. CASE PassGates(c) \/ Recheck(c)
  <2>1. /\ UNCHANGED <<registry_vars, armed, db_vars, close_vars>>
        /\ stage[c] # "open" /\ \E s : StageTo(c, s)
    BY <1>5 DEF PassGates, Recheck, ReadCredential, ReadAccount, ReadActor, ReadRole, ReadFails,
                RefuseWith, Rechecks
  <2> QED BY <1>2, <1>3, <2>1 DEF StageTo, registry_vars
<1>6. CASE OnOpen(c)
  <2>1. /\ UNCHANGED <<armed, db_vars, close_vars>>
        /\ stage[c] # "open" /\ \E s : StageTo(c, s)
        /\ \A d \in Connections :
             entry'[d] = entry[d] \/ (entry[d] = "fresh" /\ entry'[d] \in {"pending", "gone"})
    BY <1>0, <1>6 DEF OnOpen, RegisterPending, BornClosed, RegistryTypeOK
  <2> QED BY <1>2, <1>3, <2>1 DEF StageTo
<1>7. CASE Refuse(c) \/ AdmitUpgradeRefused(c)
  <2>1. /\ UNCHANGED <<db_vars, close_vars>> /\ AbortListeners
        /\ stage[c] # "open" /\ \E s : StageTo(c, s)
        /\ UNCHANGED entry \/ \E code : EndSocket(c, code)
    BY <1>7 DEF Refuse, AdmitUpgradeRefused, TakePendingCloseCode, registry_vars
  <2> QED BY <1>2, <1>3, <1>4, <2>1 DEF StageTo, AbortListeners
<1>8. CASE StartDeadline(c)
  <2>1. /\ UNCHANGED <<db_vars, close_vars>> /\ armed' \subseteq armed \cup {c}
        /\ stage[c] = "admitted" /\ StageTo(c, "open")
        /\ UNCHANGED entry \/ \E code : EndSocket(c, code)
    BY <1>8 DEF StartDeadline, registry_vars
  <2> QED BY <1>2, <1>3, <1>4, <2>1 DEF StageTo
<1>9. CASE DeadlineFires(c) \/ EndForOtherReason(c)
  <2>1. /\ UNCHANGED <<stage, db_vars, close_vars>> /\ AbortListeners
        /\ \E code : EndSocket(c, code)
    BY <1>9 DEF DeadlineFires, EndForOtherReason
  <2> QED BY <1>2, <1>4, <2>1 DEF AbortListeners
<1>10. CASE EndByOutboundBound(c) \/ OnClose(c)
  <2>1. /\ UNCHANGED <<stage, db_vars, close_vars>> /\ AbortListeners
        /\ entry' = Removed({c}) /\ entry[c] # "fresh"
    BY <1>10 DEF EndByOutboundBound, CloseOverflowed, DropStalled, EndConnections, OnClose,
                 Forgotten
  <2>2. \A d \in Connections : \/ entry'[d] = entry[d]
                               \/ Registered(d) /\ entry'[d] = "gone"
    BY <1>0, <2>1 DEF Removed, Registered, RegistryTypeOK
  <2> QED BY <1>2, <2>1, <2>2 DEF AbortListeners
<1>11. CASE WriterSettled(c)
  <2>1. UNCHANGED <<entry, stage, armed, db_vars, close_vars>>
    BY <1>11 DEF WriterSettled, CloseSettled, socket_vars
  <2> QED BY <1>2, <2>1
<1> QED BY <1>1, <1>5, <1>6, <1>7, <1>8, <1>9, <1>10, <1>11 DEF SocketStep

(* A close that runs ends whoever it was owed to. *)
LEMMA RunCloseImplements ==
  ASSUME AdmissionInv, AdmissionInv', NEW t \in Targets, RunClose(t)
  PROVE  Abstract!End
<1>1. /\ DeadlinesAreWatched' /\ AdmissionTypeOK /\ RegistryTypeOK
  BY DEF AdmissionInv, RegistryInv, DeadlinesAreWatched, OwedByDeadline, DeadlinePassed,
         StageMatchesEntry, SignalMatchesEntry
<1>2. /\ entry' = Removed({c \in Connections : Registered(c) /\ Matches(c, t)})
      /\ queued' = queued \ {t} /\ AbortListeners /\ UNCHANGED <<stage, db_vars, silent>>
  BY DEF RunClose, CloseConnections, EndConnections
<1>3. ASSUME NEW c \in Connections
      PROVE  /\ entry[c] = "gone" => entry'[c] = "gone"
             /\ entry'[c] = "admitted" => entry[c] = "admitted" /\ ~Matches(c, t)
             /\ entry[c] = "admitted" => entry'[c] \in {"admitted", "gone"}
  BY <1>1, <1>2 DEF Removed, Registered, RegistryTypeOK
<1>4. ASSUME NEW c \in Connections, entry'[c] = "admitted", OwedBy(c, queued)
      PROVE  OwedBy(c, queued)'
  BY <1>2, <1>3, <1>4 DEF OwedBy, Matches
<1> QED BY <1>1, <1>2, <1>3, <1>4, EndingImplements DEF AbortListeners

LEMMA ShutdownImplements ==
  ASSUME AdmissionInv, AdmissionInv', Shutdown
  PROVE  Abstract!End
<1>1. /\ DeadlinesAreWatched' /\ AdmissionTypeOK /\ RegistryTypeOK
  BY DEF AdmissionInv, RegistryInv, DeadlinesAreWatched, OwedByDeadline, DeadlinePassed,
         StageMatchesEntry, SignalMatchesEntry
<1>2. /\ entry' = Removed({c \in Connections : Registered(c)})
      /\ AbortListeners /\ UNCHANGED <<stage, db_vars, queued, silent>>
  BY DEF Shutdown, CloseAllConnections, close_vars
<1>3. ASSUME NEW c \in Connections
      PROVE  /\ entry[c] = "gone" => entry'[c] = "gone"
             /\ entry'[c] # "admitted"
             /\ entry[c] = "admitted" => entry'[c] \in {"admitted", "gone"}
  BY <1>1, <1>2 DEF Removed, Registered, RegistryTypeOK
<1> QED BY <1>1, <1>2, <1>3, EndingImplements DEF AbortListeners

(***************************************************************************)
(* Authority that goes leaves a close due to every connection it was taken *)
(* from, whether or not that connection is open yet.                       *)
(***************************************************************************)
LEMMA RevokeImplements ==
  ASSUME UNCHANGED <<registry_vars, socket_vars>>,
         \A c \in Connections :
           /\ Authorized(c)' => Authorized(c)
           /\ Authorized(c) /\ ~Authorized(c)' /\ entry[c] # "gone" => Owed(c)'
           /\ Owed(c) => Owed(c)'
  PROVE  Abstract!Revoke
<1> DEFINE lost == {c \in Connections : Authorized(c) /\ ~Authorized(c)'}
<1>1. lost \in SUBSET Connections
  OBVIOUS
<1>2. /\ {c \in Connections : Authorized(c)}' = {c \in Connections : Authorized(c)} \ lost
      /\ {c \in Connections : Owed(c)}
           \cup (lost \ {c \in Connections : entry[c] = "gone"})
             \subseteq {c \in Connections : Owed(c)}'
      /\ {c \in Connections : Owed(c)}' \subseteq Connections
  OBVIOUS
<1>3. /\ {c \in Connections : entry[c] = "admitted"}' = {c \in Connections : entry[c] = "admitted"}
      /\ {c \in Connections : entry[c] = "gone"}' = {c \in Connections : entry[c] = "gone"}
  BY DEF registry_vars
<1> HIDE DEF lost
<1> QED BY <1>1, <1>2, <1>3 DEF Abstract!Revoke

(* A commit that names whom it takes something from. *)
LEMMA NamedLossImplements ==
  ASSUME AdmissionTypeOK, NEW t \in Targets, Committed(t),
         UNCHANGED <<registry_vars, socket_vars, expired>>,
         credentials' \subseteq credentials, active' \subseteq active, grants' \subseteq grants,
         \A c \in Connections :
           \/ Matches(c, t)
           \/ /\ RowPresent(c) => RowPresent(c)'
              /\ AccountActive(c) => AccountActive(c)'
              /\ RoleHeld(c) => RoleHeld(c)'
  PROVE  Abstract!Revoke
<1>1. ASSUME NEW c \in Connections
      PROVE  /\ Authorized(c)' => Authorized(c)
             /\ Authorized(c) /\ ~Authorized(c)' => Owed(c)'
             /\ Owed(c) => Owed(c)'
  <2>1. Due(c) \/ Matches(c, t) => Due(c)'
    BY CommittedIsDue
  <2>2. /\ DeadlinePassed(c)' = DeadlinePassed(c) /\ OwedByDeadline(c)' = OwedByDeadline(c)
    BY DEF DeadlinePassed, OwedByDeadline, CredentialOf, socket_vars
  <2>3. /\ RowPresent(c)' => RowPresent(c)
        /\ AccountActive(c)' => AccountActive(c)
        /\ RoleHeld(c)' => RoleHeld(c)
    BY DEF RowPresent, AccountActive, RoleHeld, CredentialOf
  <2> QED BY <2>1, <2>2, <2>3 DEF Authorized, Owed, Due
<1> QED BY <1>1, RevokeImplements

LEMMA AuthorityStepImplements ==
  ASSUME AdmissionInv, AuthorityStep
  PROVE  Abstract!Revoke \/ Abstract!Grant
<1>0. AdmissionTypeOK
  BY DEF AdmissionInv
<1>1. CASE \/ \E s \in Sessions : RevokeSession(s)
           \/ \E k \in Tokens : RevokeToken(k)
  <2>1. PICK k \in Credentials, t \in Targets :
          /\ Committed(t) /\ credentials' = credentials \ {k}
          /\ \/ k \in Sessions /\ t = SessionTarget(k)
             \/ k \in Tokens /\ t = TokenTarget(k)
          /\ UNCHANGED <<registry_vars, socket_vars, expired, active, grants>>
    BY <1>1 DEF RevokeSession, RevokeToken, SessionTarget, TokenTarget, Targets, Credentials
  <2>2. ASSUME NEW c \in Connections, RowPresent(c), ~RowPresent(c)'
        PROVE  Matches(c, t)
    <3>1. k \in CredentialOf(c)
      BY <2>1, <2>2 DEF RowPresent, CredentialOf
    <3> QED BY <2>1, <3>1, CredentialIsOwned DEF Matches, SessionTarget, TokenTarget
  <2>3. \A c \in Connections : /\ AccountActive(c)' = AccountActive(c)
                               /\ RoleHeld(c)' = RoleHeld(c)
    BY <2>1 DEF AccountActive, RoleHeld
  <2> QED BY <1>0, <2>1, <2>2, <2>3, NamedLossImplements
<1>2. CASE \E a \in Accounts : RevokeFromAccount(a) \/ DeleteAccount(a)
  <2>1. PICK a \in Accounts : RevokeFromAccount(a) \/ DeleteAccount(a)
    BY <1>2
  <2>2. PICK t : t = AccountTarget(a)
    OBVIOUS
  <2>3. /\ t \in Targets /\ Committed(t)
        /\ credentials' \subseteq credentials
        /\ \A k \in credentials \ credentials' : Owner[k] = a
        /\ active' \subseteq active /\ active \ active' \subseteq {a}
        /\ UNCHANGED <<registry_vars, socket_vars, expired, grants>>
    BY <2>1, <2>2 DEF RevokeFromAccount, DeleteAccount, CredentialsOf, AccountTarget, Targets
  <2>4. ASSUME NEW c \in Connections, ~Matches(c, t)
        PROVE  /\ RowPresent(c) => RowPresent(c)'
               /\ AccountActive(c) => AccountActive(c)'
               /\ RoleHeld(c) => RoleHeld(c)'
    <3>1. Identity[c].account_id # a
      BY <2>2, <2>4 DEF Matches, AccountTarget
    <3>2. \A k \in CredentialOf(c) : Owner[k] # a
      BY <3>1, CredentialIsOwned
    <3> QED BY <2>3, <3>1, <3>2 DEF RowPresent, AccountActive, RoleHeld, CredentialOf
  <2> QED BY <1>0, <2>3, <2>4, NamedLossImplements
<1>3. CASE \E a \in Accounts, r \in Roles : RevokeRole(a, r)
  <2>1. PICK a \in Accounts, r \in Roles : RevokeRole(a, r)
    BY <1>3
  <2>2. PICK t : t = RoleTarget(a, r)
    OBVIOUS
  <2>3. /\ t \in Targets /\ Committed(t) /\ grants' = grants \ {<<a, r>>}
        /\ UNCHANGED <<registry_vars, socket_vars, credentials, expired, active>>
    BY <2>1, <2>2 DEF RevokeRole, RoleTarget, Targets
  <2>4. ASSUME NEW c \in Connections, RoleHeld(c), ~RoleHeld(c)'
        PROVE  Matches(c, t)
    <3>1. PICK q \in Identity[c].required_roles :
            <<Identity[c].account_id, q>> \in grants
      BY <2>4 DEF RoleHeld
    <3>2. <<Identity[c].account_id, q>> = <<a, r>>
      BY <2>3, <2>4, <3>1 DEF RoleHeld
    <3> QED BY <2>2, <3>1, <3>2 DEF Matches, RoleTarget
  <2>5. \A c \in Connections : /\ RowPresent(c)' = RowPresent(c)
                               /\ AccountActive(c)' = AccountActive(c)
    BY <2>3 DEF RowPresent, CredentialOf, AccountActive
  <2> QED BY <1>0, <2>3, <2>4, <2>5, NamedLossImplements
<1>4. CASE \E k \in Credentials : Expire(k)
  <2>1. /\ expired \subseteq expired'
        /\ UNCHANGED <<registry_vars, socket_vars, credentials, active, grants, close_vars>>
    BY <1>4 DEF Expire
  <2>2. ASSUME NEW c \in Connections
        PROVE  /\ Authorized(c)' => Authorized(c)
               /\ Authorized(c) /\ ~Authorized(c)' /\ entry[c] # "gone" => Owed(c)'
               /\ Owed(c) => Owed(c)'
    <3>1. /\ RowPresent(c)' = RowPresent(c) /\ AccountActive(c)' = AccountActive(c)
          /\ RoleHeld(c)' = RoleHeld(c)
          /\ OwedBy(c, queued)' = OwedBy(c, queued) /\ OwedBy(c, silent)' = OwedBy(c, silent)
      BY <2>1 DEF RowPresent, AccountActive, RoleHeld, CredentialOf, OwedBy, Matches, close_vars
    <3>2. /\ DeadlinePassed(c) => DeadlinePassed(c)'
          /\ DeadlinePassed(c)' => CredentialOf(c) # {}
      BY <2>1 DEF DeadlinePassed, CredentialOf
    <3>3. /\ c \in armed' <=> c \in armed
          /\ stage'[c] = stage[c]
      BY <2>1 DEF socket_vars
    <3>4. OwedByDeadline(c) => OwedByDeadline(c)'
      BY <3>2, <3>3 DEF OwedByDeadline
    <3>5. ASSUME DeadlinePassed(c)', entry[c] # "gone"
          PROVE  OwedByDeadline(c)'
      <4>1. entry[c] \in {"fresh", "pending", "admitted"}
        BY <3>5 DEF AdmissionInv, RegistryInv, RegistryTypeOK
      <4>2. StageMatchesEntry(c) /\ SignalMatchesEntry(c)
        BY DEF AdmissionInv
      <4>3. c \in armed \/ stage[c] # "open"
        BY <3>2, <3>5, <4>1, <4>2 DEF StageMatchesEntry, SignalMatchesEntry, Rechecks
      <4> QED BY <3>3, <3>5, <4>3 DEF OwedByDeadline
    <3> QED BY <3>1, <3>2, <3>4, <3>5 DEF Authorized, Owed
  <2> QED BY <2>1, <2>2, RevokeImplements
<1>5. CASE \/ \E a \in Accounts : UndeleteAccount(a)
           \/ \E a \in Accounts, r \in Roles : GrantRole(a, r)
  <2>1. /\ active \subseteq active' /\ grants \subseteq grants'
        /\ UNCHANGED <<registry_vars, socket_vars, credentials, expired, close_vars>>
    BY <1>5 DEF UndeleteAccount, GrantRole
  <2>2. UNCHANGED <<entry, stage, armed, queued, silent>>
    BY <2>1 DEF registry_vars, socket_vars, close_vars
  <2>3. ASSUME NEW c \in Connections
        PROVE  (Authorized(c) => Authorized(c)') /\ (Owed(c)' <=> Owed(c))
    <3>1. /\ RowPresent(c)' = RowPresent(c) /\ DeadlinePassed(c)' = DeadlinePassed(c)
          /\ AccountActive(c) => AccountActive(c)'
          /\ RoleHeld(c) => RoleHeld(c)'
      BY <2>1 DEF RowPresent, DeadlinePassed, AccountActive, RoleHeld, CredentialOf
    <3> QED BY <2>2, <3>1 DEF Authorized, Owed, OwedBy, Matches, OwedByDeadline
  <2> QED BY <2>2, <2>3 DEF Abstract!Grant
<1> QED BY <1>1, <1>2, <1>3, <1>4, <1>5 DEF AuthorityStep

(***************************************************************************)
(* The upgrade, its re-check, the registry and the revocation handlers     *)
(* implement RevocableConnections: every step of theirs is a loss or a     *)
(* return of authority, an admission on authority held or still owed a     *)
(* close, or an end - for any connections, and however they interleave.    *)
(***************************************************************************)
THEOREM AdmissionImplementsThePromise == AdmissionSafetySpec => ImplementsThePromise
<1>1. AdmissionInit => Abstract!AbstractInit
  BY DEF AdmissionInit, RegistryInit, Abstract!AbstractInit, Owed, OwedBy, OwedByDeadline,
         DeadlinePassed
<1>2. ASSUME AdmissionInv, AdmissionInv', [AdmissionNext]_admission_vars
      PROVE  [Abstract!AbstractNext]_Abstract!abstract_vars
  <2>1. CASE \E c \in Connections : SocketStep(c)
    BY <1>2, <2>1, SocketStepImplements DEF Abstract!AbstractNext
  <2>2. CASE AuthorityStep
    BY <1>2, <2>2, AuthorityStepImplements DEF Abstract!AbstractNext
  <2>3. CASE \E t \in Targets : RunClose(t)
    BY <1>2, <2>3, RunCloseImplements DEF Abstract!AbstractNext
  <2>4. CASE Shutdown
    BY <1>2, <2>4, ShutdownImplements DEF Abstract!AbstractNext
  <2>5. CASE UNCHANGED admission_vars
    <3>1. UNCHANGED <<entry, stage, armed, credentials, expired, active, grants, queued, silent>>
      BY <2>5 DEF admission_vars, registry_vars, socket_vars, db_vars, close_vars
    <3>2. \A c \in Connections : Authorized(c)' = Authorized(c) /\ Owed(c)' = Owed(c)
      BY <3>1 DEF Authorized, RowPresent, DeadlinePassed, AccountActive, RoleHeld, CredentialOf,
                  Owed, OwedBy, Matches, OwedByDeadline
    <3> QED BY <3>1, <3>2 DEF Abstract!abstract_vars
  <2> QED BY <1>2, <2>1, <2>2, <2>3, <2>4, <2>5 DEF AdmissionNext
<1> QED
  BY AdmissionInvariance, <1>1, <1>2, PTL
  DEF AdmissionSafetySpec, ImplementsThePromise, Abstract!AbstractSpec

(***************************************************************************)
(* What the promise gives.  A revocation does not owe a close to what is   *)
(* over, so the invariant needs that nothing is live and over at once.     *)
(***************************************************************************)
PromiseInv ==
    Abstract!LiveOnAuthority
      /\ {c \in Connections : entry[c] = "admitted"} \cap {c \in Connections : entry[c] = "gone"} = {}

LEMMA PromiseStep ==
  ASSUME PromiseInv, [Abstract!AbstractNext]_Abstract!abstract_vars
  PROVE  PromiseInv'
<1>1. CASE Abstract!Revoke
  BY <1>1 DEF PromiseInv, Abstract!LiveOnAuthority, Abstract!Revoke
<1>2. CASE Abstract!Grant
  BY <1>2 DEF PromiseInv, Abstract!LiveOnAuthority, Abstract!Grant
<1>3. ASSUME NEW c \in Connections, Abstract!GoLive(c)
      PROVE  PromiseInv'
  BY <1>3 DEF PromiseInv, Abstract!LiveOnAuthority, Abstract!GoLive
<1>4. CASE Abstract!End
  BY <1>4 DEF PromiseInv, Abstract!LiveOnAuthority, Abstract!End
<1>5. CASE UNCHANGED Abstract!abstract_vars
  BY <1>5 DEF PromiseInv, Abstract!LiveOnAuthority, Abstract!abstract_vars
<1> QED BY <1>1, <1>2, <1>3, <1>4, <1>5 DEF Abstract!AbstractNext

(***************************************************************************)
(* No connection lives on authority it has lost, unless the close that the *)
(* loss owes it is still to come: from the promise alone, whatever the     *)
(* mechanism that keeps it.                                                *)
(***************************************************************************)
THEOREM PromiseHolds == Abstract!AbstractSpec => []Abstract!LiveOnAuthority
<1>1. Abstract!AbstractInit => PromiseInv
  BY DEF Abstract!AbstractInit, PromiseInv, Abstract!LiveOnAuthority
<1>2. PromiseInv /\ [Abstract!AbstractNext]_Abstract!abstract_vars => PromiseInv'
  BY PromiseStep
<1>3. PromiseInv => Abstract!LiveOnAuthority
  BY DEF PromiseInv
<1> QED BY <1>1, <1>2, <1>3, PTL DEF Abstract!AbstractSpec

(* What has ended, or was refused, is never admitted again.                *)
THEOREM OverForGood == Abstract!AbstractSpec => Abstract!EndedForGood
<1> DEFINE gone == {c \in Connections : entry[c] = "gone"}
<1>1. [Abstract!AbstractNext]_Abstract!abstract_vars => [gone \subseteq gone']_Abstract!abstract_vars
  BY DEF Abstract!AbstractNext, Abstract!Revoke, Abstract!Grant, Abstract!GoLive, Abstract!End,
         Abstract!abstract_vars
<1> QED BY <1>1, PTL DEF Abstract!AbstractSpec, Abstract!EndedForGood

(* So both hold of the admission, which keeps the promise.                 *)
THEOREM AdmissionKeepsThePromise ==
  AdmissionSafetySpec => []Abstract!LiveOnAuthority /\ Abstract!EndedForGood
BY AdmissionImplementsThePromise, PromiseHolds, OverForGood, PTL DEF ImplementsThePromise
=============================================================================
