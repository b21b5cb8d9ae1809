----------------------------- MODULE MCFairProofs -----------------------------
(***************************************************************************)
(* Theorems about the parts of MCFair: what the readers of cells are       *)
(* shown, what the outbound writer of a connection holds, and what the     *)
(* servers of a backend acquire and let go of.                             *)
(***************************************************************************)
EXTENDS MCFair, FiniteSetTheorems, WellFoundedInduction, TLAPS

------------------------------------------------------------------------------
(***************************************************************************)
(* The readers of cells.  What a list shows is a matter of the two forms   *)
(* of one predicate, whatever the tables hold.                             *)
(***************************************************************************)

\* The rule for rows that were read and its form in SQL admit the same grants.
LEMMA GrantsAdmitAlike ==
  ASSUME NEW v \in Reads!Viewers, NEW granted
  PROVE  Reads!GrantAdmits(v, granted) <=>
            /\ Reads!Viewer(v).actor # Reads!None
            /\ \E g \in granted : Reads!GrantAdmitsCaller(g, Reads!Viewer(v))
<1>1. /\ Reads!Viewer(v).actor = IF v # "anonymous" THEN v ELSE "none"
      /\ Reads!Viewer(v).scopes = {p.scope : p \in {q \in Reads!RoleGrants(v) : q.active}}
  BY DEF Reads!Viewer, Reads!HasActor, Reads!None
<1>2. v = "anonymous" => Reads!RoleGrants(v) = {}
  BY DEF Reads!RoleGrants
<1>3. v # "none"
  BY DEF Reads!Viewers
<1>4. ASSUME NEW g
      PROVE  (IF Reads!NamesActor(g) THEN Reads!HasActor(v) /\ g = v
              ELSE \E p \in Reads!RoleGrants(v) :
                      (g = "role_anywhere" \/ p.scope = "here") /\ p.active)
             <=> /\ Reads!Viewer(v).actor # Reads!None
                 /\ Reads!GrantAdmitsCaller(g, Reads!Viewer(v))
  BY <1>1, <1>2, <1>3 DEF Reads!GrantAdmitsCaller, Reads!HasActor, Reads!None
<1> QED BY <1>4 DEF Reads!GrantAdmits

\* can_view_cell_sql is can_view_cell over the rows as they are.
LEMMA ViewsAlike ==
  ASSUME NEW v \in Reads!Viewers, NEW c
  PROVE  Reads!CanViewSql(Reads!Viewer(v), c) <=> Reads!CanView(v, c, cell[c], grants[c])
<1>1. /\ Reads!Viewer(v).actor = IF v # "anonymous" THEN v ELSE "none"
      /\ Reads!Viewer(v).admin = (v = "admin")
  BY DEF Reads!Viewer, Reads!HasActor, Reads!None, Reads!IsAdmin
<1>2. v # "none"
  BY DEF Reads!Viewers
<1>3. Reads!GrantAdmits(v, grants[c]) <=>
         /\ Reads!Viewer(v).actor # Reads!None
         /\ \E g \in grants[c] : Reads!GrantAdmitsCaller(g, Reads!Viewer(v))
  BY GrantsAdmitAlike
<1> QED BY <1>1, <1>2, <1>3
           DEF Reads!CanViewSql, Reads!CanView, Reads!IsAdmin, Reads!HasActor, Reads!None

\* The lists show what a get shows, in every state of the tables.
LEMMA ListsAreLikeGets ==
  Reads!ListsShowWhatGetShows
<1> SUFFICES ASSUME NEW v \in Reads!Viewers
             PROVE  LET viewer == Reads!Viewer(v)
                    IN  /\ Reads!CellList(v, FALSE) = {c \in Reads!Cells : Reads!GetAdmits(v, c)}
                        /\ Reads!CellList(v, TRUE) \subseteq Reads!CellList(v, FALSE)
                        /\ \A c \in Reads!CellList(v, TRUE) :
                              Reads!GrantsForCaller(viewer, c) # {}
                        /\ \A c \in Children :
                              Reads!LinkedFrom(viewer, c) # {} =>
                                 /\ cell[Reads!Parent].live
                                 /\ Reads!CanView(v, Reads!Parent, cell[Reads!Parent],
                                                  grants[Reads!Parent])
  BY DEF Reads!ListsShowWhatGetShows
<1> DEFINE viewer == Reads!Viewer(v)
<1>1. /\ viewer.actor = IF v # "anonymous" THEN v ELSE "none"
      /\ viewer.admin = (v = "admin")
      /\ v # "none"
  BY DEF Reads!Viewer, Reads!HasActor, Reads!None, Reads!IsAdmin, Reads!Viewers
<1>2. \A c : Reads!CanViewSql(viewer, c) <=> Reads!CanView(v, c, cell[c], grants[c])
  BY ViewsAlike
<1>3. /\ Reads!CellList(v, FALSE) = Reads!GeneralList(viewer)
      /\ Reads!CellList(v, TRUE) = Reads!SharedWith(viewer)
  BY DEF Reads!CellList
<1>4. ASSUME NEW c \in Reads!Cells
      PROVE  c \in Reads!GeneralList(viewer) <=> Reads!GetAdmits(v, c)
  <2>1. (v = "admin") => Reads!CanView(v, c, cell[c], grants[c])
    BY DEF Reads!CanView, Reads!IsAdmin
  <2>2. Reads!GetAdmits(v, c) <=>
           /\ cell[c].live
           /\ \/ Reads!CanView(v, c, cell[c], grants[c])
              \/ /\ v # "anonymous" /\ cell[c].contributed /\ Reads!IsStewardable(cell[c])
                 /\ cell[Reads!Parent].live /\ Reads!OwnerOf(Reads!Parent) = v
    BY <2>1 DEF Reads!GetAdmits, Reads!StewardAdmits, Reads!HasActor, Reads!IsAdmin
  <2>3. c \in Reads!GeneralList(viewer) <=>
           /\ cell[c].live
           /\ \/ Reads!CanViewSql(viewer, c)
              \/ /\ viewer.actor # "none" /\ cell[c].contributed
                 /\ Reads!IsStewardable(cell[c])
                 /\ cell[Reads!Parent].live /\ Reads!OwnerOf(Reads!Parent) = viewer.actor
    BY DEF Reads!GeneralList, Reads!None
  <2> QED BY <1>1, <1>2, <2>2, <2>3
<1>5. Reads!GeneralList(viewer) = {c \in Reads!Cells : Reads!GetAdmits(v, c)}
  BY <1>4 DEF Reads!GeneralList
<1>6. Reads!SharedWith(viewer) \subseteq Reads!GeneralList(viewer)
  BY DEF Reads!SharedWith, Reads!GeneralList, Reads!CanViewSql
<1>7. \A c \in Reads!SharedWith(viewer) : Reads!GrantsForCaller(viewer, c) # {}
  BY DEF Reads!SharedWith, Reads!GrantsForCaller
<1>8. ASSUME NEW c \in Children, Reads!LinkedFrom(viewer, c) # {}
      PROVE  /\ cell[Reads!Parent].live
             /\ Reads!CanView(v, Reads!Parent, cell[Reads!Parent], grants[Reads!Parent])
  BY <1>2, <1>8 DEF Reads!LinkedFrom
<1> QED BY <1>3, <1>5, <1>6, <1>7, <1>8

------------------------------------------------------------------------------
(***************************************************************************)
(* Pages.                                                                  *)
(***************************************************************************)

\* A nonempty set of naturals has a least element.
LEMMA LeastNat ==
  ASSUME NEW T, T \subseteq Nat, T # {}
  PROVE  \E m \in T : \A n \in T : m <= n
<1> DEFINE R == {ss \in Nat \X Nat : ss[1] < ss[2]}
<1>1. IsWellFoundedOn(R, Nat)
  BY NatLessThanWellFounded DEF OpToRel
<1>2. PICK m \in T : \A n \in T : ~(<<n, m>> \in R)
  BY <1>1, WFMin
<1>3. ASSUME NEW n \in T
      PROVE  m <= n
  <2>1. n \in Nat /\ m \in Nat
    OBVIOUS
  <2>2. n < m => <<n, m>> \in R
    BY <2>1
  <2> QED BY <1>2, <2>1, <2>2
<1> QED BY <1>3

\* The reads count as this module does.
LEMMA ReadsCardinality == \A S : Reads!Cardinality(S) = Cardinality(S)
  BY DEF Reads!Cardinality, Cardinality

LEMMA FirstOfByRank ==
  ASSUME NEW keys, NEW n
  PROVE  Reads!FirstOf(keys, n) = {k \in keys : Cardinality({j \in keys : j < k}) < n}
<1>1. \A k : Reads!Cardinality({j \in keys : j < k}) = Cardinality({j \in keys : j < k})
  BY ReadsCardinality
<1> QED BY <1>1 DEF Reads!FirstOf

LEMMA KeysFinite ==
  ASSUME NEW keys \in SUBSET Reads!LinkKeys
  PROVE  IsFiniteSet(keys) /\ Cardinality(keys) \in Nat
<1>1. IsFiniteSet(1 .. MaxKey)
  BY FS_Interval, ReadsAssumption
<1>2. IsFiniteSet(keys)
  BY <1>1, FS_Subset DEF Reads!LinkKeys
<1> QED BY <1>2, FS_CardinalityType

\* A page that is short of its limit is everything.
LEMMA ShortPageIsAll ==
  ASSUME NEW keys \in SUBSET Reads!LinkKeys, NEW n \in Nat,
         Cardinality(Reads!FirstOf(keys, n)) < n
  PROVE  Reads!FirstOf(keys, n) = keys
<1> DEFINE page == Reads!FirstOf(keys, n)
<1>1. page = {k \in keys : Cardinality({j \in keys : j < k}) < n}
  BY FirstOfByRank
<1>2. keys \subseteq Nat
  BY ReadsAssumption DEF Reads!LinkKeys
<1> HIDE DEF page
<1>3. SUFFICES ASSUME keys \ page # {}
               PROVE  FALSE
  BY <1>1 DEF page
<1>4. PICK m \in keys \ page : \A k \in keys \ page : m <= k
  <2>1. keys \ page \subseteq Nat
    BY <1>2
  <2> QED BY <2>1, <1>3, LeastNat
<1> DEFINE below == {j \in keys : j < m}
<1>5. below \subseteq page
  <2> SUFFICES ASSUME NEW j \in keys, j < m, j \notin page
               PROVE  FALSE
    OBVIOUS
  <2>1. m <= j
    BY <1>4
  <2> QED BY <2>1, <1>2, <1>4
<1>6. ~(Cardinality(below) < n)
  BY <1>1, <1>4
<1>7. page \in SUBSET Reads!LinkKeys /\ below \in SUBSET Reads!LinkKeys
  BY <1>1
<1> HIDE DEF below
<1>8. /\ IsFiniteSet(page) /\ Cardinality(page) \in Nat
      /\ Cardinality(below) \in Nat
  BY <1>7, KeysFinite
<1>9. Cardinality(below) <= Cardinality(page)
  BY <1>5, <1>8, FS_Subset
<1>10. Cardinality(page) < n
  BY DEF page
<1> QED BY <1>6, <1>8, <1>9, <1>10

\* Nothing is cut off what is within the limit.
LEMMA WithinTheLimit ==
  ASSUME NEW keys \in SUBSET Reads!LinkKeys, NEW n \in Nat, Cardinality(keys) <= n
  PROVE  Reads!FirstOf(keys, n) = keys
<1> SUFFICES ASSUME NEW k \in keys
             PROVE  Cardinality({j \in keys : j < k}) < n
  BY FirstOfByRank
<1> DEFINE below == {j \in keys : j < k}
<1>1. k \in Nat
  BY ReadsAssumption DEF Reads!LinkKeys
<1>2. below \subseteq keys \ {k}
  BY <1>1
<1>3. IsFiniteSet(keys) /\ Cardinality(keys) \in Nat
  BY KeysFinite
<1>4. /\ IsFiniteSet(keys \ {k})
      /\ Cardinality(keys \ {k}) = Cardinality(keys) - 1
  BY <1>3, FS_RemoveElement
<1>5. below \in SUBSET Reads!LinkKeys
  OBVIOUS
<1> HIDE DEF below
<1>6. Cardinality(below) \in Nat
  BY <1>5, KeysFinite
<1>7. Cardinality(below) <= Cardinality(keys \ {k})
  BY <1>2, <1>4, FS_Subset
<1>8. Cardinality(below) < n
  BY <1>3, <1>4, <1>6, <1>7
<1> QED BY <1>8 DEF below

\* Where the next page begins: nothing that is listed is before it but what was shown.
LEMMA PageEndsAtItsLast ==
  ASSUME NEW keys \in SUBSET Reads!LinkKeys, NEW n \in Nat,
         NEW page, page = Reads!FirstOf(keys, n), page # {}
  PROVE  /\ Reads!LastOf(page) \in page
         /\ \A k \in keys : k <= Reads!LastOf(page) => k \in page
<1>1. page = {k \in keys : Cardinality({j \in keys : j < k}) < n}
  BY FirstOfByRank
<1>2. MaxKey \in Nat /\ \A k \in keys : k \in Nat /\ k \in 1 .. MaxKey
  BY ReadsAssumption DEF Reads!LinkKeys
<1> DEFINE rest == {MaxKey - k : k \in page}
<1>3. PICK m \in rest : \A d \in rest : m <= d
  <2>1. \A k \in page : MaxKey - k \in Nat
    BY <1>1, <1>2
  <2>2. rest \subseteq Nat
    BY <2>1
  <2>3. PICK k \in page : TRUE
    OBVIOUS
  <2>4. MaxKey - k \in rest
    BY <2>3
  <2> HIDE DEF rest
  <2> QED BY <2>2, <2>4, LeastNat
<1>4. PICK last \in page : m = MaxKey - last
  OBVIOUS
<1>5. \A k \in page : k <= last
  <2> SUFFICES ASSUME NEW k \in page
               PROVE  k <= last
    OBVIOUS
  <2>1. MaxKey - last <= MaxKey - k
    BY <1>3, <1>4
  <2> QED BY <2>1, <1>1, <1>2
<1>6. \E k \in page : \A j \in page : j <= k
  BY <1>5
<1>7. Reads!LastOf(page) \in page /\ \A j \in page : j <= Reads!LastOf(page)
  BY <1>6 DEF Reads!LastOf
<1>8. ASSUME NEW k \in keys, k <= Reads!LastOf(page)
      PROVE  k \in page
  <2> DEFINE last_ == Reads!LastOf(page)
             below(x) == {j \in keys : j < x}
  <2>1. last_ \in keys /\ Cardinality(below(last_)) < n
    BY <1>1, <1>7
  <2>2. below(k) \subseteq below(last_)
    BY <2>1, <1>2, <1>8
  <2>3. below(k) \in SUBSET Reads!LinkKeys /\ below(last_) \in SUBSET Reads!LinkKeys
    OBVIOUS
  <2> HIDE DEF below, last_
  <2>4. /\ IsFiniteSet(below(last_)) /\ Cardinality(below(last_)) \in Nat
        /\ Cardinality(below(k)) \in Nat
    BY <2>3, KeysFinite
  <2>5. Cardinality(below(k)) <= Cardinality(below(last_))
    BY <2>2, <2>4, FS_Subset
  <2>6. Cardinality(below(k)) < n
    BY <2>1, <2>4, <2>5
  <2> QED BY <2>6, <1>1 DEF below
<1> QED BY <1>7, <1>8

------------------------------------------------------------------------------
(***************************************************************************)
(* The walk of a reader, while others change what it reads.  What it has   *)
(* been shown it could see at some time, and of the links that stayed, to  *)
(* cells it could see all along, none falls between its statements: a      *)
(* bundle that is not truncated holds them all, with their rows, and a     *)
(* page ends after the ones before it.                                     *)
(***************************************************************************)

ReadsTypes ==
  /\ links \in [Reads!LinkKeys -> Reads!Cells]
  /\ grants = [c \in Reads!Cells |-> grants[c]]

ReaderInv ==
  /\ walk.by \in Reads!Viewers
  /\ steady \subseteq Reads!LinksTo(Reads!SeenBy(walk.by))
  /\ Reads!SeenBy(walk.by) \subseteq sighted
  /\ \A l \in shown : l.child \in sighted

\* By the row that was read the reader may see the cell, if by the grants too.
RowAdmits(l) ==
  /\ l.child \in DOMAIN walk.rows
  /\ \/ Reads!IsAdmin(walk.by)
     \/ Reads!HasActor(walk.by) /\ Reads!OwnerOf(l.child) = walk.by
     \/ Reads!HasAudience(walk.rows[l.child])

BundleInv ==
  /\ walk.stage \in {"rows", "grants"} =>
        /\ \A l \in walk.links : l.child \in Children
        /\ ~walk.truncated => steady \subseteq walk.links
  /\ walk.stage = "grants" =>
        /\ DOMAIN walk.rows \subseteq Children
        /\ \A c \in DOMAIN walk.rows :
              Reads!CanView(walk.by, c, walk.rows[c], grants[c]) => c \in sighted
        /\ ~walk.truncated => \A l \in steady : RowAdmits(l)

PagesInv ==
  /\ walk.stage = "paging" =>
        /\ walk.after \in Nat
        /\ \A l \in steady : l.key <= walk.after => l \in shown
  /\ walk.stage \in {"bundled", "walked"} => steady \subseteq shown

AtRest ==
  walk = Reads!Resting /\ shown = {} /\ steady = {} /\ sighted = {}

ReadsInv ==
  ReadsTypes /\ (AtRest \/ (ReaderInv /\ BundleInv /\ PagesInv))

LEMMA ReadsInitInv ==
  ASSUME Reads!ReadsInit
  PROVE  ReadsInv
<1>1. AtRest
  BY DEF Reads!ReadsInit, AtRest
<1>2. links \in [Reads!LinkKeys -> Reads!Cells]
  BY ReadsAssumption DEF Reads!ReadsInit, Reads!Cells, Reads!Unlinked
<1>3. grants = [c \in Reads!Cells |-> grants[c]]
  BY DEF Reads!ReadsInit
<1> QED BY <1>1, <1>2, <1>3 DEF ReadsInv, ReadsTypes

LEMMA NobodyIsAtRest ==
  ASSUME AtRest
  PROVE  walk.stage = "idle" /\ walk.by = Reads!None
BY DEF AtRest, Reads!Resting

\* A step of the others: the walk is where it was, and what is steady stays visible.  A
\* grant is added to a cell that is as it was and has an audience.
LEMMA OthersStep ==
  ASSUME ReadsInv, ReadsTypes', Reads!Observe, UNCHANGED <<walk, shown>>,
         \A c \in Children :
            \/ grants'[c] \subseteq grants[c]
            \/ cell[c].live /\ Reads!HasAudience(cell[c]) /\ cell'[c] = cell[c]
  PROVE  ReadsInv'
<1>1. CASE walk.by = Reads!None
  <2>1. AtRest
    <3>1. ~ReaderInv
      BY <1>1 DEF ReaderInv, Reads!Viewers, Reads!None
    <3> QED BY <3>1 DEF ReadsInv
  <2>2. UNCHANGED <<steady, sighted>>
    BY <1>1 DEF Reads!Observe
  <2> QED BY <2>1, <2>2 DEF ReadsInv, AtRest
<1>2. CASE walk.by # Reads!None
  <2>1. ReaderInv /\ BundleInv /\ PagesInv
    BY <1>2, NobodyIsAtRest DEF ReadsInv
  <2>2. /\ sighted' = sighted \cup Reads!SeenBy(walk.by)'
        /\ steady' = steady \cap Reads!LinksTo(Reads!SeenBy(walk.by))'
    BY <1>2 DEF Reads!Observe
  <2>3. ReaderInv'
    BY <2>1, <2>2 DEF ReaderInv
  <2>4. steady' \subseteq steady /\ sighted \subseteq sighted'
    BY <2>2
  <2>5. ASSUME walk.stage = "grants", NEW c \in DOMAIN walk.rows,
               Reads!CanView(walk.by, c, walk.rows[c], grants'[c])
        PROVE  c \in sighted'
    <3>1. c \in Children
      BY <2>1, <2>5 DEF BundleInv
    <3>2. CASE grants'[c] \subseteq grants[c]
      <4>1. Reads!GrantAdmits(walk.by, grants'[c]) => Reads!GrantAdmits(walk.by, grants[c])
        BY <3>2 DEF Reads!GrantAdmits
      <4>2. Reads!CanView(walk.by, c, walk.rows[c], grants[c])
        BY <4>1, <2>5 DEF Reads!CanView
      <4> QED BY <4>2, <2>1, <2>4, <2>5 DEF BundleInv
    <3>3. CASE cell[c].live /\ Reads!HasAudience(cell[c]) /\ cell'[c] = cell[c]
      <4>1. CASE Reads!CanView(walk.by, c, walk.rows[c], grants[c])
        BY <4>1, <2>1, <2>4, <2>5 DEF BundleInv
      <4>2. CASE Reads!CanView(walk.by, c, cell'[c], grants'[c])
        <5>1. c \in Reads!SeenBy(walk.by)'
          BY <3>1, <3>3, <4>2 DEF Reads!SeenBy
        <5> QED BY <5>1, <2>2
      <4>3. Reads!CanView(walk.by, c, walk.rows[c], grants[c])
               \/ Reads!CanView(walk.by, c, cell'[c], grants'[c])
        BY <2>5, <3>3 DEF Reads!CanView
      <4> QED BY <4>1, <4>2, <4>3
    <3> QED BY <3>1, <3>2, <3>3
  <2>6. BundleInv'
    BY <2>1, <2>4, <2>5 DEF BundleInv, RowAdmits
  <2>7. PagesInv'
    BY <2>1, <2>4 DEF PagesInv
  <2> QED BY <2>3, <2>6, <2>7 DEF ReadsInv
<1> QED BY <1>1, <1>2

\* What the others do, one statement at a time.
LEMMA OthersChange ==
  ASSUME ReadsInv,
         \/ \E c \in Reads!Cells : Reads!SetVisibility(c) \/ Reads!DeleteCell(c)
         \/ \E c \in Children, moderation \in {"approved", "rejected"} :
               Reads!Moderate(c, moderation)
         \/ \E c \in Reads!Cells, g \in Reads!Grantees :
               Reads!Share(c, g) \/ Reads!Unshare(c, g)
         \/ \E k \in Reads!LinkKeys :
               \/ \E c \in Children : Reads!InsertItem(k, c) \/ Reads!SetField(k, c)
               \/ \E to \in Reads!LinkKeys : Reads!MoveItem(k, to)
               \/ Reads!Unlink(k)
  PROVE  ReadsInv'
<1>1. Reads!Observe /\ UNCHANGED <<walk, shown>>
  BY DEF Reads!SetVisibility, Reads!DeleteCell, Reads!Moderate, Reads!Share, Reads!Unshare,
         Reads!InsertItem, Reads!SetField, Reads!MoveItem, Reads!Unlink, Reads!Change
<1>2. ReadsTypes
  BY DEF ReadsInv
<1>3. Reads!Parent \in Reads!Cells /\ \A c \in Children : c \in Reads!Cells
  BY DEF Reads!Cells
<1>4. ASSUME UNCHANGED <<grants, links>>
      PROVE  ReadsTypes'
  BY <1>2, <1>4 DEF ReadsTypes
<1>5. ASSUME NEW c \in Reads!Cells, NEW g,
             \/ Reads!Share(c, g)
             \/ Reads!Unshare(c, g)
      PROVE  /\ ReadsTypes'
             /\ \A d \in Children :
                   \/ grants'[d] \subseteq grants[d]
                   \/ cell[d].live /\ Reads!HasAudience(cell[d]) /\ cell'[d] = cell[d]
  <2>1. PICK to : grants' = [grants EXCEPT ![c] = to]
                    /\ \/ to \subseteq grants[c]
                       \/ cell[c].live /\ Reads!HasAudience(cell[c])
    BY <1>5 DEF Reads!Share, Reads!Unshare
  <2>2. UNCHANGED <<cell, links>>
    BY <1>5 DEF Reads!Share, Reads!Unshare
  <2>3. grants' = [d \in Reads!Cells |-> IF d = c THEN to ELSE grants[d]]
    BY <2>1, <1>2 DEF ReadsTypes
  <2>4. grants' = [d \in Reads!Cells |-> grants'[d]]
    BY <2>3
  <2>5. \A d \in Children : grants'[d] = IF d = c THEN to ELSE grants[d]
    BY <2>3, <1>3
  <2>6. ReadsTypes'
    BY <2>2, <2>4, <1>2 DEF ReadsTypes
  <2> QED BY <2>1, <2>2, <2>5, <2>6
<1>6. ASSUME UNCHANGED grants,
             \E k, to \in Reads!LinkKeys, c \in Reads!Cells :
                \/ links' = [links EXCEPT ![k] = c]
                \/ links' = [links EXCEPT ![k] = Reads!Unlinked, ![to] = links[k]]
      PROVE  ReadsTypes'
  <2>1. Reads!Unlinked \in Reads!Cells
    BY <1>3 DEF Reads!Unlinked
  <2>2. links' \in [Reads!LinkKeys -> Reads!Cells]
    BY <1>2, <1>6, <2>1 DEF ReadsTypes
  <2> QED BY <1>2, <1>6, <2>2 DEF ReadsTypes
<1>7. CASE \E c \in Reads!Cells : Reads!SetVisibility(c) \/ Reads!DeleteCell(c)
  <2>1. UNCHANGED <<grants, links>>
    BY <1>7 DEF Reads!SetVisibility, Reads!DeleteCell
  <2> QED BY <1>1, <1>4, <2>1, OthersStep
<1>8. CASE \E c \in Children, moderation \in {"approved", "rejected"} :
              Reads!Moderate(c, moderation)
  <2>1. UNCHANGED <<grants, links>>
    BY <1>8 DEF Reads!Moderate
  <2> QED BY <1>1, <1>4, <2>1, OthersStep
<1>9. CASE \E c \in Reads!Cells, g \in Reads!Grantees :
              Reads!Share(c, g) \/ Reads!Unshare(c, g)
  BY <1>1, <1>5, <1>9, OthersStep
<1>10. CASE \E k \in Reads!LinkKeys :
               \/ \E c \in Children : Reads!InsertItem(k, c) \/ Reads!SetField(k, c)
               \/ \E to \in Reads!LinkKeys : Reads!MoveItem(k, to)
               \/ Reads!Unlink(k)
  <2>1. UNCHANGED grants
    BY <1>10 DEF Reads!InsertItem, Reads!SetField, Reads!MoveItem, Reads!Unlink
  <2>2. PICK k \in Reads!LinkKeys :
           \/ \E c \in Children : Reads!InsertItem(k, c) \/ Reads!SetField(k, c)
           \/ \E to \in Reads!LinkKeys : Reads!MoveItem(k, to)
           \/ Reads!Unlink(k)
    BY <1>10
  <2>3. Reads!Unlinked \in Reads!Cells
    BY <1>3 DEF Reads!Unlinked
  <2>4. \E to \in Reads!LinkKeys, c \in Reads!Cells :
           \/ links' = [links EXCEPT ![k] = c]
           \/ links' = [links EXCEPT ![k] = Reads!Unlinked, ![to] = links[k]]
    <3>1. CASE \E c \in Children : Reads!InsertItem(k, c) \/ Reads!SetField(k, c)
      BY <3>1, <1>3 DEF Reads!InsertItem, Reads!SetField
    <3>2. CASE \E to \in Reads!LinkKeys : Reads!MoveItem(k, to)
      BY <3>2, <1>3 DEF Reads!MoveItem
    <3>3. CASE Reads!Unlink(k)
      BY <3>3, <2>3 DEF Reads!Unlink
    <3> QED BY <2>2, <3>1, <3>2, <3>3
  <2>5. ReadsTypes'
    BY <1>6, <2>1, <2>4
  <2> QED BY <1>1, <2>1, <2>5, OthersStep
<1> QED BY <1>7, <1>8, <1>9, <1>10

\* A statement of the walk changes nothing that is kept.
LEMMA StillTypes ==
  ASSUME ReadsInv, Reads!Still
  PROVE  /\ ReadsTypes'
         /\ UNCHANGED <<cell, grants, links>>
         /\ \A v : Reads!SeenBy(v)' = Reads!SeenBy(v)
         /\ \A cs : Reads!LinksTo(cs)' = Reads!LinksTo(cs)
<1>1. UNCHANGED <<cell, grants, links>>
  BY DEF Reads!Still
<1> QED BY <1>1 DEF ReadsInv, ReadsTypes, Reads!SeenBy, Reads!CanView, Reads!LinksTo,
                    Reads!LinkAt

\* A link to a cell of the reader's sight.
LEMMA LinkInSight ==
  ASSUME NEW v, NEW l \in Reads!LinksTo(Reads!SeenBy(v))
  PROVE  \E k \in Reads!LinkKeys :
            /\ l = Reads!LinkAt(k) /\ l.key = k /\ l.child = links[k]
            /\ links[k] \in Children /\ links[k] # Reads!Unlinked
            /\ cell[links[k]].live
            /\ Reads!CanView(v, links[k], cell[links[k]], grants[links[k]])
<1>1. PICK k \in Reads!LinkKeys : links[k] \in Reads!SeenBy(v) /\ l = Reads!LinkAt(k)
  BY DEF Reads!LinksTo
<1>2. l.key = k /\ l.child = links[k]
  BY <1>1 DEF Reads!LinkAt
<1>3. /\ links[k] \in Children /\ cell[links[k]].live
      /\ Reads!CanView(v, links[k], cell[links[k]], grants[links[k]])
  BY <1>1 DEF Reads!SeenBy
<1>4. links[k] # Reads!Unlinked
  BY <1>3, ReadsAssumption DEF Reads!Unlinked
<1> QED BY <1>1, <1>2, <1>3, <1>4

LEMMA StartGetKeeps ==
  ASSUME ReadsInv, NEW v \in Reads!Viewers, Reads!StartGet(v)
  PROVE  ReadsInv'
<1> DEFINE linked == {k \in Reads!LinkKeys : links[k] # Reads!Unlinked /\ cell[links[k]].live}
           keys == Reads!FirstOf(linked, BundleLimit + 1)
           bundle == {Reads!LinkAt(k) : k \in Reads!FirstOf(keys, BundleLimit)}
<1>1. /\ walk' = [stage |-> "rows", by |-> v, truncated |-> Reads!Cardinality(keys) > BundleLimit,
                  links |-> bundle]
      /\ shown' = {} /\ sighted' = Reads!SeenBy(v) /\ steady' = Reads!LinksTo(Reads!SeenBy(v))
      /\ Reads!Still
  BY DEF Reads!StartGet
<1>2. /\ ReadsTypes'
      /\ UNCHANGED <<cell, grants, links>>
      /\ Reads!SeenBy(v)' = Reads!SeenBy(v)
      /\ Reads!LinksTo(Reads!SeenBy(v))' = Reads!LinksTo(Reads!SeenBy(v))
  BY <1>1, StillTypes
<1>3. /\ walk'.stage = "rows" /\ walk'.by = v
      /\ walk'.truncated = (Reads!Cardinality(keys) > BundleLimit)
      /\ walk'.links = bundle
  BY <1>1
<1>4. ReaderInv'
  BY <1>1, <1>2, <1>3 DEF ReaderInv
<1>5. linked \in SUBSET Reads!LinkKeys
  OBVIOUS
<1>6. keys \subseteq linked /\ Reads!FirstOf(keys, BundleLimit) \subseteq keys
  BY DEF Reads!FirstOf
<1>7. ASSUME NEW l \in bundle
      PROVE  l.child \in Children
  <2>1. PICK k \in linked : l = Reads!LinkAt(k)
    BY <1>6
  <2>2. links[k] \in Reads!Cells /\ links[k] # Reads!Unlinked
    BY <2>1 DEF ReadsInv, ReadsTypes
  <2>3. l.child = links[k]
    BY <2>1 DEF Reads!LinkAt
  <2> QED BY <2>2, <2>3 DEF Reads!Cells, Reads!Unlinked
<1>8. ASSUME ~walk'.truncated
      PROVE  steady' \subseteq bundle
  <2>1. BundleLimit \in Nat
    BY ReadsAssumption
  <2>2. keys \in SUBSET Reads!LinkKeys
    BY <1>5, <1>6
  <2> HIDE DEF keys, linked
  <2>3. Cardinality(keys) \in Nat
    BY <2>2, KeysFinite
  <2>4. Cardinality(keys) <= BundleLimit
    <3>1. ~(Reads!Cardinality(keys) > BundleLimit)
      BY <1>3, <1>8
    <3>2. Reads!Cardinality(keys) = Cardinality(keys)
      BY ReadsCardinality
    <3> QED BY <2>1, <2>3, <3>1, <3>2
  <2>5. Cardinality(keys) < BundleLimit + 1 /\ BundleLimit + 1 \in Nat
    BY <2>1, <2>3, <2>4
  <2>6. keys = linked
    <3>1. Cardinality(Reads!FirstOf(linked, BundleLimit + 1)) < BundleLimit + 1
      BY <2>5 DEF keys
    <3> QED BY <1>5, <2>5, <3>1, ShortPageIsAll DEF keys
  <2>7. Reads!FirstOf(keys, BundleLimit) = linked
    BY <2>1, <2>2, <2>4, <2>6, WithinTheLimit
  <2>8. ASSUME NEW l \in Reads!LinksTo(Reads!SeenBy(v))
        PROVE  l \in bundle
    <3>1. PICK k \in Reads!LinkKeys :
             /\ l = Reads!LinkAt(k) /\ links[k] # Reads!Unlinked /\ cell[links[k]].live
      BY <2>8, LinkInSight
    <3>2. k \in linked
      BY <3>1 DEF linked
    <3> QED BY <3>1, <3>2, <2>7
  <2> QED BY <2>8, <1>1
<1>9. BundleInv'
  BY <1>3, <1>7, <1>8 DEF BundleInv
<1>10. PagesInv'
  BY <1>3 DEF PagesInv
<1> QED BY <1>2, <1>4, <1>9, <1>10 DEF ReadsInv

\* Who walks, in a stage of the walk.
LEMMA SomeoneWalks ==
  ASSUME ReadsInv, walk.stage # "idle"
  PROVE  ReaderInv /\ BundleInv /\ PagesInv
BY NobodyIsAtRest DEF ReadsInv

LEMMA ReadTargetsKeeps ==
  ASSUME ReadsInv, Reads!ReadTargets
  PROVE  ReadsInv'
<1> DEFINE targets == {c \in {l.child : l \in walk.links} : cell[c].live}
<1>1. /\ walk.stage = "rows"
      /\ walk' = [stage |-> "grants", by |-> walk.by, truncated |-> walk.truncated,
                  links |-> walk.links, rows |-> [c \in targets |-> cell[c]]]
      /\ UNCHANGED <<shown, steady, sighted>> /\ Reads!Still
  BY DEF Reads!ReadTargets
<1>2. ReaderInv /\ BundleInv
  BY <1>1, SomeoneWalks
<1> PICK v : v = walk.by
  OBVIOUS
<1>3. /\ ReadsTypes'
      /\ UNCHANGED <<cell, grants, links>>
      /\ Reads!SeenBy(v)' = Reads!SeenBy(v)
      /\ Reads!LinksTo(Reads!SeenBy(v))' = Reads!LinksTo(Reads!SeenBy(v))
  BY <1>1, StillTypes
<1>4. /\ walk'.stage = "grants" /\ walk'.by = walk.by /\ walk'.truncated = walk.truncated
      /\ walk'.links = walk.links /\ walk'.rows = [c \in targets |-> cell[c]]
  BY <1>1
<1>5. DOMAIN walk'.rows = targets /\ \A c \in targets : walk'.rows[c] = cell[c]
  BY <1>4
<1>6. ReaderInv'
  BY <1>1, <1>2, <1>3, <1>4 DEF ReaderInv
<1>7. targets \subseteq Children
  BY <1>1, <1>2 DEF BundleInv
<1>8. ASSUME NEW c \in targets, Reads!CanView(walk.by, c, cell[c], grants[c])
      PROVE  c \in sighted
  BY <1>2, <1>7, <1>8 DEF ReaderInv, Reads!SeenBy
<1>9. ASSUME NEW l \in steady, ~walk.truncated
      PROVE  RowAdmits(l)'
  <2>1. l \in walk.links
    BY <1>1, <1>2, <1>9 DEF BundleInv
  <2>2. l \in Reads!LinksTo(Reads!SeenBy(walk.by))
    BY <1>2 DEF ReaderInv
  <2>3. cell[l.child].live /\ Reads!CanView(walk.by, l.child, cell[l.child], grants[l.child])
    BY <2>2, LinkInSight
  <2>4. l.child \in targets
    BY <2>1, <2>3
  <2>5. walk'.rows[l.child] = cell[l.child]
    BY <2>4, <1>5
  <2> QED BY <1>4, <1>5, <2>3, <2>4, <2>5 DEF RowAdmits, Reads!CanView
<1> HIDE DEF targets
<1>10. BundleInv'
  <2>1. /\ \A l \in walk.links : l.child \in Children
        /\ ~walk.truncated => steady \subseteq walk.links
    BY <1>1, <1>2 DEF BundleInv
  <2>2. DOMAIN walk'.rows \subseteq Children
    BY <1>5, <1>7
  <2>3. \A c \in DOMAIN walk'.rows :
           Reads!CanView(walk.by, c, walk'.rows[c], grants[c]) => c \in sighted
    BY <1>5, <1>8
  <2> QED BY <2>1, <2>2, <2>3, <1>1, <1>3, <1>4, <1>9 DEF BundleInv
<1>11. PagesInv'
  BY <1>4 DEF PagesInv
<1> QED BY <1>3, <1>6, <1>10, <1>11 DEF ReadsInv

LEMMA ReadTargetGrantsKeeps ==
  ASSUME ReadsInv, Reads!ReadTargetGrants
  PROVE  ReadsInv'
<1> DEFINE visible == {c \in DOMAIN walk.rows :
                         Reads!CanView(walk.by, c, walk.rows[c], grants[c])}
<1> PICK v : v = walk.by
  OBVIOUS
<1>1. /\ walk.stage = "grants"
      /\ shown' = {l \in walk.links : l.child \in visible}
      /\ walk' = [stage |-> IF walk.truncated THEN "truncated" ELSE "bundled", by |-> walk.by]
      /\ steady' = {l \in steady : ~Reads!PublishedMeanwhile(l.child)}
      /\ UNCHANGED sighted /\ Reads!Still
  BY DEF Reads!ReadTargetGrants
<1>2. ReaderInv /\ BundleInv
  BY <1>1, SomeoneWalks
<1>3. /\ ReadsTypes'
      /\ UNCHANGED <<cell, grants, links>>
      /\ Reads!SeenBy(v)' = Reads!SeenBy(v)
      /\ Reads!LinksTo(Reads!SeenBy(v))' = Reads!LinksTo(Reads!SeenBy(v))
  BY <1>1, StillTypes
<1>4. /\ walk'.by = walk.by
      /\ walk'.stage = IF walk.truncated THEN "truncated" ELSE "bundled"
  BY <1>1
<1>5. \A c \in visible : c \in sighted
  BY <1>1, <1>2 DEF BundleInv
<1>6. ReaderInv'
  <2>1. steady' \subseteq steady
    BY <1>1
  <2>2. \A l \in shown' : l.child \in sighted
    BY <1>1, <1>5
  <2> HIDE DEF visible
  <2> QED BY <1>1, <1>2, <1>3, <1>4, <2>1, <2>2 DEF ReaderInv
<1>7. ASSUME ~walk.truncated, NEW l \in steady, ~Reads!PublishedMeanwhile(l.child)
      PROVE  l \in shown'
  <2> PICK c : c = l.child
    OBVIOUS
  <2>1. l \in walk.links /\ RowAdmits(l)
    BY <1>1, <1>2, <1>7 DEF BundleInv
  <2>2. /\ c \in DOMAIN walk.rows
        /\ \/ Reads!IsAdmin(walk.by)
           \/ Reads!HasActor(walk.by) /\ Reads!OwnerOf(c) = walk.by
           \/ Reads!HasAudience(walk.rows[c])
    BY <2>1 DEF RowAdmits
  <2>3. walk.rows[c].visibility = "public" \/ cell[c].visibility # "public"
    BY <1>7, <2>2 DEF Reads!PublishedMeanwhile
  <2>4. Reads!CanView(walk.by, c, cell[c], grants[c])
    <3>1. l \in Reads!LinksTo(Reads!SeenBy(walk.by))
      BY <1>2, <1>7 DEF ReaderInv
    <3> QED BY <3>1, LinkInSight
  <2>5. Reads!CanView(walk.by, c, walk.rows[c], grants[c])
    BY <2>2, <2>3, <2>4 DEF Reads!CanView
  <2>6. c \in visible
    BY <2>2, <2>5
  <2> QED BY <1>1, <2>1, <2>6
<1>8. BundleInv'
  BY <1>4 DEF BundleInv
<1>9. PagesInv'
  <2>1. ~walk.truncated => steady' \subseteq shown'
    BY <1>1, <1>7
  <2> HIDE DEF visible
  <2> QED BY <1>4, <2>1 DEF PagesInv
<1> QED BY <1>3, <1>6, <1>8, <1>9 DEF ReadsInv

LEMMA PaginateKeeps ==
  ASSUME ReadsInv, Reads!Paginate
  PROVE  ReadsInv'
<1> PICK v : v = walk.by
  OBVIOUS
<1>1. /\ walk.stage = "truncated"
      /\ walk' = [stage |-> "paging", by |-> walk.by, after |-> Reads!Nowhere]
      /\ UNCHANGED <<shown, steady, sighted>> /\ Reads!Still
  BY DEF Reads!Paginate
<1>2. ReaderInv
  BY <1>1, SomeoneWalks
<1>3. /\ ReadsTypes'
      /\ UNCHANGED <<cell, grants, links>>
      /\ Reads!SeenBy(v)' = Reads!SeenBy(v)
      /\ Reads!LinksTo(Reads!SeenBy(v))' = Reads!LinksTo(Reads!SeenBy(v))
  BY <1>1, StillTypes
<1>4. walk'.stage = "paging" /\ walk'.by = walk.by /\ walk'.after = 0
  BY <1>1 DEF Reads!Nowhere
<1>5. ReaderInv'
  BY <1>1, <1>2, <1>3, <1>4 DEF ReaderInv
<1>6. ASSUME NEW l \in steady
      PROVE  ~(l.key <= 0)
  <2>1. l \in Reads!LinksTo(Reads!SeenBy(walk.by))
    BY <1>2 DEF ReaderInv
  <2>2. l.key \in 1 .. MaxKey
    BY <2>1, LinkInSight DEF Reads!LinkKeys
  <2> QED BY <2>2, ReadsAssumption
<1>7. BundleInv' /\ PagesInv'
  BY <1>1, <1>4, <1>6 DEF BundleInv, PagesInv
<1> QED BY <1>3, <1>5, <1>7 DEF ReadsInv

LEMMA ReadPageKeeps ==
  ASSUME ReadsInv, Reads!ReadPage
  PROVE  ReadsInv'
<1>1. CASE walk' = Reads!Resting /\ shown' = {} /\ steady' = {} /\ sighted' = {}
  <2>1. Reads!Still
    BY DEF Reads!ReadPage
  <2> QED BY <1>1, <2>1, StillTypes DEF ReadsInv, AtRest, Reads!Resting
<1> DEFINE page == Reads!ListPage(Reads!Viewer(walk.by), walk.after)
           listed == {k \in Reads!LinkKeys :
                        k > walk.after /\ Reads!Visible(Reads!Viewer(walk.by), k)}
<1>2. CASE /\ shown' = shown \cup {Reads!LinkAt(k) : k \in page}
           /\ walk' = IF Reads!Cardinality(page) < PageLimit
                      THEN [stage |-> "walked", by |-> walk.by]
                      ELSE [stage |-> "paging", by |-> walk.by, after |-> Reads!LastOf(page)]
           /\ UNCHANGED <<steady, sighted>>
  <2> PICK v : v = walk.by
    OBVIOUS
  <2>1. walk.stage = "paging" /\ Reads!Still
    BY DEF Reads!ReadPage
  <2>2. ReaderInv /\ PagesInv
    BY <2>1, SomeoneWalks
  <2>3. /\ ReadsTypes'
        /\ UNCHANGED <<cell, grants, links>>
        /\ Reads!SeenBy(v)' = Reads!SeenBy(v)
        /\ Reads!LinksTo(Reads!SeenBy(v))' = Reads!LinksTo(Reads!SeenBy(v))
    BY <2>1, StillTypes
  <2>4. walk'.by = walk.by /\ walk'.stage \in {"walked", "paging"}
    BY <1>2
  <2>5. /\ page = Reads!FirstOf(listed, PageLimit) /\ page \subseteq listed
        /\ listed \in SUBSET Reads!LinkKeys
    BY DEF Reads!ListPage, Reads!FirstOf
  <2>6. ASSUME NEW k \in Reads!LinkKeys
        PROVE  Reads!Visible(Reads!Viewer(walk.by), k) <=>
                  /\ links[k] # Reads!Unlinked /\ cell[links[k]].live
                  /\ Reads!CanView(walk.by, links[k], cell[links[k]], grants[links[k]])
    BY <2>2, ViewsAlike DEF Reads!Visible, ReaderInv
  <2>7. ASSUME NEW k \in page
        PROVE  Reads!LinkAt(k).child \in sighted
    <3>1. /\ k \in Reads!LinkKeys
          /\ Reads!Visible(Reads!Viewer(walk.by), k)
      BY <2>5
    <3>2. links[k] \in Children
      BY <2>6, <3>1 DEF ReadsInv, ReadsTypes, Reads!Cells, Reads!Unlinked
    <3>3. links[k] \in Reads!SeenBy(walk.by)
      BY <2>6, <3>1, <3>2 DEF Reads!SeenBy
    <3> QED BY <3>3, <2>2 DEF ReaderInv, Reads!LinkAt
  <2>8. ReaderInv'
    <3>1. \A l \in shown' : l.child \in sighted
      BY <1>2, <2>2, <2>7 DEF ReaderInv
    <3> HIDE DEF page, listed
    <3> QED BY <1>2, <2>2, <2>3, <2>4, <3>1 DEF ReaderInv
  <2>9. ASSUME NEW l \in steady
        PROVE  /\ l.key \in Nat
               /\ l.key > walk.after => l.key \in listed /\ l = Reads!LinkAt(l.key)
               /\ ~(l.key > walk.after) => l \in shown
    <3>1. l \in Reads!LinksTo(Reads!SeenBy(walk.by))
      BY <2>2 DEF ReaderInv
    <3>2. PICK k \in Reads!LinkKeys :
             /\ l = Reads!LinkAt(k) /\ l.key = k /\ l.child = links[k]
             /\ links[k] # Reads!Unlinked
             /\ cell[links[k]].live
             /\ Reads!CanView(walk.by, links[k], cell[links[k]], grants[links[k]])
      BY <3>1, LinkInSight
    <3>3. l.key \in Nat
      BY <3>2, ReadsAssumption DEF Reads!LinkKeys
    <3>4. Reads!Visible(Reads!Viewer(walk.by), k)
      BY <2>6, <3>2
    <3>5. walk.after \in Nat /\ (l.key <= walk.after => l \in shown)
      BY <2>1, <2>2 DEF PagesInv
    <3>6. l.key > walk.after => l.key \in listed
      BY <3>2, <3>4
    <3>7. ~(l.key > walk.after) => l \in shown
      BY <3>3, <3>5
    <3> QED BY <3>2, <3>3, <3>6, <3>7
  <2>10. ASSUME NEW l \in steady, l.key \in page \/ ~(l.key > walk.after)
         PROVE  l \in shown'
    <3>1. page \subseteq listed
      BY <2>5
    <3>2. CASE ~(l.key > walk.after)
      BY <1>2, <2>9, <3>2
    <3>3. CASE l.key > walk.after /\ l.key \in page
      <4>1. l = Reads!LinkAt(l.key)
        BY <2>9, <3>3
      <4> QED BY <1>2, <3>3, <4>1
    <3> QED BY <2>10, <3>2, <3>3
  <2> HIDE DEF page, listed
  <2>11. Cardinality(page) \in Nat /\ IsFiniteSet(page) /\ PageLimit \in Nat \ {0}
    <3>1. page \in SUBSET Reads!LinkKeys
      BY <2>5
    <3> QED BY <3>1, KeysFinite, ReadsAssumption
  <2>12. Reads!Cardinality(page) = Cardinality(page)
    BY ReadsCardinality
  <2>13. CASE Cardinality(page) < PageLimit
    <3>1. walk'.stage = "walked"
      BY <1>2, <2>12, <2>13
    <3>2. page = listed
      BY <2>5, <2>11, <2>13, ShortPageIsAll
    <3>3. steady' \subseteq shown'
      BY <1>2, <2>9, <2>10, <3>2
    <3> QED BY <2>3, <2>8, <3>1, <3>3 DEF ReadsInv, BundleInv, PagesInv
  <2>14. CASE ~(Cardinality(page) < PageLimit)
    <3>1. walk'.stage = "paging" /\ walk'.after = Reads!LastOf(page)
      BY <1>2, <2>12, <2>14
    <3>2. page # {}
      BY <2>11, <2>14, FS_EmptySet
    <3>3. /\ Reads!LastOf(page) \in page
          /\ \A k \in listed : k <= Reads!LastOf(page) => k \in page
      BY <2>5, <2>11, <3>2, PageEndsAtItsLast
    <3>4. Reads!LastOf(page) \in Nat
      <4>1. Reads!LastOf(page) \in Reads!LinkKeys
        BY <2>5, <3>3
      <4>2. \A k \in Reads!LinkKeys : k \in Nat
        BY ReadsAssumption DEF Reads!LinkKeys
      <4> QED BY <4>1, <4>2
    <3>5. \A l \in steady' : l.key <= walk'.after => l \in shown'
      BY <1>2, <2>9, <2>10, <3>1, <3>3
    <3> QED BY <2>3, <2>8, <3>1, <3>4, <3>5 DEF ReadsInv, BundleInv, PagesInv
  <2> QED BY <2>13, <2>14
<1> QED BY <1>1, <1>2 DEF Reads!ReadPage

LEMMA LeaveKeeps ==
  ASSUME ReadsInv, Reads!Leave
  PROVE  ReadsInv'
<1>1. /\ walk' = Reads!Resting /\ shown' = {} /\ steady' = {} /\ sighted' = {}
      /\ Reads!Still
  BY DEF Reads!Leave
<1>2. ReadsTypes'
  BY <1>1, StillTypes
<1> QED BY <1>1, <1>2 DEF ReadsInv, AtRest, Reads!Resting

\* Whatever is read and changed.
LEMMA ReadsStep ==
  ASSUME ReadsInv, Reads!ReadsNext \/ UNCHANGED reads_vars
  PROVE  ReadsInv'
<1>1. CASE UNCHANGED reads_vars
  <2>1. UNCHANGED <<cell, grants, links, walk, shown, steady, sighted>>
    BY <1>1 DEF reads_vars
  <2>2. ReadsTypes'
    BY <2>1 DEF ReadsInv, ReadsTypes
  <2>3. AtRest => AtRest'
    BY <2>1 DEF AtRest, Reads!Resting
  <2>4. BundleInv => BundleInv'
    BY <2>1 DEF BundleInv, RowAdmits, Reads!CanView
  <2>5. PagesInv => PagesInv'
    BY <2>1 DEF PagesInv
  <2>6. ReaderInv => ReaderInv'
    BY <2>1 DEF ReaderInv, Reads!LinksTo, Reads!SeenBy, Reads!LinkAt, Reads!CanView
  <2> QED BY <2>2, <2>3, <2>4, <2>5, <2>6 DEF ReadsInv
<1>2. CASE \/ \E v \in Walkers : Reads!StartGet(v)
           \/ Reads!ReadTargets \/ Reads!ReadTargetGrants \/ Reads!Paginate
           \/ Reads!ReadPage \/ Reads!Leave
  BY <1>2, ReadsAssumption, StartGetKeeps, ReadTargetsKeeps, ReadTargetGrantsKeeps,
     PaginateKeeps, ReadPageKeeps, LeaveKeeps
<1>3. CASE \/ \E c \in Reads!Cells : Reads!SetVisibility(c) \/ Reads!DeleteCell(c)
           \/ \E c \in Children, moderation \in {"approved", "rejected"} :
                 Reads!Moderate(c, moderation)
           \/ \E c \in Reads!Cells, g \in Reads!Grantees :
                 Reads!Share(c, g) \/ Reads!Unshare(c, g)
           \/ \E k \in Reads!LinkKeys :
                 \/ \E c \in Children : Reads!InsertItem(k, c) \/ Reads!SetField(k, c)
                 \/ \E to \in Reads!LinkKeys : Reads!MoveItem(k, to)
                 \/ Reads!Unlink(k)
  BY <1>3, OthersChange
<1> QED BY <1>1, <1>2, <1>3 DEF Reads!ReadsNext

LEMMA ReadsInvSuffices ==
  ASSUME ReadsInv
  PROVE  Reads!ListsShowWhatGetShows /\ Reads!WalksShowWhatIsThere
<1>1. CASE AtRest
  BY <1>1, ListsAreLikeGets DEF AtRest, Reads!Resting, Reads!WalksShowWhatIsThere
<1>2. CASE ReaderInv /\ PagesInv
  BY <1>2, ListsAreLikeGets DEF ReaderInv, PagesInv, Reads!WalksShowWhatIsThere
<1> QED BY <1>1, <1>2 DEF ReadsInv

\* The lists of cells show what cell_get shows; a reader is shown nothing it could not see
\* at some time in its walk, and by its end has been shown each link that stayed, to a
\* cell it could see all along, but for a cell that was published, and its grant revoked,
\* between the two statements of a bundle: for any keys, cells and limits, and any number
\* of changes.
THEOREM ReadersAreShownWhatTheyMaySee == FairParts => []ReadersSeeWhatTheyMay
<1> DEFINE Inv == part = "reads" => ReadsInv
<1>1. FairInit => Inv
  BY ReadsInitInv DEF FairInit
<1>2. Inv /\ [FairNext]_fair_vars => Inv'
  <2> SUFFICES ASSUME Inv, [FairNext]_fair_vars, part' = "reads"
               PROVE  ReadsInv'
    OBVIOUS
  <2>1. part = "reads" /\ (Reads!ReadsNext \/ UNCHANGED reads_vars)
    BY DEF FairNext, fair_vars, reads_vars
  <2> QED BY <2>1, ReadsStep
<1>3. Inv => ReadersSeeWhatTheyMay
  BY ReadsInvSuffices DEF ReadersSeeWhatTheyMay
<1> QED BY <1>1, <1>2, <1>3, PTL DEF FairParts

------------------------------------------------------------------------------
(***************************************************************************)
(* The outbound writer.  The order of the frames and their accounting hold *)
(* of the queue at every moment; what a deadline covers is the front of    *)
(* the buffer, and what has been added to the buffer since is counted.     *)
(***************************************************************************)

Framed == [id : Nat, bytes : Nat]

WriterTypes ==
  /\ state \in {"open", "closing", "ended"}
  /\ pump_pending \in BOOLEAN /\ poll_timer \in BOOLEAN /\ stall_timer \in BOOLEAN
  /\ close_timer \in BOOLEAN /\ seen \in BOOLEAN
  /\ waiting \in Seq(Framed) /\ buffer \in Seq(Framed) /\ sent \in Seq(Nat)
  /\ handed_since_stall_start \in Nat /\ pushed \in Nat

\* What the socket took is older than what waits, and both are in order.
InLine(took, queue, newest) ==
  /\ \A i, j \in 1..Len(took) : i < j => took[i] < took[j]
  /\ \A i, j \in 1..Len(queue) : i < j => queue[i].id < queue[j].id
  /\ \A i \in 1..Len(took), j \in 1..Len(queue) : took[i] < queue[j].id
  /\ \A i \in 1..Len(took) : took[i] <= newest
  /\ \A j \in 1..Len(queue) : queue[j].id <= newest

Counted(queue, size, length) ==
  /\ length = Len(queue) /\ size = Writer!Bytes(queue)
  /\ Len(queue) > 1 => Writer!Bytes(queue) + Len(queue) * Overhead <= MaxBytes

\* All but the last frame went in below the high-water mark.
BelowTheMark(held) ==
  held # <<>> => Writer!Bytes(SubSeq(held, 1, Len(held) - 1)) < HighWater

\* The same when the last one may be a close.
BelowBeforeClose(held) ==
  Len(held) > 1 => Writer!Bytes(SubSeq(held, 1, Len(held) - 2)) < HighWater

\* The first m frames of what is held are those the deadline started for; the others were
\* handed over since.
CoversTheFront(held, ids, since, read) ==
  \E m \in 0..Len(held) :
     /\ \A i \in 1..m : held[i].id \in ids
     /\ Writer!Bytes(SubSeq(held, m + 1, Len(held))) <= since
     /\ read => m > 0

WriterInv ==
  /\ WriterTypes
  /\ InLine(sent, waiting, pushed)
  /\ Counted(waiting, outbound_bytes, outbound_frames)
  /\ state = "open" => BelowTheMark(buffer)
  /\ BelowBeforeClose(buffer)
  /\ stall_timer => /\ state = "open" /\ poll_timer
                    /\ CoversTheFront(buffer, covered, handed_since_stall_start, seen)
  /\ poll_timer => state = "open"
  /\ close_timer => state # "open"

\* Counting up from 0.
LEMMA UpTo ==
  ASSUME NEW N \in Nat, NEW T, 0 \in T, \A m \in 1..N : m - 1 \in T => m \in T
  PROVE  0..N \subseteq T
<1> DEFINE Out == {m \in 0..N : m \notin T}
<1> SUFFICES ASSUME Out # {}
             PROVE  FALSE
  OBVIOUS
<1>1. Out \subseteq Nat
  OBVIOUS
<1>2. PICK m \in Out : \A n \in Out : m <= n
  <2> HIDE DEF Out
  <2> QED BY <1>1, LeastNat
<1>3. m \in 1..N
  OBVIOUS
<1>4. m - 1 \in 0..N /\ ~(m <= m - 1)
  BY <1>3
<1>5. m - 1 \in T
  BY <1>2, <1>4
<1> QED BY <1>3, <1>5

\* f starts with base, and each value follows from the one before.
Follows(f, N, base, follow) ==
  f[0] = base /\ \A i \in 1..N : f[i] = follow[i][f[i - 1]]

\* What is defined step by step is defined.
LEMMA StepByStep ==
  ASSUME NEW N \in Nat, NEW V, NEW base \in V, NEW follow \in [1..N -> [V -> V]]
  PROVE  \E f \in [0..N -> V] : Follows(f, N, base, follow)
<1> DEFINE Reaches(m) == \E f \in [0..m -> V] :
              f[0] = base /\ \A i \in 1..m : f[i] = follow[i][f[i - 1]]
           T == {m \in 0..N : Reaches(m)}
<1>1. Reaches(0)
  <2> WITNESS [i \in 0..0 |-> base] \in [0..0 -> V]
  <2> QED OBVIOUS
<1>2. ASSUME NEW m \in 1..N, Reaches(m - 1)
      PROVE  Reaches(m)
  <2>1. PICK f \in [0..(m - 1) -> V] :
           f[0] = base /\ \A i \in 1..(m - 1) : f[i] = follow[i][f[i - 1]]
    BY <1>2
  <2> DEFINE g == [i \in 0..m |-> IF i = m THEN follow[m][f[m - 1]] ELSE f[i]]
  <2>2. f[m - 1] \in V
    OBVIOUS
  <2>3. g \in [0..m -> V]
    BY <2>2
  <2>4. \A i \in 0..m : g[i] = IF i = m THEN follow[m][f[m - 1]] ELSE f[i]
    OBVIOUS
  <2>5. g[0] = base
    BY <2>1, <2>4
  <2>6. ASSUME NEW i \in 1..m
        PROVE  g[i] = follow[i][g[i - 1]]
    <3>1. i - 1 \in 0..m /\ i - 1 # m /\ i \in 0..m
      OBVIOUS
    <3>2. g[i - 1] = f[i - 1]
      BY <2>4, <3>1
    <3> HIDE DEF g
    <3>3. CASE i = m
      BY <2>4, <3>1, <3>2, <3>3
    <3>4. CASE i # m
      <4>1. i \in 1..(m - 1)
        BY <3>4
      <4> QED BY <2>1, <2>4, <3>1, <3>2, <3>4, <4>1
    <3> QED BY <3>3, <3>4
  <2> HIDE DEF g
  <2> QED BY <2>3, <2>5, <2>6
<1> HIDE DEF Reaches
<1>3. 0 \in T /\ \A m \in 1..N : m - 1 \in T => m \in T
  BY <1>1, <1>2
<1> HIDE DEF T
<1>4. 0..N \subseteq T
  BY <1>3, UpTo
<1>5. N \in T
  BY <1>4
<1> QED BY <1>5 DEF T, Reaches, Follows

LEMMA BytesAreNat ==
  ASSUME NEW s \in Seq(Framed), NEW i \in 1..Len(s)
  PROVE  s[i].bytes \in Nat /\ s[i].id \in Nat
<1>1. s[i] \in Framed
  OBVIOUS
<1> QED BY <1>1 DEF Framed

LEMMA SameFrames ==
  ASSUME NEW s \in Seq(Framed), NEW t \in Seq(Framed),
         Len(s) = Len(t), \A i \in 1..Len(s) : s[i] = t[i]
  PROVE  s = t
<1>1. \A q \in Seq(Framed) : q = [i \in 1..Len(q) |-> q[i]]
  OBVIOUS
<1> QED BY <1>1

\* The sizes of the frames, added up.
LEMMA BytesByCount ==
  ASSUME NEW s \in Seq(Framed)
  PROVE  \E f \in [0..Len(s) -> Nat] :
            /\ f[0] = 0 /\ \A i \in 1..Len(s) : f[i] = f[i - 1] + s[i].bytes
            /\ Writer!Bytes(s) = f[Len(s)]
<1> DEFINE N == Len(s)
           Adds(h) == h = [n \in 0..N |-> IF n = 0 THEN 0 ELSE h[n - 1] + s[n].bytes]
           g == CHOOSE h : Adds(h)
<1>1. N \in Nat /\ \A i \in 1..N : s[i].bytes \in Nat
  BY BytesAreNat
<1>2. PICK follow \in [1..N -> [Nat -> Nat]] :
         \A i \in 1..N, n \in Nat : follow[i][n] = n + s[i].bytes
  <2> DEFINE by == [i \in 1..N |-> [n \in Nat |-> n + s[i].bytes]]
  <2>1. by \in [1..N -> [Nat -> Nat]]
    BY <1>1
  <2>2. \A i \in 1..N, n \in Nat : by[i][n] = n + s[i].bytes
    OBVIOUS
  <2> HIDE DEF by
  <2> QED BY <2>1, <2>2
<1>4. Writer!Bytes(s) = g[N]
  BY DEF Writer!Bytes
<1> HIDE DEF g
<1>5. PICK f \in [0..N -> Nat] :
         f[0] = 0 /\ \A i \in 1..N : f[i] = follow[i][f[i - 1]]
  <2> HIDE DEF N
  <2>1. 0 \in Nat
    OBVIOUS
  <2>2. \E f \in [0..N -> Nat] : Follows(f, N, 0, follow)
    BY <1>1, <2>1, StepByStep
  <2> QED BY <2>2 DEF Follows
<1>6. ASSUME NEW i \in 1..N
      PROVE  f[i] = f[i - 1] + s[i].bytes
  <2>1. f[i - 1] \in Nat
    BY <1>1
  <2> QED BY <1>2, <1>5, <2>1
<1>7. Adds(f)
  BY <1>1, <1>5, <1>6
<1>8. Adds(g)
  BY <1>7 DEF g
<1>9. g[0] = 0 /\ \A i \in 1..N : g[i] = g[i - 1] + s[i].bytes
  BY <1>1, <1>8
<1> DEFINE T == {n \in 0..N : g[n] = f[n]}
<1>10. 0 \in T /\ \A m \in 1..N : m - 1 \in T => m \in T
  BY <1>1, <1>5, <1>6, <1>9
<1>11. 0..N \subseteq T
  <2> HIDE DEF T
  <2> QED BY <1>1, <1>10, UpTo
<1>12. g[N] = f[N]
  BY <1>1, <1>11
<1> QED BY <1>4, <1>5, <1>6, <1>12

LEMMA BytesIs ==
  ASSUME NEW s \in Seq(Framed), NEW h,
         h[0] = 0, \A i \in 1..Len(s) : h[i] = h[i - 1] + s[i].bytes
  PROVE  Writer!Bytes(s) = h[Len(s)]
<1>1. PICK f \in [0..Len(s) -> Nat] :
         /\ f[0] = 0 /\ \A i \in 1..Len(s) : f[i] = f[i - 1] + s[i].bytes
         /\ Writer!Bytes(s) = f[Len(s)]
  BY BytesByCount
<1> DEFINE T == {n \in 0..Len(s) : h[n] = f[n]}
<1>2. 0 \in T /\ \A m \in 1..Len(s) : m - 1 \in T => m \in T
  BY <1>1
<1>3. 0..Len(s) \subseteq T
  <2>1. Len(s) \in Nat
    OBVIOUS
  <2> HIDE DEF T
  <2> QED BY <1>2, <2>1, UpTo
<1>4. Len(s) \in 0..Len(s)
  OBVIOUS
<1> QED BY <1>1, <1>3, <1>4

LEMMA BytesNat ==
  ASSUME NEW s \in Seq(Framed)
  PROVE  Writer!Bytes(s) \in Nat
<1>1. PICK f \in [0..Len(s) -> Nat] : Writer!Bytes(s) = f[Len(s)]
  BY BytesByCount
<1> QED BY <1>1

LEMMA BytesOfNone == Writer!Bytes(<<>>) = 0
<1>1. <<>> \in Seq(Framed) /\ Len(<<>>) = 0
  OBVIOUS
<1>2. PICK f \in [0..Len(<<>>) -> Nat] : f[0] = 0 /\ Writer!Bytes(<<>>) = f[Len(<<>>)]
  BY <1>1, BytesByCount
<1> QED BY <1>1, <1>2

LEMMA BytesOfOneMore ==
  ASSUME NEW s \in Seq(Framed), NEW e \in Framed
  PROVE  Writer!Bytes(Append(s, e)) = Writer!Bytes(s) + e.bytes
<1> DEFINE t == Append(s, e)
           N == Len(s)
<1>1. /\ N \in Nat /\ t \in Seq(Framed) /\ Len(t) = N + 1
      /\ t[N + 1] = e /\ \A i \in 1..N : t[i] = s[i]
  OBVIOUS
<1> HIDE DEF t
<1>2. PICK f \in [0..Len(t) -> Nat] :
         /\ f[0] = 0 /\ \A i \in 1..Len(t) : f[i] = f[i - 1] + t[i].bytes
         /\ Writer!Bytes(t) = f[Len(t)]
  BY <1>1, BytesByCount
<1>3. \A i \in 1..N : f[i] = f[i - 1] + s[i].bytes
  BY <1>1, <1>2
<1>4. Writer!Bytes(s) = f[N]
  BY <1>2, <1>3, BytesIs
<1> QED BY <1>1, <1>2, <1>4 DEF t

LEMMA BytesOfBoth ==
  ASSUME NEW s \in Seq(Framed), NEW t \in Seq(Framed)
  PROVE  Writer!Bytes(s \o t) = Writer!Bytes(s) + Writer!Bytes(t)
<1> DEFINE u == s \o t
           M == Len(s)
           N == Len(t)
<1>1. PICK f \in [0..M -> Nat] :
         /\ f[0] = 0 /\ \A i \in 1..M : f[i] = f[i - 1] + s[i].bytes
         /\ Writer!Bytes(s) = f[M]
  BY BytesByCount
<1>2. PICK g \in [0..N -> Nat] :
         /\ g[0] = 0 /\ \A i \in 1..N : g[i] = g[i - 1] + t[i].bytes
         /\ Writer!Bytes(t) = g[N]
  BY BytesByCount
<1> DEFINE h == [i \in 0..(M + N) |-> IF i <= M THEN f[i] ELSE f[M] + g[i - M]]
<1>3. /\ M \in Nat /\ N \in Nat /\ u \in Seq(Framed) /\ Len(u) = M + N
      /\ \A i \in 1..(M + N) : u[i] = IF i <= M THEN s[i] ELSE t[i - M]
  OBVIOUS
<1>4. \A i \in 1..M : s[i].bytes \in Nat
  BY BytesAreNat
<1>5. \A i \in 1..N : t[i].bytes \in Nat
  BY BytesAreNat
<1> HIDE DEF u, M, N
<1>6. h[0] = 0
  BY <1>1, <1>3
<1>7. ASSUME NEW i \in 1..(M + N)
      PROVE  h[i] = h[i - 1] + u[i].bytes
  <2>1. CASE i <= M
    <3>1. i \in 1..M /\ i - 1 <= M /\ i \in 0..(M + N) /\ i - 1 \in 0..(M + N)
      BY <1>3, <2>1
    <3>2. h[i] = f[i] /\ h[i - 1] = f[i - 1] /\ u[i] = s[i]
      BY <1>3, <2>1, <3>1
    <3> HIDE DEF h
    <3> QED BY <1>1, <3>1, <3>2
  <2>2. CASE i = M + 1
    <3>0. /\ 1 \in 1..N /\ ~(i <= M) /\ i - 1 = M /\ i - M = 1 /\ M <= M
          /\ i \in 0..(M + N) /\ M \in 0..(M + N)
      BY <1>3, <2>2
    <3>1. h[i] = f[M] + g[1] /\ h[i - 1] = f[M] /\ u[i] = t[1]
      BY <1>3, <3>0
    <3>2. g[1] = g[0] + t[1].bytes /\ t[1].bytes \in Nat
      <4>1. 1 - 1 = 0
        OBVIOUS
      <4> QED BY <1>2, <1>5, <3>0, <4>1
    <3>3. f[M] \in Nat
      BY <1>3
    <3> HIDE DEF h
    <3> QED BY <1>2, <3>1, <3>2, <3>3
  <2>3. CASE i > M + 1
    <3> DEFINE j == i - M
    <3>1. j \in 1..N /\ j - 1 \in 0..N /\ (i - 1) - M = j - 1 /\ ~(i <= M) /\ ~(i - 1 <= M)
      BY <1>3, <2>3
    <3>2. h[i] = f[M] + g[j] /\ h[i - 1] = f[M] + g[j - 1] /\ u[i] = t[j]
      BY <1>3, <3>1
    <3>3. g[j] = g[j - 1] + t[j].bytes /\ t[j].bytes \in Nat /\ g[j - 1] \in Nat
      BY <1>2, <1>5, <3>1
    <3>4. f[M] \in Nat
      BY <1>3
    <3> HIDE DEF j, h
    <3> QED BY <3>2, <3>3, <3>4
  <2> QED BY <1>3, <2>1, <2>2, <2>3
<1>8. h[Len(u)] = f[M] + g[N]
  <2>1. CASE N = 0
    BY <1>1, <1>2, <1>3, <2>1
  <2>2. CASE N > 0
    <3>1. ~(M + N <= M) /\ (M + N) - M = N /\ M + N \in 0..(M + N)
      BY <1>3, <2>2
    <3> QED BY <1>3, <3>1
  <2> QED BY <1>3, <2>1, <2>2
<1> HIDE DEF h
<1>9. Writer!Bytes(u) = h[Len(u)]
  BY <1>3, <1>6, <1>7, BytesIs
<1> QED BY <1>1, <1>2, <1>8, <1>9 DEF u

\* A cut leaves the sum.
LEMMA BytesOfParts ==
  ASSUME NEW s \in Seq(Framed), NEW n \in 0..Len(s)
  PROVE  /\ SubSeq(s, 1, n) \in Seq(Framed) /\ SubSeq(s, n + 1, Len(s)) \in Seq(Framed)
         /\ Writer!Bytes(s) = Writer!Bytes(SubSeq(s, 1, n))
                                + Writer!Bytes(SubSeq(s, n + 1, Len(s)))
         /\ Writer!Bytes(SubSeq(s, 1, n)) <= Writer!Bytes(s)
<1> DEFINE a == SubSeq(s, 1, n)
           b == SubSeq(s, n + 1, Len(s))
<1>0. /\ Len(s) \in Nat /\ n \in Nat /\ n <= Len(s)
      /\ a \in Seq(Framed) /\ Len(a) = n /\ \A i \in 1..n : a[i] = s[i]
      /\ b \in Seq(Framed) /\ Len(b) = Len(s) - n
      /\ \A i \in 1..(Len(s) - n) : b[i] = s[n + i]
  OBVIOUS
<1>1. s = a \o b
  <2> HIDE DEF a, b
  <2>1. a \o b \in Seq(Framed) /\ Len(a \o b) = Len(s)
    BY <1>0
  <2>2. ASSUME NEW i \in 1..Len(s)
        PROVE  (a \o b)[i] = s[i]
    <3>1. CASE i <= n
      BY <1>0, <3>1
    <3>2. CASE i > n
      <4>1. i - n \in 1..(Len(s) - n) /\ n + (i - n) = i
        BY <1>0, <3>2
      <4>2. (a \o b)[i] = b[i - n]
        BY <1>0, <3>2
      <4> QED BY <1>0, <4>1, <4>2
    <3> QED BY <1>0, <3>1, <3>2
  <2> QED BY <2>1, <2>2, SameFrames
<1>2. /\ Writer!Bytes(SubSeq(s, 1, n)) \in Nat
      /\ Writer!Bytes(SubSeq(s, n + 1, Len(s))) \in Nat
  BY <1>0, BytesNat
<1>3. Writer!Bytes(s) = Writer!Bytes(SubSeq(s, 1, n))
                          + Writer!Bytes(SubSeq(s, n + 1, Len(s)))
  BY <1>0, <1>1, BytesOfBoth
<1> QED BY <1>0, <1>2, <1>3
\* The frames of a run that the socket takes, one by one.
LEMMA TakenByCount ==
  ASSUME waiting \in Seq(Framed), NEW r
  PROVE  \E f \in [0..Len(waiting) -> Seq(Framed)] :
            /\ f[0] = <<>>
            /\ \A i \in 1..Len(waiting) :
                  f[i] = IF waiting[i].id \in r.lost THEN f[i - 1]
                         ELSE Append(f[i - 1], waiting[i])
            /\ \A k \in 0..Len(waiting) : Writer!Taken(r, k) = f[k]
<1>0. PICK w \in Seq(Framed) : w = waiting
  OBVIOUS
<1> DEFINE N == Len(w)
           Next(i, t) == IF w[i].id \in r.lost THEN t ELSE Append(t, w[i])
           Keeps(h) == h = [n \in 0..N |-> IF n = 0 THEN <<>>
                                           ELSE IF w[n].id \in r.lost THEN h[n - 1]
                                           ELSE Append(h[n - 1], w[n])]
           g == CHOOSE h : Keeps(h)
<1>1. N \in Nat /\ \A i \in 1..N : w[i] \in Framed
  OBVIOUS
<1>2. PICK follow \in [1..N -> [Seq(Framed) -> Seq(Framed)]] :
         \A i \in 1..N, t \in Seq(Framed) : follow[i][t] = Next(i, t)
  <2> DEFINE by == [i \in 1..N |-> [t \in Seq(Framed) |-> Next(i, t)]]
  <2>1. ASSUME NEW i \in 1..N, NEW t \in Seq(Framed)
        PROVE  Next(i, t) \in Seq(Framed)
    BY <1>1
  <2> HIDE DEF Next
  <2>2. by \in [1..N -> [Seq(Framed) -> Seq(Framed)]]
    BY <2>1
  <2>3. \A i \in 1..N, t \in Seq(Framed) : by[i][t] = Next(i, t)
    OBVIOUS
  <2> HIDE DEF by
  <2> QED BY <2>2, <2>3
<1>3. \A k \in 0..N : Writer!Taken(r, k) = g[k]
  BY <1>0 DEF Writer!Taken
<1> HIDE DEF g
<1>4. PICK f \in [0..N -> Seq(Framed)] : Follows(f, N, <<>>, follow)
  <2> HIDE DEF N
  <2>0. <<>> \in Seq(Framed)
    OBVIOUS
  <2>1. PICK none \in Seq(Framed) : none = <<>>
    BY <2>0
  <2>2. \E f \in [0..N -> Seq(Framed)] : Follows(f, N, none, follow)
    BY <1>1, StepByStep
  <2> QED BY <2>1, <2>2
<1>5. f[0] = <<>> /\ \A i \in 1..N : f[i] = Next(i, f[i - 1])
  <2>1. ASSUME NEW i \in 1..N
        PROVE  f[i] = Next(i, f[i - 1])
    <3>1. i - 1 \in 0..N
      BY <1>1
    <3>2. f[i - 1] \in Seq(Framed)
      BY <3>1
    <3> HIDE DEF Next
    <3> QED BY <1>2, <1>4, <3>2 DEF Follows
  <2> QED BY <1>4, <2>1 DEF Follows
<1>6. Keeps(f)
  <2> DEFINE rest(n) == IF n = 0 THEN <<>>
                        ELSE IF w[n].id \in r.lost THEN f[n - 1] ELSE Append(f[n - 1], w[n])
  <2>1. ASSUME NEW n \in 0..N
        PROVE  f[n] = rest(n)
    <3>1. n # 0 => n \in 1..N
      BY <1>1
    <3> QED BY <1>5, <3>1
  <2> HIDE DEF rest
  <2>2. f = [n \in 0..N |-> rest(n)]
    BY <2>1
  <2> QED BY <2>2 DEF rest
<1>7. Keeps(g)
  BY <1>6 DEF g
<1>8. g[0] = <<>> /\ \A i \in 1..N : g[i] = Next(i, g[i - 1])
  <2> DEFINE rest(n) == IF n = 0 THEN <<>>
                        ELSE IF w[n].id \in r.lost THEN g[n - 1] ELSE Append(g[n - 1], w[n])
  <2>1. g = [n \in 0..N |-> rest(n)]
    BY <1>7
  <2>2. \A n \in 0..N : g[n] = rest(n)
    <3> HIDE DEF rest
    <3> QED BY <2>1
  <2>3. 0 \in 0..N /\ \A i \in 1..N : i \in 0..N /\ i # 0
    BY <1>1
  <2>4. rest(0) = <<>> /\ \A i \in 1..N : rest(i) = Next(i, g[i - 1])
    BY <2>3
  <2> HIDE DEF rest, Next
  <2> QED BY <2>2, <2>3, <2>4
<1> HIDE DEF Next
<1> DEFINE T == {n \in 0..N : g[n] = f[n]}
<1>10. 0 \in T /\ \A m \in 1..N : m - 1 \in T => m \in T
  BY <1>1, <1>5, <1>8
<1>11. 0..N \subseteq T
  <2> HIDE DEF T
  <2> QED BY <1>1, <1>10, UpTo
<1>12. \A k \in 0..N : g[k] = f[k]
  BY <1>11
<1> QED BY <1>0, <1>3, <1>5, <1>12 DEF Next

\* Of the first n frames a socket takes some, in their order; the last it takes goes after
\* those it took of the frames before.
LEMMA WhatIsTaken ==
  ASSUME waiting \in Seq(Framed),
         \A i, j \in 1..Len(waiting) : i < j => waiting[i].id < waiting[j].id,
         NEW r, NEW n \in 0..Len(waiting)
  PROVE  /\ Writer!Taken(r, n) \in Seq(Framed)
         /\ \A j \in 1..Len(Writer!Taken(r, n)) : \E i \in 1..n :
               Writer!Taken(r, n)[j] = waiting[i]
         /\ \A i, j \in 1..Len(Writer!Taken(r, n)) :
               i < j => Writer!Taken(r, n)[i].id < Writer!Taken(r, n)[j].id
         /\ Writer!Bytes(Writer!Taken(r, n)) <= Writer!Bytes(SubSeq(waiting, 1, n))
         /\ Writer!Taken(r, n) # <<>> =>
               \E k \in 1..n : Writer!Taken(r, n) = Append(Writer!Taken(r, k - 1), waiting[k])
<1>1. PICK w \in Seq(Framed) : w = waiting
  OBVIOUS
<1> DEFINE N == Len(w)
<1>2. PICK f \in [0..N -> Seq(Framed)] :
         /\ f[0] = <<>>
         /\ \A i \in 1..N : f[i] = IF w[i].id \in r.lost THEN f[i - 1]
                                   ELSE Append(f[i - 1], w[i])
         /\ \A k \in 0..N : Writer!Taken(r, k) = f[k]
  BY <1>1, TakenByCount
<1>3. \A i, j \in 1..N : i < j => w[i].id < w[j].id
  BY <1>1
<1>4. N \in Nat /\ \A i \in 1..N : w[i] \in Framed
  OBVIOUS
<1> DEFINE Among(k) == \A j \in 1..Len(f[k]) : \E i \in 1..k : f[k][j] = w[i]
           Ordered(k) == \A i, j \in 1..Len(f[k]) : i < j => f[k][i].id < f[k][j].id
           Smaller(k) == Writer!Bytes(f[k]) <= Writer!Bytes(SubSeq(w, 1, k))
           Ends(k) == f[k] # <<>> => \E i \in 1..k : f[k] = Append(f[i - 1], w[i])
           T == {k \in 0..N : Among(k) /\ Ordered(k) /\ Smaller(k) /\ Ends(k)}
<1>5. 0 \in T
  <2>1. SubSeq(w, 1, 0) = <<>>
    OBVIOUS
  <2>2. 0 \in 0..N /\ f[0] = <<>> /\ Len(f[0]) = 0
    BY <1>2, <1>4
  <2>3. Smaller(0)
    <3>1. Writer!Bytes(f[0]) = 0 /\ Writer!Bytes(SubSeq(w, 1, 0)) = 0
      <4>1. f[0] = <<>>
        BY <2>2
      <4> QED BY <2>1, <4>1, BytesOfNone
    <3>2. 0 <= 0
      OBVIOUS
    <3> QED BY <3>1, <3>2
  <2>4. Among(0) /\ Ordered(0) /\ Ends(0)
    BY <2>2
  <2> QED BY <2>2, <2>3, <2>4
<1>6. ASSUME NEW m \in 1..N, m - 1 \in T
      PROVE  m \in T
  <2>1. /\ Among(m - 1) /\ Ordered(m - 1) /\ Smaller(m - 1) /\ Ends(m - 1)
        /\ m \in 0..N /\ m - 1 \in 0..N
    <3>1. m \in 0..N /\ m - 1 \in 0..N
      BY <1>4
    <3> HIDE DEF Among, Ordered, Smaller, Ends
    <3> QED BY <1>6, <3>1
  <2>2. /\ f[m - 1] \in Seq(Framed) /\ w[m] \in Framed
        /\ SubSeq(w, 1, m - 1) \in Seq(Framed)
        /\ SubSeq(w, 1, m) = Append(SubSeq(w, 1, m - 1), w[m])
    <3>1. f[m - 1] \in Seq(Framed) /\ w[m] \in Framed
      BY <1>4, <2>1
    <3>2. \A i \in 1..(m - 1) : w[i] \in Framed
      BY <1>4
    <3>3. SubSeq(w, 1, m - 1) \in Seq(Framed)
      BY <3>2
    <3>4. SubSeq(w, 1, m) = Append(SubSeq(w, 1, m - 1), w[m])
      <4>1. /\ SubSeq(w, 1, m) \in Seq(Framed) /\ Len(SubSeq(w, 1, m)) = m
            /\ \A i \in 1..m : SubSeq(w, 1, m)[i] = w[i]
        BY <1>4
      <4>2. /\ Append(SubSeq(w, 1, m - 1), w[m]) \in Seq(Framed)
            /\ Len(Append(SubSeq(w, 1, m - 1), w[m])) = m
            /\ \A i \in 1..m : Append(SubSeq(w, 1, m - 1), w[m])[i] = w[i]
        BY <1>4, <3>1, <3>3
      <4> QED BY <4>1, <4>2, SameFrames
    <3> QED BY <3>1, <3>3, <3>4
  <2>3. /\ w[m].bytes \in Nat
        /\ Writer!Bytes(SubSeq(w, 1, m)) = Writer!Bytes(SubSeq(w, 1, m - 1)) + w[m].bytes
        /\ Writer!Bytes(Append(f[m - 1], w[m])) = Writer!Bytes(f[m - 1]) + w[m].bytes
        /\ Writer!Bytes(SubSeq(w, 1, m - 1)) \in Nat /\ Writer!Bytes(f[m - 1]) \in Nat
    BY <1>4, <2>2, BytesOfOneMore, BytesNat, BytesAreNat
  <2>4. CASE f[m] = f[m - 1]
    <3>1. Smaller(m)
      BY <2>1, <2>3, <2>4
    <3>2. Among(m)
      BY <2>1, <2>4
    <3>3. Ordered(m) /\ Ends(m)
      BY <2>1, <2>4
    <3> QED BY <2>1, <3>1, <3>2, <3>3
  <2>5. CASE f[m] = Append(f[m - 1], w[m])
    <3>1. Smaller(m)
      BY <2>1, <2>3, <2>5
    <3> DEFINE M == Len(f[m - 1])
    <3>2. /\ M \in Nat /\ Len(f[m]) = M + 1 /\ f[m][M + 1] = w[m]
          /\ \A i \in 1..M : f[m][i] = f[m - 1][i]
      BY <2>2, <2>5
    <3> HIDE DEF M
    <3>3. Among(m)
      <4> SUFFICES ASSUME NEW j \in 1..(M + 1)
                   PROVE  \E i \in 1..m : f[m][j] = w[i]
        BY <3>2
      <4>1. CASE j = M + 1
        BY <3>2, <4>1
      <4>2. CASE j \in 1..M
        <5>1. \E i \in 1..(m - 1) : f[m - 1][j] = w[i]
          BY <2>1, <4>2 DEF M
        <5> QED BY <3>2, <4>2, <5>1
      <4> QED BY <3>2, <4>1, <4>2
    <3>4. Ordered(m)
      <4> SUFFICES ASSUME NEW i \in 1..(M + 1), NEW j \in 1..(M + 1), i < j
                   PROVE  f[m][i].id < f[m][j].id
        BY <3>2
      <4>1. CASE j = M + 1
        <5>0. i \in 1..M
          BY <3>2, <4>1
        <5>1. PICK k \in 1..(m - 1) : f[m - 1][i] = w[k]
          BY <2>1, <5>0 DEF M
        <5>2. w[k].id < w[m].id
          BY <1>3
        <5> QED BY <3>2, <4>1, <5>0, <5>1, <5>2
      <4>2. CASE j \in 1..M
        <5>1. i \in 1..M
          BY <3>2, <4>2
        <5>2. f[m - 1][i].id < f[m - 1][j].id
          BY <2>1, <4>2, <5>1 DEF M
        <5> QED BY <3>2, <4>2, <5>1, <5>2
      <4> QED BY <3>2, <4>1, <4>2
    <3>5. Ends(m)
      <4>1. m \in 1..m
        BY <1>4
      <4> QED BY <2>5, <4>1
    <3> QED BY <2>1, <3>1, <3>3, <3>4, <3>5
  <2> QED BY <1>2, <2>4, <2>5
<1>7. 0..N \subseteq T
  <2> HIDE DEF T
  <2> QED BY <1>4, <1>5, <1>6, UpTo
<1>8. n \in 0..N /\ Among(n) /\ Ordered(n) /\ Smaller(n) /\ Ends(n)
  BY <1>1, <1>7
<1>9. Writer!Taken(r, n) = f[n] /\ f[n] \in Seq(Framed)
  BY <1>2, <1>8
<1>10. \A k \in 1..n : Writer!Taken(r, k - 1) = f[k - 1]
  BY <1>2, <1>4, <1>8
<1> QED BY <1>1, <1>8, <1>9, <1>10

LEMMA Joined ==
  ASSUME NEW s \in Seq(Framed), NEW t \in Seq(Framed)
  PROVE  /\ s \o t \in Seq(Framed) /\ Len(s \o t) = Len(s) + Len(t)
         /\ \A i \in 1..Len(s) : (s \o t)[i] = s[i]
         /\ \A i \in (Len(s) + 1)..(Len(s) + Len(t)) : (s \o t)[i] = t[i - Len(s)]
<1>1. s \o t \in Seq(Framed) /\ Len(s \o t) = Len(s) + Len(t)
  OBVIOUS
<1>2. ASSUME NEW i \in 1..Len(s)
      PROVE  (s \o t)[i] = s[i]
  OBVIOUS
<1>3. ASSUME NEW i \in (Len(s) + 1)..(Len(s) + Len(t))
      PROVE  (s \o t)[i] = t[i - Len(s)]
  OBVIOUS
<1> QED BY <1>1, <1>2, <1>3

\* The bound holds of what is left when the socket writes, and of what a close is added to.
LEMMA FrontIsLess ==
  ASSUME NEW s \in Seq(Framed), NEW n \in 0..Len(s), NEW m \in 0..n
  PROVE  /\ SubSeq(s, 1, n) \in Seq(Framed) /\ SubSeq(s, 1, m) \in Seq(Framed)
         /\ Writer!Bytes(SubSeq(s, 1, m)) <= Writer!Bytes(SubSeq(s, 1, n))
         /\ Writer!Bytes(SubSeq(s, 1, m)) \in Nat /\ Writer!Bytes(SubSeq(s, 1, n)) \in Nat
<1> DEFINE t == SubSeq(s, 1, n)
           u == SubSeq(s, 1, m)
<1>1. /\ Len(s) \in Nat /\ n \in Nat /\ m \in Nat /\ m <= n /\ n <= Len(s)
      /\ t \in Seq(Framed) /\ Len(t) = n /\ \A i \in 1..n : t[i] = s[i]
      /\ u \in Seq(Framed) /\ Len(u) = m /\ \A i \in 1..m : u[i] = s[i]
  <2>1. \A i \in 1..Len(s) : s[i] \in Framed
    OBVIOUS
  <2> QED BY <2>1
<1>2. u = SubSeq(t, 1, m)
  <2> HIDE DEF t, u
  <2>1. \A i \in 1..n : t[i] \in Framed
    BY <1>1
  <2>2. /\ SubSeq(t, 1, m) \in Seq(Framed) /\ Len(SubSeq(t, 1, m)) = m
        /\ \A i \in 1..m : SubSeq(t, 1, m)[i] = t[i]
    BY <1>1, <2>1
  <2>3. \A i \in 1..m : i \in 1..n
    BY <1>1
  <2> QED BY <1>1, <2>2, <2>3, SameFrames
<1>3. Writer!Bytes(SubSeq(t, 1, m)) <= Writer!Bytes(t)
  <2> HIDE DEF t
  <2> QED BY <1>1, BytesOfParts
<1> QED BY <1>1, <1>2, <1>3, BytesNat

LEMMA TailIsLess ==
  ASSUME NEW s \in Seq(Framed), s # <<>>, NEW n \in 1..Len(s)
  PROVE  /\ Tail(s) \in Seq(Framed) /\ Len(Tail(s)) = Len(s) - 1
         /\ \A i \in 1..(Len(s) - 1) : Tail(s)[i] = s[i + 1]
         /\ Writer!Bytes(SubSeq(Tail(s), 1, n - 1)) <= Writer!Bytes(SubSeq(s, 1, n))
         /\ Writer!Bytes(SubSeq(Tail(s), 1, n - 1)) \in Nat
         /\ Writer!Bytes(SubSeq(s, 1, n)) \in Nat
<1> DEFINE t == SubSeq(s, 1, n)
           u == SubSeq(Tail(s), 1, n - 1)
           v == SubSeq(t, 2, n)
<1>0. /\ Len(s) \in Nat /\ n \in Nat /\ 1 <= n /\ n <= Len(s)
      /\ \A i \in 1..Len(s) : s[i] \in Framed
      /\ Tail(s) \in Seq(Framed) /\ Len(Tail(s)) = Len(s) - 1
      /\ \A i \in 1..(Len(s) - 1) : Tail(s)[i] = s[i + 1]
  OBVIOUS
<1>1. t \in Seq(Framed) /\ Len(t) = n /\ \A i \in 1..n : t[i] = s[i]
  BY <1>0
<1>2. u \in Seq(Framed) /\ Len(u) = n - 1 /\ \A i \in 1..(n - 1) : u[i] = s[i + 1]
  <2>1. \A i \in 1..(n - 1) : i \in 1..(Len(s) - 1) /\ i + 1 \in 1..Len(s)
    BY <1>0
  <2>2. \A i \in 1..(n - 1) : Tail(s)[i] \in Framed
    BY <1>0, <2>1
  <2> QED BY <1>0, <2>1, <2>2
<1>3. u = v
  <2>1. v \in Seq(Framed) /\ Len(v) = n - 1 /\ \A i \in 1..(n - 1) : v[i] = t[i + 1]
    <3> HIDE DEF t
    <3>1. \A i \in 2..n : t[i] \in Framed
      BY <1>0, <1>1
    <3> QED BY <1>0, <1>1, <3>1
  <2>2. \A i \in 1..(n - 1) : i + 1 \in 1..n
    BY <1>0
  <2> HIDE DEF t, u, v
  <2> QED BY <1>1, <1>2, <2>1, <2>2, SameFrames
<1>4. /\ SubSeq(t, 1, 1) \in Seq(Framed) /\ v \in Seq(Framed)
      /\ Writer!Bytes(t) = Writer!Bytes(SubSeq(t, 1, 1)) + Writer!Bytes(v)
  <2> HIDE DEF t
  <2>1. 1 \in 0..Len(t) /\ 1 + 1 = 2
    BY <1>0, <1>1
  <2> QED BY <1>1, <2>1, BytesOfParts
<1> HIDE DEF t, u, v
<1>5. /\ Writer!Bytes(SubSeq(t, 1, 1)) \in Nat /\ Writer!Bytes(v) \in Nat
      /\ Writer!Bytes(t) \in Nat
  BY <1>1, <1>4, BytesNat
<1>6. Writer!Bytes(u) <= Writer!Bytes(t)
  BY <1>3, <1>4, <1>5
<1> QED BY <1>0, <1>3, <1>5, <1>6 DEF t, u

LEMMA MarkIsKept ==
  ASSUME NEW s \in Seq(Framed)
  PROVE  /\ BelowTheMark(s) => BelowBeforeClose(s)
         /\ \A e \in Framed : BelowTheMark(s) => BelowBeforeClose(Append(s, e))
         /\ BelowTheMark(s) /\ s # <<>> => BelowTheMark(Tail(s))
         /\ BelowBeforeClose(s) /\ s # <<>> => BelowBeforeClose(Tail(s))
<1>0. HighWater \in Nat /\ HighWater > 0 /\ Len(s) \in Nat
  BY WriterAssumption DEF Writer!OutboundAssumption
<1>1. ASSUME BelowTheMark(s)
      PROVE  BelowBeforeClose(s)
  <2> SUFFICES ASSUME Len(s) > 1
               PROVE  Writer!Bytes(SubSeq(s, 1, Len(s) - 2)) < HighWater
    BY DEF BelowBeforeClose
  <2>1. Writer!Bytes(SubSeq(s, 1, Len(s) - 1)) < HighWater
    BY <1>1 DEF BelowTheMark
  <2>2. Len(s) - 1 \in 0..Len(s) /\ Len(s) - 2 \in 0..(Len(s) - 1)
    BY <1>0
  <2> DEFINE n == Len(s) - 1
             m == Len(s) - 2
  <2>3. n \in 0..Len(s) /\ m \in 0..n /\ Writer!Bytes(SubSeq(s, 1, n)) < HighWater
    BY <2>1, <2>2
  <2> HIDE DEF n, m
  <2>4. /\ Writer!Bytes(SubSeq(s, 1, m)) <= Writer!Bytes(SubSeq(s, 1, n))
        /\ Writer!Bytes(SubSeq(s, 1, m)) \in Nat /\ Writer!Bytes(SubSeq(s, 1, n)) \in Nat
    BY <2>3, FrontIsLess
  <2>5. Writer!Bytes(SubSeq(s, 1, m)) < HighWater
    BY <1>0, <2>3, <2>4
  <2> QED BY <2>5 DEF m
<1>2. ASSUME NEW e \in Framed, BelowTheMark(s)
      PROVE  BelowBeforeClose(Append(s, e))
  <2>1. Len(Append(s, e)) = Len(s) + 1
    OBVIOUS
  <2>2. CASE s = <<>>
    BY <2>1, <2>2 DEF BelowBeforeClose
  <2>3. CASE s # <<>>
    <3> DEFINE n == Len(s) - 1
               t == Append(s, e)
    <3>1. /\ n \in Nat /\ n + 1 = Len(s) /\ (Len(s) + 1) - 2 = n
          /\ \A i \in 1..Len(s) : s[i] \in Framed /\ t[i] = s[i]
      BY <1>0, <2>3
    <3>2. SubSeq(t, 1, n) = SubSeq(s, 1, n)
      <4> HIDE DEF t, n
      <4>1. \A i \in 1..n : i \in 1..Len(s)
        BY <1>0, <3>1
      <4>2. /\ SubSeq(s, 1, n) \in Seq(Framed) /\ Len(SubSeq(s, 1, n)) = n
            /\ \A i \in 1..n : SubSeq(s, 1, n)[i] = s[i]
        BY <1>0, <3>1, <4>1
      <4>3. /\ SubSeq(t, 1, n) \in Seq(Framed) /\ Len(SubSeq(t, 1, n)) = n
            /\ \A i \in 1..n : SubSeq(t, 1, n)[i] = t[i]
        BY <1>0, <3>1, <4>1
      <4> QED BY <3>1, <4>1, <4>2, <4>3, SameFrames
    <3>3. Writer!Bytes(SubSeq(s, 1, n)) < HighWater
      BY <1>2, <2>3 DEF BelowTheMark
    <3> HIDE DEF n
    <3> QED BY <2>1, <3>1, <3>2, <3>3 DEF BelowBeforeClose
  <2> QED BY <2>2, <2>3
<1>3. ASSUME s # <<>>, BelowTheMark(s)
      PROVE  BelowTheMark(Tail(s))
  <2>1. Len(Tail(s)) = Len(s) - 1 /\ Len(s) > 0
    BY <1>0, <1>3
  <2> SUFFICES ASSUME Tail(s) # <<>>
               PROVE  Writer!Bytes(SubSeq(Tail(s), 1, Len(Tail(s)) - 1)) < HighWater
    BY DEF BelowTheMark
  <2>2. Len(s) > 1
    BY <1>0, <1>3, <2>1
  <2> DEFINE n == Len(s) - 1
  <2>3. n \in 1..Len(s) /\ Len(Tail(s)) - 1 = n - 1
    BY <1>0, <2>1, <2>2
  <2>4. Writer!Bytes(SubSeq(s, 1, n)) < HighWater
    BY <1>3 DEF BelowTheMark
  <2> HIDE DEF n
  <2>5. /\ Writer!Bytes(SubSeq(Tail(s), 1, n - 1)) <= Writer!Bytes(SubSeq(s, 1, n))
        /\ Writer!Bytes(SubSeq(Tail(s), 1, n - 1)) \in Nat
        /\ Writer!Bytes(SubSeq(s, 1, n)) \in Nat
    BY <1>3, <2>3, TailIsLess
  <2>6. Writer!Bytes(SubSeq(Tail(s), 1, n - 1)) < HighWater
    BY <1>0, <2>4, <2>5
  <2> QED BY <2>3, <2>6
<1>4. ASSUME s # <<>>, BelowBeforeClose(s)
      PROVE  BelowBeforeClose(Tail(s))
  <2>1. Len(Tail(s)) = Len(s) - 1 /\ Len(s) > 0
    BY <1>0, <1>4
  <2> SUFFICES ASSUME Len(Tail(s)) > 1
               PROVE  Writer!Bytes(SubSeq(Tail(s), 1, Len(Tail(s)) - 2)) < HighWater
    BY DEF BelowBeforeClose
  <2> DEFINE n == Len(s) - 2
  <2>3. n \in 1..Len(s) /\ Len(Tail(s)) - 2 = n - 1 /\ Len(s) > 1
    BY <1>0, <2>1
  <2>4. Writer!Bytes(SubSeq(s, 1, n)) < HighWater
    BY <1>4, <2>3 DEF BelowBeforeClose
  <2> HIDE DEF n
  <2>5. /\ Writer!Bytes(SubSeq(Tail(s), 1, n - 1)) <= Writer!Bytes(SubSeq(s, 1, n))
        /\ Writer!Bytes(SubSeq(Tail(s), 1, n - 1)) \in Nat
        /\ Writer!Bytes(SubSeq(s, 1, n)) \in Nat
    BY <1>4, <2>3, TailIsLess
  <2>6. Writer!Bytes(SubSeq(Tail(s), 1, n - 1)) < HighWater
    BY <1>0, <2>4, <2>5
  <2> QED BY <2>3, <2>6
<1> QED BY <1>1, <1>2, <1>3, <1>4

Took(r) == Writer!Taken(r, r.n)
Left(r) == SubSeq(waiting, r.n + 1, Len(waiting))
SentAfter(r) == sent \o [i \in DOMAIN Took(r) |-> Took(r)[i].id]

LEMMA RunTakes ==
  ASSUME WriterInv, NEW r \in Writer!Runs
  PROVE  /\ r.n \in 0..Len(waiting) /\ Took(r) \in Seq(Framed) /\ Left(r) \in Seq(Framed)
         /\ \A j \in 1..Len(Took(r)) : \E i \in 1..r.n : Took(r)[j] = waiting[i]
         /\ \A i, j \in 1..Len(Took(r)) : i < j => Took(r)[i].id < Took(r)[j].id
         /\ Writer!Bytes(Took(r)) <= Writer!Bytes(Writer!HandedOver(r))
         /\ Writer!Bytes(Took(r)) \in Nat /\ Writer!Bytes(Writer!HandedOver(r)) \in Nat
         /\ Took(r) # <<>> =>
              \E k \in 1..r.n : Took(r) = Append(Writer!Taken(r, k - 1), waiting[k])
         /\ Writer!Bytes(waiting) = Writer!Bytes(Writer!HandedOver(r)) + Writer!Bytes(Left(r))
         /\ Writer!Bytes(Left(r)) \in Nat
<1> DEFINE n == r.n
<1>1. n \in 0..Len(waiting)
  BY DEF Writer!Runs
<1>2. /\ waiting \in Seq(Framed)
      /\ \A i, j \in 1..Len(waiting) : i < j => waiting[i].id < waiting[j].id
  BY DEF WriterInv, WriterTypes, InLine
<1> HIDE DEF n
<1>3. /\ Writer!Taken(r, n) \in Seq(Framed)
      /\ \A j \in 1..Len(Writer!Taken(r, n)) : \E i \in 1..n :
            Writer!Taken(r, n)[j] = waiting[i]
      /\ \A i, j \in 1..Len(Writer!Taken(r, n)) :
            i < j => Writer!Taken(r, n)[i].id < Writer!Taken(r, n)[j].id
      /\ Writer!Bytes(Writer!Taken(r, n)) <= Writer!Bytes(SubSeq(waiting, 1, n))
      /\ Writer!Taken(r, n) # <<>> =>
            \E k \in 1..n : Writer!Taken(r, n) = Append(Writer!Taken(r, k - 1), waiting[k])
  BY <1>1, <1>2, WhatIsTaken
<1>4. /\ SubSeq(waiting, 1, n) \in Seq(Framed)
      /\ SubSeq(waiting, n + 1, Len(waiting)) \in Seq(Framed)
      /\ Writer!Bytes(waiting) = Writer!Bytes(SubSeq(waiting, 1, n))
                                   + Writer!Bytes(SubSeq(waiting, n + 1, Len(waiting)))
  BY <1>1, <1>2, BytesOfParts
<1>5. /\ Writer!Bytes(Writer!Taken(r, n)) \in Nat
      /\ Writer!Bytes(SubSeq(waiting, 1, n)) \in Nat
      /\ Writer!Bytes(SubSeq(waiting, n + 1, Len(waiting))) \in Nat
  BY <1>3, <1>4, BytesNat
<1>6. Took(r) = Writer!Taken(r, n) /\ Writer!HandedOver(r) = SubSeq(waiting, 1, n)
      /\ Left(r) = SubSeq(waiting, n + 1, Len(waiting))
  BY DEF n, Took, Left, Writer!HandedOver
<1> QED BY <1>1, <1>3, <1>4, <1>5, <1>6 DEF n

LEMMA RunIsInLine ==
  ASSUME WriterInv, NEW r \in Writer!Runs
  PROVE  /\ SentAfter(r) \in Seq(Nat)
         /\ InLine(SentAfter(r), Left(r), pushed)
<1> DEFINE T == Took(r)
           ids == [i \in DOMAIN T |-> T[i].id]
           M == Len(sent)
           n == r.n
           N == Len(waiting)
<1>1. /\ n \in 0..N /\ T \in Seq(Framed)
      /\ \A j \in 1..Len(T) : \E i \in 1..n : T[j] = waiting[i]
      /\ \A i, j \in 1..Len(T) : i < j => T[i].id < T[j].id
  BY RunTakes
<1>2. /\ sent \in Seq(Nat) /\ M \in Nat /\ N \in Nat /\ n \in Nat
      /\ waiting \in Seq(Framed) /\ \A i \in 1..N : waiting[i] \in Framed
      /\ \A i \in 1..M : sent[i] \in Nat
  BY <1>1 DEF WriterInv, WriterTypes
<1>3. /\ \A i, j \in 1..M : i < j => sent[i] < sent[j]
      /\ \A i, j \in 1..N : i < j => waiting[i].id < waiting[j].id
      /\ \A i \in 1..M, j \in 1..N : sent[i] < waiting[j].id
      /\ \A i \in 1..M : sent[i] <= pushed
      /\ \A j \in 1..N : waiting[j].id <= pushed
  BY DEF WriterInv, InLine
<1>4. /\ Left(r) \in Seq(Framed) /\ Len(Left(r)) = N - n
      /\ \A i \in 1..(N - n) : Left(r)[i] = waiting[n + i]
  <2>1. \A i \in (n + 1)..N : waiting[i] \in Framed
    BY <1>2
  <2> QED BY <1>1, <1>2, <2>1 DEF Left
<1>5. SentAfter(r) = sent \o ids
  BY DEF SentAfter
<1> HIDE DEF T
<1>6. \A i \in 1..Len(T) : T[i].id \in Nat
  BY <1>1, BytesAreNat
<1>7. Len(T) \in Nat /\ DOMAIN T = 1..Len(T)
  BY <1>1
<1>8. ids \in Seq(Nat) /\ Len(ids) = Len(T) /\ \A i \in 1..Len(T) : ids[i] = T[i].id
  BY <1>6, <1>7
<1> HIDE DEF ids, M, N, n
<1>9. /\ SentAfter(r) \in Seq(Nat) /\ Len(SentAfter(r)) = M + Len(T)
      /\ \A i \in 1..M : SentAfter(r)[i] = sent[i]
      /\ \A i \in (M + 1)..(M + Len(T)) : SentAfter(r)[i] = T[i - M].id
  <2>1. /\ sent \o ids \in Seq(Nat) /\ Len(sent \o ids) = M + Len(ids)
        /\ \A i \in 1..M : (sent \o ids)[i] = sent[i]
        /\ \A i \in (M + 1)..(M + Len(ids)) : (sent \o ids)[i] = ids[i - M]
    <3>1. sent \in Seq(Nat) /\ ids \in Seq(Nat) /\ M = Len(sent)
      BY <1>2, <1>8 DEF M
    <3>2. sent \o ids \in Seq(Nat) /\ Len(sent \o ids) = M + Len(ids)
      BY <3>1
    <3>3. ASSUME NEW i \in 1..M
          PROVE  (sent \o ids)[i] = sent[i]
      BY <3>1
    <3>4. ASSUME NEW i \in (M + 1)..(M + Len(ids))
          PROVE  (sent \o ids)[i] = ids[i - M]
      BY <3>1
    <3> QED BY <3>2, <3>3, <3>4
  <2>2. \A i \in (M + 1)..(M + Len(T)) : i - M \in 1..Len(T)
    BY <1>2, <1>7
  <2> QED BY <1>5, <1>8, <2>1, <2>2
<1>10. \A i \in 1..(M + Len(T)) : i \in 1..M \/ i - M \in 1..Len(T)
  BY <1>2, <1>7
<1>11. ASSUME NEW i \in 1..(M + Len(T)), ~(i \in 1..M)
       PROVE  \E k \in 1..n : k \in 1..N /\ SentAfter(r)[i] = waiting[k].id
  <2>1. i - M \in 1..Len(T) /\ i \in (M + 1)..(M + Len(T))
    BY <1>2, <1>7, <1>11
  <2>2. PICK k \in 1..n : T[i - M] = waiting[k]
    BY <1>1, <2>1
  <2>3. k \in 1..N
    BY <1>1, <1>2
  <2> QED BY <1>9, <2>1, <2>2, <2>3
<1>12. \A i \in 1..M, k \in 1..n : k \in 1..N /\ sent[i] < waiting[k].id
  BY <1>1, <1>2, <1>3
<1>13. \A j \in 1..(N - n) : n + j \in 1..N /\ \A k \in 1..n : k < n + j
  BY <1>1, <1>2
<1>14. \A i, j \in 1..(M + Len(T)) : i < j => SentAfter(r)[i] < SentAfter(r)[j]
  <2> SUFFICES ASSUME NEW i \in 1..(M + Len(T)), NEW j \in 1..(M + Len(T)), i < j
               PROVE  SentAfter(r)[i] < SentAfter(r)[j]
    OBVIOUS
  <2>1. CASE i \in 1..M /\ j \in 1..M
    BY <1>3, <1>9, <2>1
  <2>2. CASE i \in 1..M /\ ~(j \in 1..M)
    <3>1. PICK k \in 1..n : SentAfter(r)[j] = waiting[k].id
      BY <1>11, <2>2
    <3> QED BY <1>9, <1>12, <2>2, <3>1
  <2>3. CASE ~(i \in 1..M)
    <3>1. /\ i - M \in 1..Len(T) /\ j - M \in 1..Len(T) /\ i - M < j - M
          /\ i \in (M + 1)..(M + Len(T)) /\ j \in (M + 1)..(M + Len(T))
      BY <1>2, <1>7, <2>3
    <3> QED BY <1>1, <1>9, <3>1
  <2> QED BY <2>1, <2>2, <2>3
<1>15. \A i \in 1..(M + Len(T)), j \in 1..(N - n) : SentAfter(r)[i] < Left(r)[j].id
  <2> SUFFICES ASSUME NEW i \in 1..(M + Len(T)), NEW j \in 1..(N - n)
               PROVE  SentAfter(r)[i] < Left(r)[j].id
    OBVIOUS
  <2>1. CASE i \in 1..M
    BY <1>3, <1>4, <1>9, <1>13, <2>1
  <2>2. CASE ~(i \in 1..M)
    <3>1. PICK k \in 1..n : k \in 1..N /\ SentAfter(r)[i] = waiting[k].id
      BY <1>11, <2>2
    <3> QED BY <1>3, <1>4, <1>13, <3>1
  <2> QED BY <2>1, <2>2
<1>16. \A i \in 1..(M + Len(T)) : SentAfter(r)[i] <= pushed
  <2> SUFFICES ASSUME NEW i \in 1..(M + Len(T))
               PROVE  SentAfter(r)[i] <= pushed
    OBVIOUS
  <2>1. CASE i \in 1..M
    BY <1>3, <1>9, <2>1
  <2>2. CASE ~(i \in 1..M)
    BY <1>3, <1>11, <2>2
  <2> QED BY <2>1, <2>2
<1>17. \A i, j \in 1..(N - n) : i < j => Left(r)[i].id < Left(r)[j].id
  <2> SUFFICES ASSUME NEW i \in 1..(N - n), NEW j \in 1..(N - n), i < j
               PROVE  Left(r)[i].id < Left(r)[j].id
    OBVIOUS
  <2>1. n + i < n + j
    BY <1>2
  <2> QED BY <1>3, <1>4, <1>13, <2>1
<1>18. \A j \in 1..(N - n) : Left(r)[j].id <= pushed
  BY <1>3, <1>4, <1>13
<1> QED BY <1>4, <1>9, <1>14, <1>15, <1>16, <1>17, <1>18 DEF InLine

LEMMA RunIsCounted ==
  ASSUME WriterInv, NEW r \in Writer!Runs
  PROVE  Counted(Left(r), outbound_bytes - Writer!Bytes(Writer!HandedOver(r)),
                 outbound_frames - r.n)
<1> DEFINE n == r.n
           N == Len(waiting)
           B == Writer!Bytes(waiting)
           L == Writer!Bytes(Left(r))
<1>1. /\ n \in 0..N /\ N \in Nat
      /\ B = Writer!Bytes(Writer!HandedOver(r)) + L
      /\ Writer!Bytes(Writer!HandedOver(r)) \in Nat /\ L \in Nat
  BY RunTakes DEF WriterInv, WriterTypes
<1>2. /\ outbound_bytes = B /\ outbound_frames = N
      /\ N > 1 => B + N * Overhead <= MaxBytes
  BY DEF WriterInv, Counted
<1>3. Len(Left(r)) = N - n
  <2>1. waiting \in Seq(Framed)
    BY DEF WriterInv, WriterTypes
  <2> QED BY <1>1, <2>1 DEF Left
<1>4. Overhead \in Nat /\ MaxBytes \in Nat
  BY WriterAssumption DEF Writer!OutboundAssumption
<1> HIDE DEF n, N, B, L
<1>5. N - n > 1 => L + (N - n) * Overhead <= MaxBytes
  <2> SUFFICES ASSUME N - n > 1
               PROVE  L + (N - n) * Overhead <= MaxBytes
    OBVIOUS
  <2>1. N > 1 /\ n \in Nat /\ N - n \in Nat
    BY <1>1
  <2>2. (N - n) * Overhead + n * Overhead = N * Overhead
    <3>1. N = (N - n) + n
      BY <1>1
    <3> QED BY <1>1, <1>4, <2>1, <3>1
  <2>3. n * Overhead \in Nat /\ (N - n) * Overhead \in Nat /\ N * Overhead \in Nat
    BY <1>1, <1>4, <2>1
  <2> QED BY <1>1, <1>2, <1>4, <2>1, <2>2, <2>3
<1>6. outbound_bytes - Writer!Bytes(Writer!HandedOver(r)) = L
  BY <1>1, <1>2
<1>7. outbound_frames - r.n = N - n
  BY <1>2 DEF n
<1> QED BY <1>3, <1>5, <1>6, <1>7 DEF Counted, L

LEMMA RunIsBelowTheMark ==
  ASSUME WriterInv, state = "open", NEW r \in Writer!Runs, NEW stops,
         Writer!PossibleRun(r, stops)
  PROVE  /\ Writer!BufferAfter(r, r.n) \in Seq(Framed)
         /\ BelowTheMark(Writer!BufferAfter(r, r.n))
         /\ \/ Writer!BufferAfter(r, r.n) = buffer \o Took(r)
            \/ buffer = <<>> /\ Writer!BufferAfter(r, r.n) = <<>>
<1> DEFINE b == Writer!BufferAfter(r, r.n)
<1>1. buffer \in Seq(Framed) /\ BelowTheMark(buffer)
  BY DEF WriterInv, WriterTypes
<1>2. /\ r.n \in 0..Len(waiting) /\ Len(waiting) \in Nat /\ Took(r) \in Seq(Framed)
      /\ Took(r) # <<>> =>
            \E k \in 1..r.n : Took(r) = Append(Writer!Taken(r, k - 1), waiting[k])
  BY RunTakes DEF WriterInv, WriterTypes
<1>3. CASE r.prompt
  <2>1. buffer = <<>> /\ b = buffer
    BY <1>3 DEF Writer!PossibleRun, Writer!BufferAfter
  <2> QED BY <1>1, <2>1
<1>4. CASE ~r.prompt
  <2>1. b = buffer \o Took(r)
    BY <1>4 DEF Writer!BufferAfter, Took
  <2>2. b \in Seq(Framed)
    BY <1>1, <1>2, <2>1
  <2>3. CASE Took(r) = <<>>
    <3>1. b = buffer
      BY <1>1, <2>1, <2>3
    <3> QED BY <1>1, <2>1, <3>1
  <2>4. CASE Took(r) # <<>>
    <3>1. PICK k \in 1..r.n : Took(r) = Append(Writer!Taken(r, k - 1), waiting[k])
      BY <1>2, <2>4
    <3>2. k - 1 \in 0..(r.n - 1) /\ k - 1 \in 0..Len(waiting) /\ k \in 1..Len(waiting)
      BY <1>2
    <3>3. Writer!Bytes(Writer!BufferAfter(r, k - 1)) < HighWater
      BY <3>2 DEF Writer!PossibleRun
    <3> DEFINE t == Writer!Taken(r, k - 1)
    <3>4. Writer!BufferAfter(r, k - 1) = buffer \o t
      BY <1>4 DEF Writer!BufferAfter
    <3>5. t \in Seq(Framed) /\ waiting[k] \in Framed
      <4>1. waiting \in Seq(Framed)
            /\ \A i, j \in 1..Len(waiting) : i < j => waiting[i].id < waiting[j].id
        BY DEF WriterInv, WriterTypes, InLine
      <4> QED BY <3>2, <4>1, WhatIsTaken
    <3> HIDE DEF t
    <3>6. /\ Len(b) = Len(buffer) + Len(t) + 1
          /\ \A i \in 1..(Len(buffer) + Len(t)) : b[i] = (buffer \o t)[i]
      BY <1>1, <2>1, <3>1, <3>5 DEF t
    <3>7. SubSeq(b, 1, Len(b) - 1) = buffer \o t
      <4> HIDE DEF b
      <4>1. /\ buffer \o t \in Seq(Framed) /\ Len(buffer \o t) = Len(buffer) + Len(t)
            /\ Len(buffer) \in Nat /\ Len(t) \in Nat
        BY <1>1, <3>5
      <4>2. \A i \in 1..(Len(buffer) + Len(t)) : b[i] \in Framed
        BY <3>6, <4>1
      <4>3. Len(b) - 1 = Len(buffer) + Len(t)
        BY <3>6, <4>1
      <4>4. /\ SubSeq(b, 1, Len(b) - 1) \in Seq(Framed)
            /\ Len(SubSeq(b, 1, Len(b) - 1)) = Len(buffer) + Len(t)
            /\ \A i \in 1..(Len(buffer) + Len(t)) : SubSeq(b, 1, Len(b) - 1)[i] = b[i]
        BY <4>1, <4>2, <4>3
      <4> QED BY <3>6, <4>1, <4>4, SameFrames
    <3>8. BelowTheMark(b)
      BY <3>3, <3>4, <3>7 DEF BelowTheMark
    <3> QED BY <2>1, <2>2, <3>8
  <2> QED BY <2>3, <2>4
<1> QED BY <1>3, <1>4

------------------------------------------------------------------------------
(***************************************************************************)
(* The steps.                                                              *)
(***************************************************************************)

\* #watch, after a run that left the deadline as "armed" says.
LEMMA WatchKeeps ==
  ASSUME NEW armed \in BOOLEAN, NEW handed \in Nat, Writer!Watch(armed, handed),
         buffer' \in Seq(Framed),
         armed => /\ Writer!Bytes(buffer') > 0
                  /\ CoversTheFront(buffer', covered, handed, seen')
  PROVE  /\ stall_timer' \in BOOLEAN /\ poll_timer' \in BOOLEAN /\ seen' \in BOOLEAN
         /\ handed_since_stall_start' \in Nat
         /\ stall_timer' =>
              /\ poll_timer'
              /\ CoversTheFront(buffer', covered', handed_since_stall_start', seen')
<1>0. PICK b \in Seq(Framed) : b = buffer'
  OBVIOUS
<1>1. Writer!Bytes(b) \in Nat /\ Len(b) \in Nat
  BY BytesNat
<1>2. Writer!Bytes(b) > 0 => b # <<>>
  <2>1. CASE b = <<>>
    <3>1. Writer!Bytes(b) = 0
      BY <2>1, BytesOfNone
    <3> QED BY <3>1
  <2> QED BY <2>1
<1>3. /\ poll_timer' = (Writer!Bytes(b) > 0 \/ waiting' # <<>>)
      /\ seen' = TRUE
  BY <1>0 DEF Writer!Watch
<1>4. CASE Writer!Bytes(b) > 0 /\ ~armed
  <2>1. stall_timer' = TRUE /\ handed_since_stall_start' = 0 /\ covered' = Writer!Ids(b)
    BY <1>0, <1>4 DEF Writer!Watch
  <2>2. CoversTheFront(b, covered', handed_since_stall_start', seen')
    <3>1. Len(b) \in 0..Len(b) /\ Len(b) > 0 /\ DOMAIN b = 1..Len(b)
      BY <1>1, <1>2, <1>4
    <3>2. \A i \in 1..Len(b) : b[i].id \in covered'
      BY <2>1, <3>1 DEF Writer!Ids
    <3>3. SubSeq(b, Len(b) + 1, Len(b)) = <<>>
      OBVIOUS
    <3>4. Writer!Bytes(SubSeq(b, Len(b) + 1, Len(b))) <= 0
      <4>1. Writer!Bytes(SubSeq(b, Len(b) + 1, Len(b))) = 0
        BY <3>3, BytesOfNone
      <4> QED BY <4>1
    <3> QED BY <2>1, <3>1, <3>2, <3>4 DEF CoversTheFront
  <2> QED BY <1>0, <1>3, <1>4, <2>1, <2>2
<1>5. CASE ~(Writer!Bytes(b) > 0 /\ ~armed)
  <2>1. /\ stall_timer' = armed /\ handed_since_stall_start' = handed
        /\ armed => covered' = covered
    BY <1>0, <1>5 DEF Writer!Watch
  <2> QED BY <1>0, <1>3, <2>1
<1> QED BY <1>4, <1>5

\* What is handed over goes behind what the deadline covers.
LEMMA HandingOverCovers ==
  ASSUME WriterInv, stall_timer, NEW r \in Writer!Runs, NEW stops,
         Writer!PossibleRun(r, stops),
         ~(Writer!Bytes(buffer) <= handed_since_stall_start)
  PROVE  /\ Writer!Bytes(Writer!BufferAfter(r, r.n)) > 0
         /\ \A read : CoversTheFront(Writer!BufferAfter(r, r.n), covered,
                        handed_since_stall_start + Writer!Bytes(Writer!HandedOver(r)), read)
<1> DEFINE b == Writer!BufferAfter(r, r.n)
           since == handed_since_stall_start
           T == Took(r)
<1>1. /\ state = "open" /\ buffer \in Seq(Framed) /\ since \in Nat
      /\ CoversTheFront(buffer, covered, since, seen)
  BY DEF WriterInv, WriterTypes
<1>2. /\ T \in Seq(Framed) /\ Writer!Bytes(T) \in Nat
      /\ Writer!Bytes(Writer!HandedOver(r)) \in Nat
      /\ Writer!Bytes(T) <= Writer!Bytes(Writer!HandedOver(r))
  BY RunTakes
<1>3. Writer!Bytes(buffer) \in Nat /\ Writer!Bytes(buffer) > 0
  BY <1>1, BytesNat
<1>4. buffer # <<>>
  <2>1. CASE buffer = <<>>
    <3>1. Writer!Bytes(buffer) = 0
      BY <2>1, BytesOfNone
    <3> QED BY <1>3, <3>1
  <2> QED BY <2>1
<1>5. b = buffer \o T
  BY <1>1, <1>4, RunIsBelowTheMark
<1>6. Writer!Bytes(b) = Writer!Bytes(buffer) + Writer!Bytes(T)
  BY <1>1, <1>2, <1>5, BytesOfBoth
<1>7. PICK m \in 0..Len(buffer) :
         /\ \A i \in 1..m : buffer[i].id \in covered
         /\ Writer!Bytes(SubSeq(buffer, m + 1, Len(buffer))) <= since
  BY <1>1 DEF CoversTheFront
<1> DEFINE rest == SubSeq(buffer, m + 1, Len(buffer))
<1>8. m > 0
  <2> SUFFICES ASSUME m = 0
               PROVE  FALSE
    BY <1>1
  <2>1. SubSeq(buffer, 1, Len(buffer)) = buffer
    BY <1>1
  <2>2. rest = SubSeq(buffer, 1, Len(buffer))
    OBVIOUS
  <2> HIDE DEF rest
  <2> QED BY <1>7, <2>1, <2>2 DEF rest
<1> DEFINE M == Len(buffer)
<1>9. /\ M \in Nat /\ m \in 1..M /\ Len(T) \in Nat
      /\ rest \in Seq(Framed) /\ Len(rest) = M - m
      /\ \A i \in 1..(M - m) : rest[i] = buffer[m + i]
  <2>1. \A i \in (m + 1)..M : buffer[i] \in Framed
    BY <1>1
  <2> QED BY <1>1, <1>2, <1>8, <2>1
<1>10. Writer!Bytes(rest) <= since /\ Writer!Bytes(rest) \in Nat
  BY <1>7, <1>9, BytesNat
<1> HIDE DEF rest, T, b, M, since
<1>11. /\ b \in Seq(Framed) /\ Len(b) = M + Len(T)
       /\ \A i \in 1..M : b[i] = buffer[i]
       /\ \A i \in (M + 1)..(M + Len(T)) : b[i] = T[i - M]
  BY <1>1, <1>2, <1>5 DEF M
<1>12. SubSeq(b, m + 1, Len(b)) = rest \o T
  <2>1. \A i \in (m + 1)..Len(b) : b[i] \in Framed
    BY <1>9, <1>11
  <2>2. /\ SubSeq(b, m + 1, Len(b)) \in Seq(Framed)
        /\ Len(SubSeq(b, m + 1, Len(b))) = (M - m) + Len(T)
        /\ \A i \in 1..((M - m) + Len(T)) : SubSeq(b, m + 1, Len(b))[i] = b[m + i]
    BY <1>9, <1>11, <2>1
  <2>3. /\ rest \o T \in Seq(Framed) /\ Len(rest \o T) = (M - m) + Len(T)
        /\ \A i \in 1..(M - m) : (rest \o T)[i] = rest[i]
        /\ \A i \in ((M - m) + 1)..((M - m) + Len(T)) : (rest \o T)[i] = T[i - (M - m)]
    <3> DEFINE K == Len(rest)
    <3>1. /\ rest \o T \in Seq(Framed) /\ Len(rest \o T) = K + Len(T)
          /\ \A i \in 1..K : (rest \o T)[i] = rest[i]
          /\ \A i \in (K + 1)..(K + Len(T)) : (rest \o T)[i] = T[i - K]
      BY <1>2, <1>9, Joined
    <3>2. K = M - m
      BY <1>9
    <3> HIDE DEF K
    <3> QED BY <3>1, <3>2
  <2>4. ASSUME NEW i \in 1..((M - m) + Len(T))
        PROVE  SubSeq(b, m + 1, Len(b))[i] = (rest \o T)[i]
    <3>1. CASE i <= M - m
      <4>1. i \in 1..(M - m) /\ m + i \in 1..M
        BY <1>9, <3>1
      <4> QED BY <1>9, <1>11, <2>2, <2>3, <4>1
    <3>2. CASE ~(i <= M - m)
      <4>1. /\ m + i \in (M + 1)..(M + Len(T)) /\ (m + i) - M = i - (M - m)
            /\ i \in ((M - m) + 1)..((M - m) + Len(T))
        BY <1>9, <3>2
      <4> QED BY <1>11, <2>2, <2>3, <4>1
    <3> QED BY <3>1, <3>2
  <2> QED BY <2>2, <2>3, <2>4, SameFrames
<1>13. Writer!Bytes(SubSeq(b, m + 1, Len(b)))
         <= since + Writer!Bytes(Writer!HandedOver(r))
  <2>1. Writer!Bytes(rest \o T) = Writer!Bytes(rest) + Writer!Bytes(T)
    BY <1>2, <1>9, BytesOfBoth
  <2>2. Writer!Bytes(rest) + Writer!Bytes(T) <= since + Writer!Bytes(Writer!HandedOver(r))
    <3>1. since \in Nat
      BY <1>1 DEF since
    <3> QED BY <1>2, <1>10, <3>1 DEF T
  <2> QED BY <1>12, <2>1, <2>2
<1>14. m \in 0..Len(b) /\ \A i \in 1..m : b[i].id \in covered
  BY <1>7, <1>9, <1>11
<1>15. Writer!Bytes(b) > 0
  BY <1>2, <1>3, <1>6
<1> QED BY <1>8, <1>13, <1>14, <1>15 DEF CoversTheFront, b, since

LEMMA DrainKeeps ==
  ASSUME WriterInv, state = "open", Writer!Drain, UNCHANGED <<state, close_timer, pushed>>,
         pump_pending' \in BOOLEAN
  PROVE  WriterInv'
<1>0. /\ waiting \in Seq(Framed) /\ handed_since_stall_start \in Nat /\ pushed \in Nat
      /\ state \in {"open", "closing", "ended"}
      /\ close_timer \in BOOLEAN /\ stall_timer \in BOOLEAN
      /\ (close_timer => state # "open")
  BY DEF WriterInv, WriterTypes
<1> DEFINE met == stall_timer /\ Writer!Bytes(buffer) <= handed_since_stall_start
           before == IF met THEN 0 ELSE handed_since_stall_start
<1>1. PICK r \in Writer!Runs :
         /\ Writer!PossibleRun(r, FALSE) /\ Writer!HandOver(r)
         /\ Writer!Watch(stall_timer /\ ~met, before + Writer!Bytes(Writer!HandedOver(r)))
  BY DEF Writer!Drain
<1>2. PICK stops \in BOOLEAN : stops = FALSE
  OBVIOUS
<1>3. Writer!PossibleRun(r, stops)
  BY <1>1, <1>2
<1>4. /\ buffer' = Writer!BufferAfter(r, r.n) /\ sent' = SentAfter(r)
      /\ waiting' = Left(r)
      /\ outbound_bytes' = outbound_bytes - Writer!Bytes(Writer!HandedOver(r))
      /\ outbound_frames' = outbound_frames - r.n
  BY <1>1 DEF Writer!HandOver, Writer!SocketTakes, SentAfter, Took, Left
<1>5. /\ Left(r) \in Seq(Framed) /\ Writer!Bytes(Writer!HandedOver(r)) \in Nat
  BY RunTakes
<1>6. SentAfter(r) \in Seq(Nat) /\ InLine(SentAfter(r), Left(r), pushed)
  BY RunIsInLine
<1>7. Counted(Left(r), outbound_bytes - Writer!Bytes(Writer!HandedOver(r)),
              outbound_frames - r.n)
  BY RunIsCounted
<1>8. /\ Writer!BufferAfter(r, r.n) \in Seq(Framed)
      /\ BelowTheMark(Writer!BufferAfter(r, r.n))
  BY <1>3, RunIsBelowTheMark
<1>9. BelowBeforeClose(Writer!BufferAfter(r, r.n))
  BY <1>8, MarkIsKept
<1>10. PICK armed \in BOOLEAN : armed = (stall_timer /\ ~met)
  OBVIOUS
<1>11. PICK handed \in Nat : handed = before + Writer!Bytes(Writer!HandedOver(r))
  BY <1>0, <1>5
<1>12. Writer!Watch(armed, handed)
  BY <1>1, <1>10, <1>11
<1>13. armed => /\ Writer!Bytes(buffer') > 0
                /\ CoversTheFront(buffer', covered, handed, seen')
  <2> SUFFICES ASSUME armed
               PROVE  /\ Writer!Bytes(buffer') > 0
                      /\ CoversTheFront(buffer', covered, handed, seen')
    OBVIOUS
  <2>1. stall_timer /\ ~(Writer!Bytes(buffer) <= handed_since_stall_start)
    BY <1>10
  <2>2. handed = handed_since_stall_start + Writer!Bytes(Writer!HandedOver(r))
    BY <1>11, <2>1
  <2>3. PICK read : read = seen'
    OBVIOUS
  <2>4. /\ Writer!Bytes(Writer!BufferAfter(r, r.n)) > 0
        /\ CoversTheFront(Writer!BufferAfter(r, r.n), covered,
                          handed_since_stall_start + Writer!Bytes(Writer!HandedOver(r)), read)
    BY <1>3, <2>1, HandingOverCovers
  <2> QED BY <1>4, <2>2, <2>3, <2>4
<1> HIDE DEF met, before
<1>14. buffer' \in Seq(Framed)
  BY <1>4, <1>8
<1>15. /\ stall_timer' \in BOOLEAN /\ poll_timer' \in BOOLEAN /\ seen' \in BOOLEAN
       /\ handed_since_stall_start' \in Nat
       /\ stall_timer' =>
            /\ poll_timer'
            /\ CoversTheFront(buffer', covered', handed_since_stall_start', seen')
  BY <1>12, <1>13, <1>14, WatchKeeps
<1>16. WriterTypes'
  BY <1>0, <1>4, <1>5, <1>6, <1>14, <1>15 DEF WriterTypes
<1>17. /\ InLine(sent', waiting', pushed')
       /\ Counted(waiting', outbound_bytes', outbound_frames')
  BY <1>4, <1>6, <1>7
<1>18. BelowTheMark(buffer') /\ BelowBeforeClose(buffer')
  BY <1>4, <1>8, <1>9
<1>19. state' = "open" /\ (close_timer' => state' # "open") /\ (poll_timer' => state' = "open")
  BY <1>0
<1> QED BY <1>15, <1>16, <1>17, <1>18, <1>19 DEF WriterInv

\* A queue that is discarded.
LEMMA NothingWaits ==
  /\ <<>> \in Seq(Framed) /\ Counted(<<>>, 0, 0)
  /\ BelowTheMark(<<>>) /\ BelowBeforeClose(<<>>)
<1>1. <<>> \in Seq(Framed) /\ Len(<<>>) = 0
  OBVIOUS
<1>2. Counted(<<>>, 0, 0)
  BY <1>1, BytesOfNone DEF Counted
<1>3. BelowTheMark(<<>>) /\ BelowBeforeClose(<<>>)
  BY <1>1 DEF BelowTheMark, BelowBeforeClose
<1> QED BY <1>1, <1>2, <1>3

LEMMA StillInLine ==
  ASSUME NEW took \in Seq(Nat), NEW queue \in Seq(Framed), NEW newest \in Nat,
         InLine(took, queue, newest)
  PROVE  /\ InLine(took, <<>>, newest)
         /\ queue = <<>> => /\ InLine(took, queue, newest + 1)
                            /\ InLine(Append(took, newest + 1), queue, newest + 1)
         /\ \A b \in Nat : InLine(took, Append(queue, [id |-> newest + 1, bytes |-> b]),
                                  newest + 1)
<1>0. /\ Len(took) \in Nat /\ \A i \in 1..Len(took) : took[i] \in Nat
      /\ Len(queue) \in Nat /\ \A i \in 1..Len(queue) : queue[i].id \in Nat
  BY BytesAreNat
<1>1. /\ \A i, j \in 1..Len(took) : i < j => took[i] < took[j]
      /\ \A i, j \in 1..Len(queue) : i < j => queue[i].id < queue[j].id
      /\ \A i \in 1..Len(took), j \in 1..Len(queue) : took[i] < queue[j].id
      /\ \A i \in 1..Len(took) : took[i] <= newest
      /\ \A j \in 1..Len(queue) : queue[j].id <= newest
  BY DEF InLine
<1>2. InLine(took, <<>>, newest)
  <2>1. 1..Len(<<>>) = {}
    OBVIOUS
  <2> QED BY <1>1, <2>1 DEF InLine
<1>3. ASSUME queue = <<>>
      PROVE  /\ InLine(took, queue, newest + 1)
             /\ InLine(Append(took, newest + 1), queue, newest + 1)
  <2>1. 1..Len(queue) = {}
    BY <1>3
  <2>2. \A i \in 1..Len(took) : took[i] <= newest + 1
    BY <1>0, <1>1
  <2> DEFINE t == Append(took, newest + 1)
             N == Len(took)
  <2>3. Len(t) = N + 1 /\ t[N + 1] = newest + 1 /\ \A i \in 1..N : t[i] = took[i]
    OBVIOUS
  <2> HIDE DEF t
  <2>4. \A i, j \in 1..Len(t) : i < j => t[i] < t[j]
    <3> SUFFICES ASSUME NEW i \in 1..(N + 1), NEW j \in 1..(N + 1), i < j
                 PROVE  t[i] < t[j]
      BY <2>3
    <3>1. i \in 1..N /\ (j \in 1..N \/ j = N + 1)
      BY <1>0
    <3>2. took[i] < newest + 1
      BY <1>0, <1>1, <3>1
    <3> QED BY <1>1, <2>3, <3>1, <3>2
  <2>5. \A i \in 1..Len(t) : t[i] <= newest + 1
    <3> SUFFICES ASSUME NEW i \in 1..(N + 1)
                 PROVE  t[i] <= newest + 1
      BY <2>3
    <3>1. i \in 1..N \/ i = N + 1
      BY <1>0
    <3> QED BY <2>2, <2>3, <3>1
  <2> QED BY <1>1, <2>1, <2>2, <2>4, <2>5 DEF InLine, t
<1>4. ASSUME NEW b \in Nat
      PROVE  InLine(took, Append(queue, [id |-> newest + 1, bytes |-> b]), newest + 1)
  <2> DEFINE e == [id |-> newest + 1, bytes |-> b]
             q == Append(queue, e)
             N == Len(queue)
  <2>1. e \in Framed /\ e.id = newest + 1
    BY DEF Framed
  <2> HIDE DEF e
  <2>2. Len(q) = N + 1 /\ q[N + 1] = e /\ \A i \in 1..N : q[i] = queue[i]
    BY <2>1
  <2> HIDE DEF q
  <2>3. \A i \in 1..(N + 1) : i \in 1..N \/ i = N + 1
    BY <1>0
  <2>4. \A i \in 1..N : q[i].id \in Nat /\ q[i].id <= newest
    BY <1>0, <1>1, <2>2
  <2>5. \A i \in 1..(N + 1) : q[i].id <= newest + 1
    BY <2>1, <2>2, <2>3, <2>4
  <2>6. \A i, j \in 1..(N + 1) : i < j => q[i].id < q[j].id
    <3> SUFFICES ASSUME NEW i \in 1..(N + 1), NEW j \in 1..(N + 1), i < j
                 PROVE  q[i].id < q[j].id
      OBVIOUS
    <3>1. i \in 1..N
      BY <1>0
    <3>2. CASE j \in 1..N
      BY <1>1, <2>2, <3>1, <3>2
    <3>3. CASE j = N + 1
      BY <2>1, <2>2, <2>4, <3>1, <3>3
    <3> QED BY <2>3, <3>2, <3>3
  <2>7. \A i \in 1..Len(took), j \in 1..(N + 1) : took[i] < q[j].id
    <3> SUFFICES ASSUME NEW i \in 1..Len(took), NEW j \in 1..(N + 1)
                 PROVE  took[i] < q[j].id
      OBVIOUS
    <3>1. CASE j \in 1..N
      BY <1>1, <2>2, <3>1
    <3>2. CASE j = N + 1
      BY <1>0, <1>1, <2>1, <2>2, <3>2
    <3> QED BY <2>3, <3>1, <3>2
  <2>8. \A i \in 1..Len(took) : took[i] <= newest + 1
    BY <1>0, <1>1
  <2> QED BY <1>1, <2>2, <2>5, <2>6, <2>7, <2>8 DEF InLine, q, e
<1> QED BY <1>2, <1>3, <1>4

LEMMA PushIdleKeeps ==
  ASSUME WriterInv, NEW bytes \in Payloads, Writer!PushIdle(bytes)
  PROVE  WriterInv'
<1>0. /\ state = "open" /\ waiting = <<>> /\ buffer = <<>>
      /\ pushed' = pushed + 1 /\ pump_pending' = TRUE
      /\ UNCHANGED <<state, waiting, outbound_bytes, outbound_frames, socket, close_timer>>
  BY DEF Writer!PushIdle, Writer!Idle, Writer!NextFrame, Writer!budget_vars
<1>1. /\ waiting \in Seq(Framed) /\ sent \in Seq(Nat) /\ pushed \in Nat
      /\ buffer \in Seq(Framed)
      /\ close_timer \in BOOLEAN /\ poll_timer \in BOOLEAN /\ seen \in BOOLEAN
      /\ (close_timer => state # "open") /\ (poll_timer => state = "open")
      /\ InLine(sent, waiting, pushed) /\ Counted(waiting, outbound_bytes, outbound_frames)
  BY DEF WriterInv, WriterTypes
<1>2. bytes \in Nat
  BY WriterAssumption DEF Writer!OutboundAssumption
<1>3. /\ Counted(waiting', outbound_bytes', outbound_frames') /\ waiting' \in Seq(Framed)
      /\ pushed' \in Nat /\ state' = "open" /\ pump_pending' \in BOOLEAN
      /\ close_timer' \in BOOLEAN /\ (close_timer' => state' # "open")
  BY <1>0, <1>1
<1>4. /\ InLine(sent, waiting', pushed')
      /\ InLine(Append(sent, pushed'), waiting', pushed')
  <2>1. PICK s \in Seq(Nat), q \in Seq(Framed), n \in Nat : s = sent /\ q = waiting /\ n = pushed
    BY <1>1
  <2>2. InLine(s, q, n + 1) /\ InLine(Append(s, n + 1), q, n + 1)
    BY <1>0, <1>1, <2>1, StillInLine
  <2> QED BY <1>0, <2>1, <2>2
<1>5. CASE /\ buffer' \in {<<>>, <<[id |-> pushed', bytes |-> bytes]>>}
           /\ sent' = Append(sent, pushed')
           /\ Writer!Watch(FALSE, 0)
  <2>1. PICK e \in Framed : e = [id |-> pushed', bytes |-> bytes]
    BY <1>2, <1>3 DEF Framed
  <2>2. buffer' = <<>> \/ buffer' = <<e>>
    BY <1>5, <2>1
  <2>3. /\ <<e>> \in Seq(Framed) /\ BelowTheMark(<<e>>)
    <3>1. <<e>> = Append(<<>>, e) /\ <<e>> \in Seq(Framed) /\ Len(<<e>>) = 1
      OBVIOUS
    <3>2. SubSeq(<<e>>, 1, 0) = <<>>
      OBVIOUS
    <3>3. Writer!Bytes(SubSeq(<<e>>, 1, 0)) = 0
      BY <3>2, BytesOfNone
    <3>4. HighWater \in Nat \ {0}
      BY WriterAssumption DEF Writer!OutboundAssumption
    <3>5. Len(<<e>>) - 1 = 0
      BY <3>1
    <3> QED BY <3>1, <3>3, <3>4, <3>5 DEF BelowTheMark
  <2>4. buffer' \in Seq(Framed) /\ BelowTheMark(buffer')
    BY <2>2, <2>3, NothingWaits
  <2>5. PICK b \in Seq(Framed) : b = buffer'
    BY <2>4
  <2>6. BelowBeforeClose(buffer')
    BY <2>4, <2>5, MarkIsKept
  <2>7. PICK armed \in BOOLEAN, handed \in Nat : armed = FALSE /\ handed = 0
    OBVIOUS
  <2>8. Writer!Watch(armed, handed) /\ ~armed
    BY <1>5, <2>7
  <2>9. /\ stall_timer' \in BOOLEAN /\ poll_timer' \in BOOLEAN /\ seen' \in BOOLEAN
        /\ handed_since_stall_start' \in Nat
        /\ stall_timer' =>
             /\ poll_timer'
             /\ CoversTheFront(buffer', covered', handed_since_stall_start', seen')
    BY <2>4, <2>8, WatchKeeps
  <2>10. sent' \in Seq(Nat)
    BY <1>1, <1>3, <1>5
  <2>11. WriterTypes'
    BY <1>3, <2>4, <2>9, <2>10 DEF WriterTypes
  <2>12. InLine(sent', waiting', pushed')
    BY <1>4, <1>5
  <2> QED BY <1>3, <2>4, <2>6, <2>9, <2>11, <2>12 DEF WriterInv
<1>6. CASE /\ stall_timer' = FALSE
           /\ handed_since_stall_start' = 0
           /\ UNCHANGED <<buffer, sent, poll_timer, covered, seen>>
  <2>1. WriterTypes'
    BY <1>1, <1>3, <1>6 DEF WriterTypes
  <2>2. BelowTheMark(buffer') /\ BelowBeforeClose(buffer')
    BY <1>0, <1>6, NothingWaits
  <2> QED BY <1>0, <1>1, <1>3, <1>4, <1>6, <2>1, <2>2 DEF WriterInv
<1> QED BY <1>5, <1>6 DEF Writer!PushIdle

LEMMA PushQueuedKeeps ==
  ASSUME WriterInv, NEW bytes \in Payloads, Writer!PushQueued(bytes)
  PROVE  WriterInv'
<1>0. PICK e : e = [id |-> pushed + 1, bytes |-> bytes]
  OBVIOUS
<1>1. /\ state = "open" /\ Writer!Fits(bytes)
      /\ pushed' = pushed + 1 /\ pump_pending' = TRUE
      /\ waiting' = Append(waiting, e)
      /\ outbound_bytes' = outbound_bytes + bytes
      /\ outbound_frames' = outbound_frames + 1
      /\ UNCHANGED <<state, poll_timer, stall_timer, close_timer, handed_since_stall_start,
                     buffer, sent, covered, seen>>
  BY <1>0 DEF Writer!PushQueued, Writer!NextFrame, Writer!timer_vars, Writer!socket_vars
<1>2. /\ WriterTypes
      /\ waiting \in Seq(Framed) /\ sent \in Seq(Nat) /\ pushed \in Nat
      /\ InLine(sent, waiting, pushed) /\ Counted(waiting, outbound_bytes, outbound_frames)
  BY DEF WriterInv, WriterTypes
<1>3. bytes \in Nat /\ Overhead \in Nat /\ MaxBytes \in Nat
  BY WriterAssumption DEF Writer!OutboundAssumption
<1>4. e \in Framed /\ e.bytes = bytes
  BY <1>0, <1>2, <1>3 DEF Framed
<1>5. InLine(sent', waiting', pushed')
  <2>1. PICK s \in Seq(Nat), q \in Seq(Framed), n \in Nat : s = sent /\ q = waiting /\ n = pushed
    BY <1>2
  <2>2. InLine(s, Append(q, [id |-> n + 1, bytes |-> bytes]), n + 1)
    BY <1>2, <1>3, <2>1, StillInLine
  <2> QED BY <1>0, <1>1, <2>1, <2>2
<1>6. Counted(waiting', outbound_bytes', outbound_frames')
  <2>1. /\ Len(Append(waiting, e)) = Len(waiting) + 1 /\ Len(waiting) \in Nat
        /\ Writer!Bytes(Append(waiting, e)) = Writer!Bytes(waiting) + bytes
        /\ Writer!Bytes(waiting) \in Nat
    BY <1>2, <1>4, BytesOfOneMore, BytesNat
  <2>2. outbound_frames = Len(waiting) /\ outbound_bytes = Writer!Bytes(waiting)
    BY <1>2 DEF Counted
  <2>3. \/ Len(waiting) = 0
        \/ Writer!Bytes(waiting) + bytes + (Len(waiting) + 1) * Overhead <= MaxBytes
    BY <1>1, <2>2 DEF Writer!Fits
  <2>4. ~(0 + 1 > 1)
    OBVIOUS
  <2> QED BY <1>1, <2>1, <2>2, <2>3, <2>4 DEF Counted
<1>7. WriterTypes'
  <2>1. waiting' \in Seq(Framed) /\ pushed' \in Nat /\ pump_pending' \in BOOLEAN
    BY <1>1, <1>2, <1>4
  <2> QED BY <1>1, <1>2, <2>1 DEF WriterTypes
<1>8. /\ BelowBeforeClose(buffer') /\ (state' = "open" => BelowTheMark(buffer'))
      /\ stall_timer' => /\ state' = "open" /\ poll_timer'
                         /\ CoversTheFront(buffer', covered', handed_since_stall_start', seen')
      /\ (poll_timer' => state' = "open") /\ (close_timer' => state' # "open")
  BY <1>1 DEF WriterInv
<1> QED BY <1>5, <1>6, <1>7, <1>8 DEF WriterInv

\* Once the state is not open and no deadline but the close's runs.
LEMMA EndedKeeps ==
  ASSUME WriterTypes', state' # "open", ~stall_timer', ~poll_timer',
         InLine(sent', waiting', pushed'),
         Counted(waiting', outbound_bytes', outbound_frames'), BelowBeforeClose(buffer')
  PROVE  WriterInv'
BY DEF WriterInv

LEMMA SendCloseKeeps ==
  ASSUME NEW b \in Seq(Framed), BelowTheMark(b), Writer!SendClose(b)
  PROVE  buffer' \in Seq(Framed) /\ BelowBeforeClose(buffer')
<1>1. PICK e : e = Writer!CloseFrame
  OBVIOUS
<1>2. e \in Framed
  BY <1>1 DEF Writer!CloseFrame, Framed
<1>3. buffer' = b \/ buffer' = Append(b, e)
  BY <1>1 DEF Writer!SendClose
<1>4. Append(b, e) \in Seq(Framed)
  BY <1>2
<1>5. BelowBeforeClose(b) /\ BelowBeforeClose(Append(b, e))
  BY <1>2, MarkIsKept
<1> QED BY <1>3, <1>4, <1>5

LEMMA CloseKeeps ==
  ASSUME WriterInv, NEW backlog, Writer!Close(backlog)
  PROVE  WriterInv'
<1>1. PICK r \in Writer!Runs :
         /\ IF backlog = "flush" THEN Writer!PossibleRun(r, TRUE)
                                 ELSE r = [n |-> 0, lost |-> {}, prompt |-> FALSE]
         /\ handed_since_stall_start' =
              IF backlog = "flush" THEN Writer!Bytes(Writer!HandedOver(r)) ELSE 0
         /\ sent' = sent \o [i \in DOMAIN Writer!Taken(r, r.n) |-> Writer!Taken(r, r.n)[i].id]
         /\ Writer!SendClose(Writer!BufferAfter(r, r.n))
  BY DEF Writer!Close
<1>2. /\ state = "open" /\ state' = "closing"
      /\ poll_timer' = FALSE /\ stall_timer' = FALSE /\ close_timer' = TRUE
      /\ waiting' = <<>> /\ outbound_bytes' = 0 /\ outbound_frames' = 0
      /\ UNCHANGED <<pump_pending, pushed, covered, seen>>
  BY DEF Writer!Close, Writer!DiscardWaiting
<1>3. /\ WriterTypes /\ buffer \in Seq(Framed) /\ BelowTheMark(buffer) /\ pushed \in Nat
      /\ handed_since_stall_start \in Nat
  BY <1>2 DEF WriterInv, WriterTypes
<1>4. /\ SentAfter(r) \in Seq(Nat) /\ InLine(SentAfter(r), Left(r), pushed)
      /\ Left(r) \in Seq(Framed) /\ Took(r) \in Seq(Framed)
      /\ Writer!Bytes(Writer!HandedOver(r)) \in Nat
      /\ \A j \in 1..Len(Took(r)) : \E i \in 1..r.n : Took(r)[j] = waiting[i]
  BY RunTakes, RunIsInLine
<1>5. sent' = SentAfter(r)
  BY <1>1 DEF SentAfter, Took
<1>6. InLine(sent', waiting', pushed')
  <2>1. PICK s \in Seq(Nat), q \in Seq(Framed), n \in Nat :
           s = SentAfter(r) /\ q = Left(r) /\ n = pushed
    BY <1>3, <1>4
  <2>2. InLine(s, <<>>, n)
    BY <1>4, <2>1, StillInLine
  <2> QED BY <1>2, <1>5, <2>1, <2>2
<1>7. PICK b \in Seq(Framed) : b = Writer!BufferAfter(r, r.n) /\ BelowTheMark(b)
  <2>1. CASE backlog = "flush"
    <3>1. PICK stops \in BOOLEAN : stops = TRUE
      OBVIOUS
    <3>2. Writer!PossibleRun(r, stops)
      BY <1>1, <2>1, <3>1
    <3> QED BY <1>2, <3>2, RunIsBelowTheMark
  <2>2. CASE backlog # "flush"
    <3>1. r.n = 0 /\ r.prompt = FALSE
      BY <1>1, <2>2
    <3>2. Len(Took(r)) = 0
      <4>1. Len(Took(r)) \in Nat
        BY <1>4
      <4>2. 1..r.n = {}
        BY <3>1
      <4>3. ~(1 \in 1..Len(Took(r)))
        BY <1>4, <4>2
      <4> QED BY <4>1, <4>3
    <3>3. Took(r) = <<>>
      BY <1>4, <3>2
    <3>4. Writer!BufferAfter(r, r.n) = buffer \o Took(r)
      BY <3>1 DEF Writer!BufferAfter, Took
    <3>5. buffer \o <<>> = buffer
      BY <1>3
    <3> QED BY <1>3, <3>3, <3>4, <3>5
  <2> QED BY <2>1, <2>2
<1>8. buffer' \in Seq(Framed) /\ BelowBeforeClose(buffer')
  BY <1>1, <1>7, SendCloseKeeps
<1>9. handed_since_stall_start' \in Nat
  BY <1>1, <1>4
<1>10. waiting' \in Seq(Framed) /\ Counted(waiting', outbound_bytes', outbound_frames')
  BY <1>2, NothingWaits
<1>11. WriterTypes'
  BY <1>2, <1>3, <1>4, <1>5, <1>8, <1>9, <1>10 DEF WriterTypes
<1> QED BY <1>2, <1>6, <1>8, <1>10, <1>11, EndedKeeps

LEMMA EndsKeep ==
  ASSUME WriterInv, Writer!CloseDeadline \/ Writer!Stall \/ Writer!Dispose
  PROVE  WriterInv'
<1>0. /\ WriterTypes /\ buffer \in Seq(Framed) /\ sent \in Seq(Nat) /\ pushed \in Nat
      /\ waiting \in Seq(Framed) /\ handed_since_stall_start \in Nat
      /\ InLine(sent, waiting, pushed) /\ Counted(waiting, outbound_bytes, outbound_frames)
      /\ (state = "open" => BelowTheMark(buffer)) /\ BelowBeforeClose(buffer)
      /\ (stall_timer => state = "open") /\ (poll_timer => state = "open")
      /\ (close_timer => state # "open")
  BY DEF WriterInv, WriterTypes
<1>1. <<>> \in Seq(Framed) /\ Counted(<<>>, 0, 0) /\ BelowBeforeClose(<<>>)
  BY NothingWaits
<1>2. InLine(sent, <<>>, pushed)
  <2>1. PICK s \in Seq(Nat), q \in Seq(Framed), n \in Nat : s = sent /\ q = waiting /\ n = pushed
    BY <1>0
  <2>2. InLine(s, <<>>, n)
    BY <1>0, <2>1, StillInLine
  <2> QED BY <2>1, <2>2
<1>3. CASE Writer!CloseDeadline
  <2>1. /\ close_timer /\ close_timer' = FALSE /\ state' = "ended"
        /\ buffer' = <<>> \/ buffer' = buffer
        /\ UNCHANGED <<waiting, outbound_bytes, outbound_frames, pump_pending, poll_timer,
                       stall_timer, handed_since_stall_start, sent, pushed, covered, seen>>
    BY <1>3 DEF Writer!CloseDeadline, Writer!budget_vars
  <2>2. ~stall_timer' /\ ~poll_timer'
    BY <1>0, <2>1
  <2>3. buffer' \in Seq(Framed) /\ BelowBeforeClose(buffer')
    BY <1>0, <1>1, <2>1
  <2>4. WriterTypes'
    BY <1>0, <2>1, <2>3 DEF WriterTypes
  <2>5. /\ InLine(sent', waiting', pushed')
        /\ Counted(waiting', outbound_bytes', outbound_frames')
    BY <1>0, <2>1
  <2> QED BY <2>1, <2>2, <2>3, <2>4, <2>5, EndedKeeps
<1>4. CASE Writer!Stall
  <2>1. /\ stall_timer /\ state' = "ended" /\ stall_timer' = FALSE /\ poll_timer' = FALSE
        /\ waiting' = <<>> /\ outbound_bytes' = 0 /\ outbound_frames' = 0
        /\ buffer' = <<>> \/ Writer!SendClose(buffer)
        /\ UNCHANGED <<pump_pending, close_timer, handed_since_stall_start, sent, pushed,
                       covered, seen>>
    BY <1>4 DEF Writer!Stall, Writer!DiscardWaiting
  <2>2. buffer' \in Seq(Framed) /\ BelowBeforeClose(buffer')
    BY <1>0, <1>1, <2>1, SendCloseKeeps
  <2>3. WriterTypes'
    BY <1>0, <1>1, <2>1, <2>2 DEF WriterTypes
  <2>4. /\ InLine(sent', waiting', pushed')
        /\ Counted(waiting', outbound_bytes', outbound_frames')
    BY <1>1, <1>2, <2>1
  <2> QED BY <2>1, <2>2, <2>3, <2>4, EndedKeeps
<1>5. CASE Writer!Dispose
  <2>1. /\ state' = "ended" /\ buffer' = <<>>
        /\ poll_timer' = FALSE /\ stall_timer' = FALSE /\ close_timer' = FALSE
        /\ handed_since_stall_start' = 0
        /\ waiting' = <<>> /\ outbound_bytes' = 0 /\ outbound_frames' = 0
        /\ UNCHANGED <<pump_pending, sent, pushed, covered, seen>>
    BY <1>5 DEF Writer!Dispose, Writer!DiscardWaiting
  <2>2. WriterTypes'
    BY <1>0, <1>1, <2>1 DEF WriterTypes
  <2>3. /\ InLine(sent', waiting', pushed')
        /\ Counted(waiting', outbound_bytes', outbound_frames') /\ BelowBeforeClose(buffer')
    BY <1>1, <1>2, <2>1
  <2> QED BY <2>1, <2>2, <2>3, EndedKeeps
<1> QED BY <1>3, <1>4, <1>5

LEMMA SocketWritesKeeps ==
  ASSUME WriterInv, Writer!SocketWrites
  PROVE  WriterInv'
<1>1. /\ buffer # <<>> /\ buffer' = Tail(buffer) /\ seen' = FALSE
      /\ UNCHANGED <<state, waiting, outbound_bytes, outbound_frames, pump_pending, poll_timer,
                     stall_timer, close_timer, handed_since_stall_start, sent, pushed, covered>>
  BY DEF Writer!SocketWrites, Writer!budget_vars, Writer!timer_vars
<1>2. PICK b \in Seq(Framed) : b = buffer /\ b # <<>>
  BY <1>1 DEF WriterInv, WriterTypes
<1>3. WriterTypes'
  <2>1. Tail(b) \in Seq(Framed)
    BY <1>2
  <2>2. buffer' \in Seq(Framed) /\ seen' \in BOOLEAN
    BY <1>1, <1>2, <2>1
  <2> QED BY <1>1, <2>2 DEF WriterInv, WriterTypes
<1>4. /\ BelowBeforeClose(b) /\ (state = "open" => BelowTheMark(b))
      /\ handed_since_stall_start \in Nat
  BY <1>2 DEF WriterInv, WriterTypes
<1>5. /\ BelowBeforeClose(Tail(b)) /\ (state = "open" => BelowTheMark(Tail(b)))
  BY <1>2, <1>4, MarkIsKept
<1>6. ASSUME stall_timer
      PROVE  CoversTheFront(buffer', covered', handed_since_stall_start', seen')
  <2> DEFINE N == Len(b)
  <2>1. /\ N \in Nat /\ N \in 1..N
        /\ Tail(b) \in Seq(Framed) /\ Len(Tail(b)) = N - 1
        /\ \A i \in 1..(N - 1) : Tail(b)[i] = b[i + 1]
        /\ Writer!Bytes(SubSeq(Tail(b), 1, N - 1)) <= Writer!Bytes(SubSeq(b, 1, N))
        /\ Writer!Bytes(SubSeq(Tail(b), 1, N - 1)) \in Nat
        /\ Writer!Bytes(SubSeq(b, 1, N)) \in Nat
    <3>1. N \in Nat /\ N \in 1..N
      BY <1>2
    <3> HIDE DEF N
    <3> QED BY <1>2, <3>1, TailIsLess DEF N
  <2>2. PICK m \in 0..N :
           /\ \A i \in 1..m : b[i].id \in covered
           /\ Writer!Bytes(SubSeq(b, m + 1, N)) <= handed_since_stall_start
    BY <1>2, <1>6 DEF WriterInv, CoversTheFront
  <2>3. CASE m = 0
    <3>1. Writer!Bytes(SubSeq(b, 1, N)) <= handed_since_stall_start
      BY <2>2, <2>3
    <3>2. Writer!Bytes(SubSeq(Tail(b), 1, N - 1)) <= handed_since_stall_start
      BY <1>4, <2>1, <3>1
    <3>3. 0 \in 0..(N - 1) /\ 0 + 1 = 1 /\ 1..0 = {}
      BY <2>1
    <3> HIDE DEF N
    <3> QED BY <1>1, <1>2, <2>1, <3>2, <3>3 DEF CoversTheFront
  <2>4. CASE m > 0
    <3> DEFINE k == m - 1
    <3>1. k \in 0..(N - 1) /\ k + 1 = m /\ \A i \in 1..k : i + 1 \in 1..m /\ i \in 1..(N - 1)
      BY <2>1, <2>4
    <3>2. SubSeq(Tail(b), k + 1, N - 1) = SubSeq(b, m + 1, N)
      <4> HIDE DEF k, N
      <4>1. \A i \in m..(N - 1) : Tail(b)[i] \in Framed
        BY <2>1, <2>4
      <4>2. \A i \in (m + 1)..N : b[i] \in Framed
        BY <1>2, <2>1, <2>4 DEF N
      <4>3. /\ SubSeq(b, m + 1, N) \in Seq(Framed) /\ Len(SubSeq(b, m + 1, N)) = N - m
            /\ \A i \in 1..(N - m) : SubSeq(b, m + 1, N)[i] = b[m + i]
        BY <2>1, <2>4, <4>2
      <4>4. /\ SubSeq(Tail(b), m, N - 1) \in Seq(Framed)
            /\ Len(SubSeq(Tail(b), m, N - 1)) = N - m
            /\ \A i \in 1..(N - m) : SubSeq(Tail(b), m, N - 1)[i] = Tail(b)[(m - 1) + i]
        BY <2>1, <2>4, <4>1
      <4>5. \A i \in 1..(N - m) : /\ (m - 1) + i \in 1..(N - 1)
                                  /\ ((m - 1) + i) + 1 = m + i
        BY <2>1, <2>4
      <4>6. \A i \in 1..(N - m) : Tail(b)[(m - 1) + i] = b[m + i]
        BY <2>1, <4>5
      <4>7. \A i \in 1..(N - m) : SubSeq(Tail(b), m, N - 1)[i] = SubSeq(b, m + 1, N)[i]
        BY <4>3, <4>4, <4>6
      <4>8. SubSeq(Tail(b), m, N - 1) = SubSeq(b, m + 1, N)
        BY <4>3, <4>4, <4>7, SameFrames
      <4> QED BY <3>1, <4>8
    <3>3. \A i \in 1..k : Tail(b)[i].id \in covered
      BY <2>1, <2>2, <3>1
    <3> HIDE DEF k, N
    <3> QED BY <1>1, <1>2, <2>1, <2>2, <3>1, <3>2, <3>3 DEF CoversTheFront
  <2> QED BY <2>2, <2>3, <2>4
<1>7. /\ InLine(sent', waiting', pushed')
      /\ Counted(waiting', outbound_bytes', outbound_frames')
      /\ (stall_timer' => state' = "open" /\ poll_timer')
      /\ (poll_timer' => state' = "open") /\ (close_timer' => state' # "open")
  BY <1>1 DEF WriterInv
<1>8. BelowBeforeClose(buffer') /\ (state' = "open" => BelowTheMark(buffer'))
  BY <1>1, <1>2, <1>5
<1>9. stall_timer' => CoversTheFront(buffer', covered', handed_since_stall_start', seen')
  BY <1>1, <1>6
<1> QED BY <1>3, <1>7, <1>8, <1>9 DEF WriterInv

\* Whatever is pushed, pumped, read and closed.
LEMMA WriterStep ==
  ASSUME WriterInv, Writer!OutboundNext \/ UNCHANGED writer_vars
  PROVE  WriterInv'
<1>1. CASE UNCHANGED writer_vars
  BY <1>1 DEF writer_vars, WriterInv, WriterTypes
<1>2. CASE Writer!Pump
  <2>1. CASE state = "open"
    <3>1. /\ Writer!Drain /\ UNCHANGED <<state, close_timer, pushed>>
          /\ pump_pending' \in BOOLEAN
      BY <1>2, <2>1 DEF Writer!Pump
    <3> QED BY <2>1, <3>1, DrainKeeps
  <2>2. CASE state # "open"
    <3>1. /\ pump_pending' \in BOOLEAN
          /\ UNCHANGED <<state, waiting, outbound_bytes, outbound_frames, poll_timer,
                         stall_timer, close_timer, handed_since_stall_start, buffer, sent,
                         pushed, covered, seen>>
      BY <1>2, <2>2 DEF Writer!Pump, Writer!budget_vars, Writer!timer_vars, Writer!socket_vars
    <3> QED BY <3>1 DEF WriterInv, WriterTypes
  <2> QED BY <2>1, <2>2
<1>3. CASE Writer!PollFires
  <2>1. /\ state = "open" /\ Writer!Drain /\ UNCHANGED <<state, close_timer, pushed>>
        /\ pump_pending' \in BOOLEAN
    BY <1>3 DEF Writer!PollFires, WriterInv, WriterTypes
  <2> QED BY <2>1, DrainKeeps
<1>4. CASE \E bytes \in Payloads :
              Writer!PushIdle(bytes) \/ Writer!PushQueued(bytes) \/ Writer!PushOverflow(bytes)
  BY <1>4, PushIdleKeeps, PushQueuedKeeps, CloseKeeps DEF Writer!PushOverflow
<1>5. CASE \E backlog \in {"flush", "discard"} : Writer!Close(backlog)
  BY <1>5, CloseKeeps
<1>6. CASE Writer!CloseDeadline \/ Writer!Stall \/ Writer!Dispose \/ Writer!SocketWrites
  BY <1>6, EndsKeep, SocketWritesKeeps
<1> QED BY <1>1, <1>2, <1>3, <1>4, <1>5, <1>6 DEF Writer!OutboundNext, Writer!OutboundStep

LEMMA WriterInvSuffices ==
  ASSUME WriterInv
  PROVE  Writer!OrderedAndBounded
<1>0. /\ sent \in Seq(Nat) /\ waiting \in Seq(Framed) /\ buffer \in Seq(Framed)
      /\ InLine(sent, waiting, pushed) /\ Counted(waiting, outbound_bytes, outbound_frames)
      /\ BelowBeforeClose(buffer)
  BY DEF WriterInv, WriterTypes
<1> DEFINE ids == [i \in DOMAIN waiting |-> waiting[i].id]
           line == sent \o ids
           M == Len(sent)
           N == Len(waiting)
<1>1. /\ \A i, j \in 1..M : i < j => sent[i] < sent[j]
      /\ \A i, j \in 1..N : i < j => waiting[i].id < waiting[j].id
      /\ \A i \in 1..M, j \in 1..N : sent[i] < waiting[j].id
  BY <1>0 DEF InLine
<1>2. M \in Nat /\ N \in Nat /\ DOMAIN waiting = 1..N /\ \A i \in 1..N : waiting[i].id \in Nat
  BY <1>0, BytesAreNat
<1>3. ids \in Seq(Nat) /\ Len(ids) = N /\ \A i \in 1..N : ids[i] = waiting[i].id
  BY <1>2
<1> HIDE DEF ids, N
<1>4. line \in Seq(Nat) /\ Len(line) = M + N /\ DOMAIN line = 1..(M + N)
  <2>1. line \in Seq(Nat) /\ Len(line) = M + N
    BY <1>0, <1>3
  <2> HIDE DEF line
  <2>2. DOMAIN line = 1..Len(line)
    BY <2>1
  <2> QED BY <2>1, <2>2
<1>5. ASSUME NEW i \in 1..M
      PROVE  line[i] = sent[i]
  BY <1>0, <1>3
<1>6. ASSUME NEW i \in (M + 1)..(M + N)
      PROVE  line[i] = waiting[i - M].id
  <2>1. line[i] = ids[i - M]
    BY <1>0, <1>3
  <2>2. i - M \in 1..N
    BY <1>2
  <2> QED BY <1>3, <2>1, <2>2
<1>7. Writer!FramesInOrder
  <2> HIDE DEF line, M
  <2>1. ASSUME NEW i \in 1..(M + N), NEW j \in 1..(M + N), i < j
        PROVE  line[i] < line[j]
    <3>1. CASE i \in 1..M /\ j \in 1..M
      BY <1>1, <1>5, <2>1, <3>1
    <3>2. CASE i \in 1..M /\ ~(j \in 1..M)
      <4>1. j \in (M + 1)..(M + N) /\ j - M \in 1..N
        BY <1>2, <3>2
      <4> QED BY <1>1, <1>5, <1>6, <3>2, <4>1
    <3>3. CASE ~(i \in 1..M)
      <4>1. /\ i \in (M + 1)..(M + N) /\ i - M \in 1..N
            /\ j \in (M + 1)..(M + N) /\ j - M \in 1..N /\ i - M < j - M
        BY <1>2, <2>1, <3>3
      <4> QED BY <1>1, <1>6, <4>1
    <3> QED BY <3>1, <3>2, <3>3
  <2>2. \A i, j \in DOMAIN line : i < j => line[i] < line[j]
    BY <1>4, <2>1
  <2> QED BY <2>2 DEF Writer!FramesInOrder, line, ids
<1>8. Writer!BacklogIsBounded
  <2>1. Len(waiting) > 1 => Writer!Bytes(waiting) + Len(waiting) * Overhead <= MaxBytes
    BY <1>0 DEF Counted
  <2>2. ASSUME Len(buffer) > 2
        PROVE  Writer!Bytes(Writer!Front(Writer!Front(buffer))) < HighWater
    <3> DEFINE L == Len(buffer)
               f == SubSeq(buffer, 1, L - 1)
               g == SubSeq(buffer, 1, L - 2)
    <3>1. L \in Nat /\ L > 2 /\ \A i \in 1..L : buffer[i] \in Framed
      BY <1>0, <2>2
    <3> HIDE DEF L
    <3>2. f \in Seq(Framed) /\ Len(f) = L - 1 /\ \A i \in 1..(L - 1) : f[i] = buffer[i]
      BY <3>1
    <3>3. g \in Seq(Framed) /\ Len(g) = L - 2 /\ \A i \in 1..(L - 2) : g[i] = buffer[i]
      BY <3>1
    <3> HIDE DEF f, g
    <3>4. /\ SubSeq(f, 1, L - 2) \in Seq(Framed) /\ Len(SubSeq(f, 1, L - 2)) = L - 2
          /\ \A i \in 1..(L - 2) : SubSeq(f, 1, L - 2)[i] = f[i]
      <4>1. \A i \in 1..(L - 2) : f[i] \in Framed
        BY <3>1, <3>2
      <4> QED BY <3>1, <4>1
    <3>5. \A i \in 1..(L - 2) : f[i] = buffer[i]
      BY <3>1, <3>2
    <3>6. SubSeq(f, 1, L - 2) = g
      BY <3>3, <3>4, <3>5, SameFrames
    <3>7. Writer!Front(buffer) = f /\ Writer!Front(f) = SubSeq(f, 1, L - 2)
      <4>1. Writer!Front(buffer) = f
        BY DEF Writer!Front, f, L
      <4>2. Len(f) - 1 = L - 2
        BY <3>1, <3>2
      <4> QED BY <4>1, <4>2 DEF Writer!Front
    <3>8. Writer!Bytes(g) < HighWater
      BY <1>0, <2>2 DEF BelowBeforeClose, g, L
    <3> QED BY <3>6, <3>7, <3>8
  <2> QED BY <2>1, <2>2 DEF Writer!BacklogIsBounded
<1> QED BY <1>7, <1>8 DEF Writer!OrderedAndBounded

LEMMA WriterInitInv ==
  ASSUME Writer!OutboundInit
  PROVE  WriterInv
<1>1. /\ state = "open" /\ waiting = <<>> /\ buffer = <<>> /\ sent = <<>>
      /\ outbound_bytes = 0 /\ outbound_frames = 0 /\ pushed = 0
      /\ handed_since_stall_start = 0
      /\ poll_timer = FALSE /\ stall_timer = FALSE /\ close_timer = FALSE
      /\ pump_pending = FALSE /\ seen = TRUE
  BY DEF Writer!OutboundInit
<1>2. <<>> \in Seq(Nat)
  OBVIOUS
<1>3. WriterTypes
  BY <1>1, <1>2, NothingWaits DEF WriterTypes
<1>4. InLine(sent, waiting, pushed)
  <2>1. 1..Len(sent) = {} /\ 1..Len(waiting) = {}
    BY <1>1
  <2> QED BY <2>1 DEF InLine
<1> QED BY <1>1, <1>3, <1>4, NothingWaits DEF WriterInv

\* Who is dropped as stalled has left unread what the deadline covered.
LEMMA DropIsEarned ==
  ASSUME WriterInv, Writer!OutboundNext,
         stall_timer, state = "open", state' = "ended", socket' # "closed"
  PROVE  covered \cap Writer!Ids(buffer) # {}
<1>1. ~close_timer /\ poll_timer /\ CoversTheFront(buffer, covered, handed_since_stall_start, seen)
  BY DEF WriterInv
<1>2. Writer!Stall
  <2>1. "ended" # "closing" /\ "ended" # "open" /\ state' # state
    OBVIOUS
  <2> QED BY <1>1, <2>1
       DEF Writer!OutboundNext, Writer!OutboundStep, Writer!PushIdle, Writer!PushQueued,
           Writer!PushOverflow, Writer!Close, Writer!Pump, Writer!PollFires,
           Writer!CloseDeadline, Writer!Dispose, Writer!SocketWrites
<1>3. seen
  BY <1>1, <1>2 DEF Writer!Stall
<1>4. PICK m \in 0..Len(buffer) : (\A i \in 1..m : buffer[i].id \in covered) /\ m > 0
  BY <1>1, <1>3 DEF CoversTheFront
<1>5. buffer \in Seq(Framed)
  BY DEF WriterInv, WriterTypes
<1>6. 1 \in DOMAIN buffer /\ buffer[1].id \in covered
  BY <1>4, <1>5
<1> QED BY <1>6 DEF Writer!Ids

\* What is held for a client is in the order it was pushed and within the bounds, whatever
\* is pushed, pumped, polled, written and closed: for any sizes, budget and high-water mark.
THEOREM FramesAreOrderedAndBounded == FairParts => []OrderedAndBounded
<1>1. FairInit => WriterInv
  BY WriterInitInv DEF FairInit
<1>2. WriterInv /\ [FairNext]_fair_vars => WriterInv'
  <2> SUFFICES ASSUME WriterInv, [FairNext]_fair_vars
               PROVE  WriterInv'
    OBVIOUS
  <2>1. Writer!OutboundNext \/ UNCHANGED writer_vars
    BY DEF FairNext, fair_vars
  <2> QED BY <2>1, WriterStep
<1>3. WriterInv => OrderedAndBounded
  BY WriterInvSuffices DEF OrderedAndBounded
<1> QED BY <1>1, <1>2, <1>3, PTL DEF FairParts

\* A connection is ended as stalled only for bytes that were in its buffer when the
\* deadline started and still are.
THEOREM WhoReadsIsNotDropped == FairParts => DroppedOnlyIfUnread
<1> DEFINE Earned == stall_timer /\ state = "open" /\ state' = "ended" /\ socket' # "closed"
                       => covered \cap Writer!Ids(buffer) # {}
<1>1. FairInit => WriterInv
  BY WriterInitInv DEF FairInit
<1>2. WriterInv /\ [FairNext]_fair_vars => WriterInv' /\ [Earned]_Writer!outbound_vars
  <2> SUFFICES ASSUME WriterInv, [FairNext]_fair_vars
               PROVE  WriterInv' /\ [Earned]_Writer!outbound_vars
    OBVIOUS
  <2>1. Writer!OutboundNext \/ UNCHANGED writer_vars
    BY DEF FairNext, fair_vars
  <2>2. UNCHANGED writer_vars => UNCHANGED Writer!outbound_vars
    BY DEF writer_vars, Writer!outbound_vars, Writer!budget_vars, Writer!timer_vars,
           Writer!socket_vars
  <2>3. Writer!OutboundNext => Earned
    BY DropIsEarned
  <2> QED BY <2>1, <2>2, <2>3, WriterStep
<1> QED BY <1>1, <1>2, PTL DEF FairParts, DroppedOnlyIfUnread, Writer!DroppedOnlyIfUnread

------------------------------------------------------------------------------
(***************************************************************************)
(* The servers of a backend.  What each is yet to let go of accounts for   *)
(* what the closer counts, the listeners that hear and the timers that     *)
(* run.                                                                    *)
(***************************************************************************)

Acquisitions ==
    {Fleet!Acquisition("limiter", l) : l \in {"l1", "l2"}}
    \cup {Fleet!Acquisition("member", r) : r \in Fleet!Registries}
    \cup {Fleet!Acquisition("listener", k) : k \in {"stream", "guard"}}

Mounted(s) == Range(MountsOf[s]) \cup {s}

Places(held, kind, name) == {i \in DOMAIN held : held[i] = Fleet!Acquisition(kind, name)}

\* The additions of a registry that are not taken back, by server and place.
Additions(held, r) ==
    {p \in Servers \X Nat : p[2] \in Places(held[p[1]], "member", r)}

Stages == {"none", "middleware", "bootstrap", "up", "stopping", "ending", "closed", "failing",
           "failed"}

FleetTypes ==
    /\ assembly \in [Servers -> Stages]
    /\ releases \in [Servers -> Seq(Acquisitions)]
    /\ members \in [Fleet!Registries -> Nat]
    /\ server_listeners \subseteq Servers \X {"stream", "guard"}
    /\ ticking \subseteq Servers \X {"l1", "l2"}
    /\ pass \in [Servers -> [running : BOOLEAN, timer : BOOLEAN, due : BOOLEAN,
                             stopped : BOOLEAN]]

Accounts ==
    /\ \A r \in Fleet!Registries :
        /\ IsFiniteSet(Additions(releases, r))
        /\ members[r] = (IF r \in Added THEN 1 ELSE 0) + Cardinality(Additions(releases, r))
    /\ \A s \in Servers, k \in {"stream", "guard"} :
        <<s, k>> \in server_listeners <=> Places(releases[s], "listener", k) # {}
    /\ \A s \in Servers, l \in {"l1", "l2"} :
        <<s, l>> \in ticking => l \in Stuck \/ Places(releases[s], "limiter", l) # {}

\* What a server has at each stage, and never a registry of another's stream.
HeldBy(s) ==
    /\ assembly[s] \in {"none", "failed", "ending", "closed"} => releases[s] = <<>>
    /\ assembly[s] \in {"middleware", "bootstrap"} => releases[s] = Fleet!AtFirst(s)
    /\ assembly[s] \in {"up", "stopping"} =>
        releases[s] = Fleet!AtFirst(s) \o Fleet!AtLast(s)
    /\ \A r : Places(releases[s], "member", r) # {} => r \in Mounted(s)

\* The schedule is set only once the server is up, and over once it closed; what it mounted
\* then takes no one in.
Passes(s) ==
    /\ assembly[s] \notin {"up", "stopping", "ending", "closed"} =>
        pass[s] = Fleet!NoSchedule
    /\ assembly[s] \in {"stopping", "ending", "closed"} => ~pass[s].timer /\ pass[s].stopped
    /\ assembly[s] \in {"ending", "closed"} => ~pass[s].running

Shuts(s) ==
    assembly[s] \in {"ending", "closed"} =>
        /\ Mounted(s) \subseteq server_closing
        /\ \A r \in Mounted(s) \ Raising : r \notin live

FleetInv ==
    /\ FleetTypes /\ Accounts
    /\ \A s \in Servers : HeldBy(s) /\ Passes(s) /\ Shuts(s)

Behind(k, places) == {k + i : i \in places}
PairsBehind(s, k, places) == {<<s, k + i>> : i \in places}

LEMMA FleetCardinality == \A S : Fleet!Cardinality(S) = Cardinality(S)
  BY DEF Fleet!Cardinality, Cardinality

\* Places have as many pairs with one server, from wherever they are counted.
LEMMA PairsCountAlike ==
  ASSUME NEW s, NEW k \in Nat, NEW N \in SUBSET Nat, IsFiniteSet(N)
  PROVE  /\ IsFiniteSet(PairsBehind(s, k, N))
         /\ Cardinality(PairsBehind(s, k, N)) = Cardinality(N)
<1> DEFINE T == {<<s, k + i>> : i \in N}
           f == [i \in N |-> <<s, k + i>>]
<1>1. f \in [N -> T]
  OBVIOUS
<1>2. \A i, j \in N : f[i] = f[j] => i = j
  <2> TAKE i, j \in N
  <2> HAVE f[i] = f[j]
  <2>1. k + i = k + j
    OBVIOUS
  <2> QED BY <2>1
<1>3. \A t \in T : \E i \in N : f[i] = t
  OBVIOUS
<1>4. f \in Bijection(N, T)
  BY <1>1, <1>2, <1>3 DEF Bijection, Injection, Surjection, IsInjective
<1>5. ExistsBijection(N, T)
  BY <1>4 DEF ExistsBijection
<1> HIDE DEF T, f
<1>6. IsFiniteSet(T) /\ Cardinality(T) = Cardinality(N)
  BY <1>5, FS_Bijection
<1> QED BY <1>6 DEF T, PairsBehind

LEMMA PlacesFinite ==
  ASSUME NEW held \in Seq(Acquisitions), NEW kind, NEW name
  PROVE  /\ IsFiniteSet(Places(held, kind, name))
         /\ Places(held, kind, name) \in SUBSET Nat
         /\ Cardinality(Places(held, kind, name)) \in Nat
<1>1. Len(held) \in Nat /\ DOMAIN held = 1..Len(held)
  OBVIOUS
<1>2. IsFiniteSet(1..Len(held))
  BY <1>1, FS_Interval
<1>3. Places(held, kind, name) \in SUBSET (1..Len(held))
  BY <1>1 DEF Places
<1>4. IsFiniteSet(Places(held, kind, name))
  BY <1>2, <1>3, FS_Subset
<1> QED BY <1>1, <1>3, <1>4, FS_CardinalityType


LEMMA KindsAndNames ==
  ASSUME NEW a \in Acquisitions, NEW kind, NEW name
  PROVE  /\ a = Fleet!Acquisition(kind, name) <=> a.kind = kind /\ a.name = name
         /\ a.kind = "limiter" => a.name \in {"l1", "l2"}
         /\ a.kind = "member" => a.name \in Fleet!Registries
         /\ a.kind = "listener" => a.name \in {"stream", "guard"}
  BY DEF Acquisitions, Fleet!Acquisition

LEMMA NamesAreOfPlaces ==
  ASSUME NEW f, NEW D, DOMAIN f = D, \A i \in D : f[i] \in Acquisitions, NEW kind, NEW name
  PROVE  name \in Fleet!NamesOf(f, kind) <=> \E i \in D : f[i] = Fleet!Acquisition(kind, name)
<1>1. name \in Fleet!NamesOf(f, kind) <=> \E i \in D : f[i].kind = kind /\ f[i].name = name
  BY DEF Fleet!NamesOf, Fleet!Range
<1> QED BY <1>1, KindsAndNames

LEMMA NamedIsPlaces ==
  ASSUME NEW f, NEW kind, NEW name
  PROVE  Fleet!Named(f, kind, name) = Cardinality(Places(f, kind, name))
  BY FleetCardinality DEF Fleet!Named, Places

\* What follows in a list is found behind what was there.
LEMMA PlacesOfBoth ==
  ASSUME NEW held \in Seq(Acquisitions), NEW taken \in Seq(Acquisitions), NEW kind, NEW name
  PROVE  Places(held \o taken, kind, name) =
            Places(held, kind, name) \cup Behind(Len(held), Places(taken, kind, name))
<1> DEFINE both == held \o taken
<1>1. /\ DOMAIN held = 1..Len(held) /\ DOMAIN taken = 1..Len(taken)
      /\ Len(held) \in Nat /\ Len(taken) \in Nat
      /\ DOMAIN both = 1..(Len(held) + Len(taken))
      /\ \A i \in 1..Len(held) : both[i] = held[i]
      /\ \A i \in 1..Len(taken) : both[Len(held) + i] = taken[i]
  OBVIOUS
<1> HIDE DEF both
<1>2. ASSUME NEW i \in 1..(Len(held) + Len(taken))
      PROVE  i \in 1..Len(held) \/ \E j \in 1..Len(taken) : i = Len(held) + j
  <2>1. CASE i <= Len(held)
    BY <2>1, <1>1
  <2>2. CASE i > Len(held)
    <3>1. i - Len(held) \in 1..Len(taken) /\ i = Len(held) + (i - Len(held))
      BY <2>2, <1>1
    <3> QED BY <3>1
  <2> QED BY <2>1, <2>2, <1>1
<1>3. Places(both, kind, name) \subseteq
          Places(held, kind, name) \cup Behind(Len(held), Places(taken, kind, name))
  <2> SUFFICES ASSUME NEW i \in Places(both, kind, name)
               PROVE  i \in Places(held, kind, name) \/
                      \E j \in Places(taken, kind, name) : i = Len(held) + j
    BY DEF Behind
  <2>1. i \in 1..(Len(held) + Len(taken)) /\ both[i] = Fleet!Acquisition(kind, name)
    BY <1>1 DEF Places
  <2>2. CASE i \in 1..Len(held)
    BY <1>1, <2>1, <2>2 DEF Places
  <2>3. ASSUME NEW j \in 1..Len(taken), i = Len(held) + j
        PROVE  j \in Places(taken, kind, name)
    BY <1>1, <2>1, <2>3 DEF Places
  <2> QED BY <1>2, <2>1, <2>2, <2>3
<1>4. Places(held, kind, name) \subseteq Places(both, kind, name)
  BY <1>1 DEF Places
<1>5. Behind(Len(held), Places(taken, kind, name)) \subseteq Places(both, kind, name)
  <2>1. ASSUME NEW i \in 1..Len(taken)
        PROVE  Len(held) + i \in 1..(Len(held) + Len(taken))
    BY <1>1
  <2> QED BY <2>1, <1>1 DEF Places, Behind
<1> QED BY <1>3, <1>4, <1>5 DEF both

LEMMA BehindIsAsMany ==
  ASSUME NEW k, NEW places
  PROVE  Behind(k, places) # {} <=> places # {}
  BY DEF Behind

\* An acquisition of a server is accounted for.
LEMMA AcquireAccounts ==
  ASSUME FleetTypes, Accounts, NEW s \in Servers, NEW taken \in Seq(Acquisitions),
         Fleet!Acquire(s, taken)
  PROVE  /\ releases' = [releases EXCEPT ![s] = releases[s] \o taken]
         /\ releases' \in [Servers -> Seq(Acquisitions)]
         /\ members' \in [Fleet!Registries -> Nat]
         /\ server_listeners' \subseteq Servers \X {"stream", "guard"}
         /\ ticking' \subseteq Servers \X {"l1", "l2"}
         /\ Accounts'
<1>1. /\ releases' = [releases EXCEPT ![s] = releases[s] \o taken]
      /\ members' = [r \in Fleet!Registries |-> members[r] + Fleet!Named(taken, "member", r)]
      /\ server_listeners' = server_listeners \cup ({s} \X Fleet!NamesOf(taken, "listener"))
      /\ ticking' = ticking \cup ({s} \X Fleet!NamesOf(taken, "limiter"))
  BY DEF Fleet!Acquire
<1>2. releases[s] \in Seq(Acquisitions) /\ releases[s] \o taken \in Seq(Acquisitions)
  BY DEF FleetTypes
<1>3. releases' \in [Servers -> Seq(Acquisitions)]
  BY <1>1, <1>2 DEF FleetTypes
<1>4. /\ releases'[s] = releases[s] \o taken
      /\ \A x \in Servers \ {s} : releases'[x] = releases[x]
  BY <1>1 DEF FleetTypes
<1>5. DOMAIN taken = 1..Len(taken) /\ \A i \in DOMAIN taken : taken[i] \in Acquisitions
  OBVIOUS
<1>6. ASSUME NEW kind, NEW name
      PROVE  name \in Fleet!NamesOf(taken, kind) <=> Places(taken, kind, name) # {}
  BY <1>5, NamesAreOfPlaces DEF Places
<1>7. \A name : /\ name \in Fleet!NamesOf(taken, "listener") => name \in {"stream", "guard"}
                /\ name \in Fleet!NamesOf(taken, "limiter") => name \in {"l1", "l2"}
  BY <1>5, KindsAndNames DEF Fleet!NamesOf, Fleet!Range
<1>8. /\ server_listeners' \subseteq Servers \X {"stream", "guard"}
      /\ ticking' \subseteq Servers \X {"l1", "l2"}
  BY <1>1, <1>7 DEF FleetTypes
<1>9. ASSUME NEW kind, NEW name
      PROVE  Places(releases'[s], kind, name) # {} <=>
                Places(releases[s], kind, name) # {} \/ Places(taken, kind, name) # {}
  <2>1. Places(releases'[s], kind, name) =
            Places(releases[s], kind, name)
            \cup Behind(Len(releases[s]), Places(taken, kind, name))
    BY <1>2, <1>4, PlacesOfBoth
  <2>2. Behind(Len(releases[s]), Places(taken, kind, name)) # {} <=>
            Places(taken, kind, name) # {}
    BY DEF Behind
  <2> QED BY <2>1, <2>2
<1>10. ASSUME NEW x \in Servers, NEW k \in {"stream", "guard"}
       PROVE  <<x, k>> \in server_listeners' <=> Places(releases'[x], "listener", k) # {}
  <2>1. <<x, k>> \in server_listeners <=> Places(releases[x], "listener", k) # {}
    BY DEF Accounts
  <2>2. <<x, k>> \in server_listeners' <=>
            <<x, k>> \in server_listeners \/ (x = s /\ k \in Fleet!NamesOf(taken, "listener"))
    BY <1>1
  <2> QED BY <2>1, <2>2, <1>4, <1>6, <1>9
<1>11. ASSUME NEW x \in Servers, NEW l \in {"l1", "l2"}, <<x, l>> \in ticking'
       PROVE  l \in Stuck \/ Places(releases'[x], "limiter", l) # {}
  <2>1. <<x, l>> \in ticking => l \in Stuck \/ Places(releases[x], "limiter", l) # {}
    BY DEF Accounts
  <2>2. <<x, l>> \in ticking \/ (x = s /\ l \in Fleet!NamesOf(taken, "limiter"))
    BY <1>1, <1>11
  <2> QED BY <2>1, <2>2, <1>4, <1>6, <1>9
<1>12. ASSUME NEW r \in Fleet!Registries
       PROVE  /\ IsFiniteSet(Additions(releases', r))
              /\ members'[r] = (IF r \in Added THEN 1 ELSE 0) + Cardinality(Additions(releases', r))
              /\ members'[r] \in Nat
  <2> DEFINE old == Additions(releases, r)
             names == Places(taken, "member", r)
             new == PairsBehind(s, Len(releases[s]), names)
  <2>1. /\ IsFiniteSet(old) /\ members[r] = (IF r \in Added THEN 1 ELSE 0) + Cardinality(old)
        /\ Cardinality(old) \in Nat
    BY FS_CardinalityType DEF Accounts
  <2>2. IsFiniteSet(names) /\ names \in SUBSET Nat /\ Cardinality(names) \in Nat
    BY PlacesFinite
  <2>3. Len(releases[s]) \in Nat
    BY <1>2
  <2>4. IsFiniteSet(new) /\ Cardinality(new) = Cardinality(names)
    BY <2>2, <2>3, PairsCountAlike
  <2>5. Places(releases'[s], "member", r) =
            Places(releases[s], "member", r) \cup Behind(Len(releases[s]), names)
    BY <1>2, <1>4, PlacesOfBoth
  <2>6. ASSUME NEW i \in names
        PROVE  Len(releases[s]) + i \in Nat /\ Len(releases[s]) + i \notin DOMAIN releases[s]
    <3>1. i \in 1..Len(taken)
      BY <1>5 DEF Places
    <3>2. DOMAIN releases[s] = 1..Len(releases[s])
      BY <1>2
    <3> QED BY <3>1, <3>2, <2>3
  <2>7. Additions(releases', r) = old \cup new
    <3> HIDE DEF names
    <3>1. ASSUME NEW p \in Additions(releases', r)
          PROVE  p \in old \cup new
      <4>1. p \in Servers \X Nat /\ p[2] \in Places(releases'[p[1]], "member", r) /\ p = <<p[1], p[2]>>
        BY DEF Additions
      <4>2. CASE p[1] = s
        <5>1. CASE p[2] \in Places(releases[s], "member", r)
          BY <4>1, <4>2, <5>1 DEF Additions
        <5>2. CASE \E i \in names : p[2] = Len(releases[s]) + i
          BY <4>1, <4>2, <5>2 DEF PairsBehind
        <5> QED BY <4>1, <4>2, <5>1, <5>2, <2>5 DEF Behind
      <4>3. CASE p[1] # s
        BY <4>1, <4>3, <1>4 DEF Additions
      <4> QED BY <4>2, <4>3
    <3>2. ASSUME NEW p \in old
          PROVE  p \in Additions(releases', r)
      <4>1. p \in Servers \X Nat /\ p[2] \in Places(releases[p[1]], "member", r)
        BY DEF Additions
      <4> QED BY <4>1, <1>4, <2>5 DEF Additions
    <3>3. ASSUME NEW p \in new
          PROVE  p \in Additions(releases', r)
      <4>1. PICK i \in names : p = <<s, Len(releases[s]) + i>>
        BY <3>3 DEF PairsBehind
      <4>2. p[1] = s /\ p[2] \in Places(releases'[s], "member", r) /\ p \in Servers \X Nat
        BY <4>1, <2>5, <2>6 DEF Behind
      <4> QED BY <4>2 DEF Additions
    <3> QED BY <3>1, <3>2, <3>3
  <2>8. old \cap new = {}
    <3>1. ASSUME NEW p \in new
          PROVE  p \notin old
      <4>1. PICK i \in names : p = <<s, Len(releases[s]) + i>>
        BY <3>1 DEF PairsBehind
      <4>2. p[1] = s /\ p[2] \notin Places(releases[s], "member", r)
        BY <4>1, <2>6 DEF Places
      <4> QED BY <4>2 DEF Additions
    <3> QED BY <3>1
  <2> HIDE DEF old, names, new
  <2>9. /\ IsFiniteSet(old \cup new)
        /\ Cardinality(old \cup new) = Cardinality(old) + Cardinality(names)
    <3>1. IsFiniteSet(old) /\ IsFiniteSet(new)
      BY <2>1, <2>4
    <3>2. /\ IsFiniteSet(old \cup new)
          /\ Cardinality(old \cup new) =
                Cardinality(old) + Cardinality(new) - Cardinality(old \cap new)
      BY <3>1, FS_Union
    <3>3. Cardinality(old \cap new) = 0
      BY <2>8, FS_EmptySet
    <3> QED BY <3>2, <3>3, <2>1, <2>2, <2>4
  <2>10. members'[r] = members[r] + Cardinality(names)
    BY <1>1, NamedIsPlaces DEF names
  <2> QED BY <2>1, <2>2, <2>7, <2>9, <2>10
<1>13. members' \in [Fleet!Registries -> Nat]
  BY <1>1, <1>12
<1>14. Accounts'
  BY <1>10, <1>11, <1>12 DEF Accounts, Additions
<1> QED BY <1>1, <1>3, <1>8, <1>13, <1>14

\* And what it lets go of is accounted for, but for the timers that would not stop.
LEMMA ReleaseAccounts ==
  ASSUME FleetTypes, Accounts, NEW s \in Servers, Fleet!RunReleases(s)
  PROVE  /\ releases' = [releases EXCEPT ![s] = <<>>]
         /\ releases' \in [Servers -> Seq(Acquisitions)]
         /\ members' \in [Fleet!Registries -> Nat]
         /\ server_listeners' \subseteq Servers \X {"stream", "guard"}
         /\ ticking' \subseteq Servers \X {"l1", "l2"}
         /\ Accounts'
<1> DEFINE done == [i \in Fleet!Done(s) |-> releases[s][i]]
<1>1. /\ releases' = [releases EXCEPT ![s] = <<>>]
      /\ members' = [r \in Fleet!Registries |-> members[r] - Fleet!Named(done, "member", r)]
      /\ server_listeners' = server_listeners \ ({s} \X Fleet!NamesOf(done, "listener"))
      /\ ticking' = ticking \ ({s} \X Fleet!NamesOf(done, "limiter"))
  BY DEF Fleet!RunReleases
<1>2. releases[s] \in Seq(Acquisitions)
  BY DEF FleetTypes
<1>3. /\ releases' \in [Servers -> Seq(Acquisitions)]
      /\ server_listeners' \subseteq Servers \X {"stream", "guard"}
      /\ ticking' \subseteq Servers \X {"l1", "l2"}
  BY <1>1 DEF FleetTypes
<1>4. /\ releases'[s] = <<>>
      /\ \A x \in Servers \ {s} : releases'[x] = releases[x]
  BY <1>1 DEF FleetTypes
<1>5. \A kind, name : Places(<<>>, kind, name) = {}
  BY DEF Places
<1>6. /\ DOMAIN done = Fleet!Done(s) /\ Fleet!Done(s) \subseteq DOMAIN releases[s]
      /\ \A i \in Fleet!Done(s) : done[i] = releases[s][i] /\ done[i] \in Acquisitions
  BY <1>2 DEF Fleet!Done
<1>7. ASSUME NEW i \in DOMAIN releases[s],
             releases[s][i].kind # "limiter" \/ releases[s][i].name \notin Stuck
      PROVE  i \in Fleet!Done(s)
  BY <1>7 DEF Fleet!Done
<1> HIDE DEF done
<1>8. ASSUME NEW kind, NEW name
      PROVE  /\ name \in Fleet!NamesOf(done, kind) <=> Places(done, kind, name) # {}
             /\ kind # "limiter" \/ name \notin Stuck =>
                    Places(done, kind, name) = Places(releases[s], kind, name)
  <2>1. name \in Fleet!NamesOf(done, kind) <=> Places(done, kind, name) # {}
    BY <1>6, NamesAreOfPlaces DEF Places
  <2>2. Places(done, kind, name) \subseteq Places(releases[s], kind, name)
    BY <1>6 DEF Places
  <2>3. ASSUME kind # "limiter" \/ name \notin Stuck, NEW i \in Places(releases[s], kind, name)
        PROVE  i \in Places(done, kind, name)
    <3>1. i \in DOMAIN releases[s] /\ releases[s][i] = Fleet!Acquisition(kind, name)
      BY DEF Places
    <3>2. releases[s][i].kind = kind /\ releases[s][i].name = name
      BY <3>1 DEF Fleet!Acquisition
    <3>3. i \in Fleet!Done(s)
      BY <2>3, <3>1, <3>2, <1>7
    <3> QED BY <3>1, <3>3, <1>6 DEF Places
  <2> QED BY <2>1, <2>2, <2>3
<1>9. ASSUME NEW x \in Servers, NEW k \in {"stream", "guard"}
      PROVE  <<x, k>> \in server_listeners' <=> Places(releases'[x], "listener", k) # {}
  <2>1. <<x, k>> \in server_listeners <=> Places(releases[x], "listener", k) # {}
    BY DEF Accounts
  <2>2. <<x, k>> \in server_listeners' <=>
            /\ <<x, k>> \in server_listeners
            /\ x # s \/ k \notin Fleet!NamesOf(done, "listener")
    BY <1>1
  <2>3. k \in Fleet!NamesOf(done, "listener") <=> Places(releases[s], "listener", k) # {}
    BY <1>8
  <2> QED BY <2>1, <2>2, <2>3, <1>4, <1>5
<1>10. ASSUME NEW x \in Servers, NEW l \in {"l1", "l2"}, <<x, l>> \in ticking'
       PROVE  l \in Stuck \/ Places(releases'[x], "limiter", l) # {}
  <2>1. <<x, l>> \in ticking /\ (x # s \/ l \notin Fleet!NamesOf(done, "limiter"))
    BY <1>1, <1>10
  <2>2. l \in Stuck \/ Places(releases[x], "limiter", l) # {}
    BY <2>1 DEF Accounts
  <2>3. l \notin Stuck =>
            (l \in Fleet!NamesOf(done, "limiter") <=> Places(releases[s], "limiter", l) # {})
    BY <1>8
  <2> QED BY <2>1, <2>2, <2>3, <1>4
<1>11. ASSUME NEW r \in Fleet!Registries
       PROVE  /\ IsFiniteSet(Additions(releases', r))
              /\ members'[r] = (IF r \in Added THEN 1 ELSE 0) + Cardinality(Additions(releases', r))
              /\ members'[r] \in Nat
  <2> DEFINE old == Additions(releases, r)
             names == Places(releases[s], "member", r)
             ended == PairsBehind(s, 0, names)
  <2>1. /\ IsFiniteSet(old) /\ members[r] = (IF r \in Added THEN 1 ELSE 0) + Cardinality(old)
        /\ Cardinality(old) \in Nat
    BY FS_CardinalityType DEF Accounts
  <2>2. IsFiniteSet(names) /\ names \in SUBSET Nat /\ Cardinality(names) \in Nat
    BY <1>2, PlacesFinite
  <2>3. IsFiniteSet(ended) /\ Cardinality(ended) = Cardinality(names)
    BY <2>2, PairsCountAlike
  <2>4. ended \subseteq old
    <3> SUFFICES ASSUME NEW p \in ended
                 PROVE  p \in old
      OBVIOUS
    <3>1. PICK i \in names : p = <<s, 0 + i>>
      BY DEF PairsBehind
    <3>2. p = <<s, i>> /\ i \in Nat
      BY <3>1, <2>2
    <3> QED BY <3>2 DEF Additions
  <2>5. Additions(releases', r) = old \ ended
    <3>1. ASSUME NEW p \in Additions(releases', r)
          PROVE  p \in old \ ended
      <4>1. p \in Servers \X Nat /\ p[2] \in Places(releases'[p[1]], "member", r)
        BY DEF Additions
      <4>2. p[1] # s
        BY <4>1, <1>4, <1>5
      <4>3. p \in old
        BY <4>1, <4>2, <1>4 DEF Additions
      <4>4. p \notin ended
        BY <4>2 DEF PairsBehind
      <4> QED BY <4>3, <4>4
    <3>2. ASSUME NEW p \in old \ ended
          PROVE  p \in Additions(releases', r)
      <4>1. p \in Servers \X Nat /\ p[2] \in Places(releases[p[1]], "member", r)
        BY <3>2 DEF Additions
      <4>2. p[1] # s
        <5> SUFFICES ASSUME p[1] = s
                     PROVE  FALSE
          OBVIOUS
        <5>1. p = <<s, 0 + p[2]>> /\ p[2] \in names
          BY <4>1
        <5> QED BY <5>1, <3>2 DEF PairsBehind
      <4> QED BY <4>1, <4>2, <1>4 DEF Additions
    <3> QED BY <3>1, <3>2
  <2> HIDE DEF old, names, ended
  <2>6. /\ IsFiniteSet(old \ ended)
        /\ Cardinality(old \ ended) = Cardinality(old) - Cardinality(names)
    <3>1. /\ IsFiniteSet(old \ ended)
          /\ Cardinality(old \ ended) = Cardinality(old) - Cardinality(old \cap ended)
      BY <2>1, FS_Difference
    <3>2. old \cap ended = ended
      BY <2>4
    <3> QED BY <3>1, <3>2, <2>3
  <2>7. Cardinality(old \ ended) \in Nat
    BY <2>6, FS_CardinalityType
  <2>8. members'[r] = members[r] - Cardinality(names)
    BY <1>1, <1>8, NamedIsPlaces DEF names
  <2> QED BY <2>1, <2>2, <2>5, <2>6, <2>7, <2>8
<1>12. members' \in [Fleet!Registries -> Nat]
  BY <1>1, <1>11
<1>13. Accounts'
  BY <1>9, <1>10, <1>11 DEF Accounts, Additions
<1> QED BY <1>1, <1>3, <1>12, <1>13

LEMMA MountsAreLists ==
  ASSUME NEW s \in Servers
  PROVE  /\ MountsOf[s] \in Seq(Mounted(s)) /\ MountsOf[s] # <<>>
         /\ Range(MountsOf[s]) = {MountsOf[s][i] : i \in DOMAIN MountsOf[s]}
         /\ Mounted(s) = {MountsOf[s][i] : i \in DOMAIN MountsOf[s]} \cup {s}
         /\ Mounted(s) \subseteq Fleet!Registries
<1>1. PICK m, n : MountsOf[s] = <<m, n>>
  BY DEF MountsOf
<1>2. Range(MountsOf[s]) = {MountsOf[s][i] : i \in DOMAIN MountsOf[s]}
  BY DEF Range
<1>3. {m, n} \subseteq Mounted(s)
  <2>1. MountsOf[s][1] = m /\ MountsOf[s][2] = n /\ {1, 2} \subseteq DOMAIN MountsOf[s]
    BY <1>1
  <2> QED BY <2>1, <1>2 DEF Mounted
<1>4. MountsOf[s] \in Seq(Mounted(s)) /\ MountsOf[s] # <<>>
  BY <1>1, <1>3
<1>5. Mounted(s) \subseteq Fleet!Registries
  <2> DEFINE all == UNION {Fleet!Range(MountsOf[x]) : x \in Servers}
  <2>1. Fleet!Registries = Added \cup all \cup Servers
    BY Zenon DEF Fleet!Registries
  <2>2. Fleet!Range(MountsOf[s]) = Range(MountsOf[s])
    BY DEF Fleet!Range, Range
  <2>3. Range(MountsOf[s]) \subseteq all
    <3>1. Fleet!Range(MountsOf[s]) \in {Fleet!Range(MountsOf[x]) : x \in Servers}
      BY Zenon
    <3> QED BY <3>1, <2>2, Zenon
  <2> HIDE DEF all
  <2> QED BY <2>1, <2>3 DEF Mounted
<1> QED BY <1>2, <1>4, <1>5 DEF Mounted

\* What an assembly acquires: of members the registries that it mounts and its stream's.
LEMMA WhatIsAcquired ==
  ASSUME NEW s \in Servers
  PROVE  /\ Fleet!AtFirst(s) \in Seq(Acquisitions)
         /\ Fleet!AtLast(s) \in Seq(Acquisitions)
         /\ \A r : Places(Fleet!AtFirst(s), "member", r) # {} => r \in Mounted(s)
         /\ \A r : Places(Fleet!AtLast(s), "member", r) # {} => r \in Mounted(s)
         /\ \A r \in Mounted(s) : \/ Places(Fleet!AtFirst(s), "member", r) # {}
                                  \/ Places(Fleet!AtLast(s), "member", r) # {}
         /\ Places(Fleet!AtFirst(s), "listener", "stream") # {}
         /\ Places(Fleet!AtLast(s), "listener", "guard") # {}
<1> DEFINE names == <<"l1", "l2">>
           limiters == [i \in 1..Len(names) |-> Fleet!Acquisition("limiter", names[i])]
           rest == <<Fleet!Acquisition("member", s), Fleet!Acquisition("listener", "stream")>>
           mounts == [i \in 1..Len(MountsOf[s]) |-> Fleet!Acquisition("member", MountsOf[s][i])]
           guard == <<Fleet!Acquisition("listener", "guard")>>
<1>1. Fleet!AtFirst(s) = limiters \o rest
  BY DEF Fleet!AtFirst
<1>2. Fleet!AtLast(s) = guard \o mounts
  BY DEF Fleet!AtLast
<1>3. /\ names \in Seq({"l1", "l2"})
      /\ \A l \in {"l1", "l2"} : Fleet!Acquisition("limiter", l) \in Acquisitions
  BY DEF Acquisitions
<1>4. \A r \in Fleet!Registries : Fleet!Acquisition("member", r) \in Acquisitions
  BY DEF Acquisitions
<1>5. \A k \in {"stream", "guard"} : Fleet!Acquisition("listener", k) \in Acquisitions
  BY DEF Acquisitions
<1>6. s \in Fleet!Registries /\ s \in Mounted(s)
  BY MountsAreLists DEF Mounted
<1>7. /\ limiters \in Seq(Acquisitions)
      /\ \A k, name : Places(limiters, k, name) # {} => k = "limiter"
  <2> HIDE DEF names
  <2>1. Len(names) \in Nat /\ \A i \in 1..Len(names) : names[i] \in {"l1", "l2"}
    BY <1>3
  <2>2. /\ limiters \in [1..Len(names) -> Acquisitions]
        /\ \A i \in 1..Len(names) : limiters[i] = Fleet!Acquisition("limiter", names[i])
    BY <1>3, <2>1
  <2> HIDE DEF limiters
  <2>3. limiters \in Seq(Acquisitions)
    BY <2>1, <2>2
  <2>4. \A k, name : Places(limiters, k, name) # {} => k = "limiter"
    BY <2>2 DEF Places, Fleet!Acquisition
  <2> QED BY <2>3, <2>4
<1>8. /\ mounts \in Seq(Acquisitions)
      /\ \A k, name : Places(mounts, k, name) # {} <=>
                    k = "member" /\ \E i \in DOMAIN MountsOf[s] : MountsOf[s][i] = name
  <2>1. MountsOf[s] \in Seq(Mounted(s)) /\ Mounted(s) \subseteq Fleet!Registries
    BY MountsAreLists
  <2>2. /\ Len(MountsOf[s]) \in Nat
        /\ \A i \in 1..Len(MountsOf[s]) : MountsOf[s][i] \in Fleet!Registries
    BY <2>1
  <2>3. /\ mounts \in [1..Len(MountsOf[s]) -> Acquisitions]
        /\ \A i \in 1..Len(MountsOf[s]) :
                mounts[i] = Fleet!Acquisition("member", MountsOf[s][i])
    BY <1>4, <2>2
  <2> HIDE DEF mounts
  <2>4. mounts \in Seq(Acquisitions)
    BY <2>2, <2>3
  <2>5. DOMAIN MountsOf[s] = 1..Len(MountsOf[s]) /\ DOMAIN mounts = 1..Len(MountsOf[s])
    BY <2>1, <2>3
  <2>6. ASSUME NEW k, NEW name
        PROVE  Places(mounts, k, name) # {} <=>
                    k = "member" /\ \E i \in DOMAIN MountsOf[s] : MountsOf[s][i] = name
    <3>1. \A i \in 1..Len(MountsOf[s]) :
            mounts[i] = Fleet!Acquisition(k, name) <=> k = "member" /\ MountsOf[s][i] = name
      <4> TAKE i \in 1..Len(MountsOf[s])
      <4>1. mounts[i] \in Acquisitions
        BY <2>3
      <4>2. mounts[i] = Fleet!Acquisition("member", MountsOf[s][i])
        BY <2>3
      <4>3. mounts[i].kind = "member" /\ mounts[i].name = MountsOf[s][i]
        BY <4>1, <4>2, KindsAndNames
      <4> QED BY <4>1, <4>3, KindsAndNames
    <3> QED BY <2>5, <3>1 DEF Places
  <2> QED BY <2>4, <2>6
<1>9. rest \in Seq(Acquisitions) /\ guard \in Seq(Acquisitions)
  BY <1>4, <1>5, <1>6
<1>10. /\ 1 \in Places(rest, "member", s) /\ 2 \in Places(rest, "listener", "stream")
       /\ 1 \in Places(guard, "listener", "guard")
  BY DEF Places
<1>11. ASSUME NEW r
       PROVE  /\ Places(rest, "member", r) # {} => r = s
              /\ Places(guard, "member", r) = {}
  BY DEF Places, Fleet!Acquisition
<1> HIDE DEF names, limiters, rest, mounts, guard
<1>12. ASSUME NEW k, NEW name
       PROVE  /\ Places(Fleet!AtFirst(s), k, name) # {} <=>
                    Places(limiters, k, name) # {} \/ Places(rest, k, name) # {}
              /\ Places(Fleet!AtLast(s), k, name) # {} <=>
                    Places(guard, k, name) # {} \/ Places(mounts, k, name) # {}
  <2>1. Places(Fleet!AtFirst(s), k, name) =
            Places(limiters, k, name) \cup Behind(Len(limiters), Places(rest, k, name))
    BY <1>1, <1>7, <1>9, PlacesOfBoth
  <2>2. Places(Fleet!AtLast(s), k, name) =
            Places(guard, k, name) \cup Behind(Len(guard), Places(mounts, k, name))
    BY <1>2, <1>8, <1>9, PlacesOfBoth
  <2> QED BY <2>1, <2>2, BehindIsAsMany
<1>13. Fleet!AtFirst(s) \in Seq(Acquisitions) /\ Fleet!AtLast(s) \in Seq(Acquisitions)
  BY <1>1, <1>2, <1>7, <1>8, <1>9
<1>14. \A r : /\ Places(Fleet!AtFirst(s), "member", r) # {} <=> r = s
              /\ Places(Fleet!AtLast(s), "member", r) # {} <=>
                    \E i \in DOMAIN MountsOf[s] : MountsOf[s][i] = r
  <2> TAKE r
  <2>1. "member" # "limiter"
    OBVIOUS
  <2>2. Places(Fleet!AtFirst(s), "member", r) # {} <=> r = s
    BY <2>1, <1>7, <1>10, <1>11, <1>12
  <2>3. Places(Fleet!AtLast(s), "member", r) # {} <=>
            \E i \in DOMAIN MountsOf[s] : MountsOf[s][i] = r
    BY <1>8, <1>11, <1>12
  <2> QED BY <2>2, <2>3
<1>15. /\ Places(Fleet!AtFirst(s), "listener", "stream") # {}
       /\ Places(Fleet!AtLast(s), "listener", "guard") # {}
  BY <1>10, <1>12
<1>16. \A r \in Mounted(s) : r = s \/ \E i \in DOMAIN MountsOf[s] : MountsOf[s][i] = r
  BY MountsAreLists
<1>17. \A r : (r = s \/ \E i \in DOMAIN MountsOf[s] : MountsOf[s][i] = r) => r \in Mounted(s)
  BY MountsAreLists
<1> QED BY <1>13, <1>14, <1>15, <1>16, <1>17

\* A run that stops on the way has acquired the first of what it wanted.
LEMMA FirstOfWanted ==
  ASSUME NEW wanted \in Seq(Acquisitions), NEW n \in 0..Len(wanted)
  PROVE  /\ SubSeq(wanted, 1, n) \in Seq(Acquisitions)
         /\ n = Len(wanted) => SubSeq(wanted, 1, n) = wanted
         /\ \A k, name : Places(SubSeq(wanted, 1, n), k, name) # {} =>
                            Places(wanted, k, name) # {}
<1> DEFINE first == SubSeq(wanted, 1, n)
<1>1. first \in Seq(Acquisitions)
  OBVIOUS
<1>2. /\ DOMAIN wanted = 1..Len(wanted) /\ Len(wanted) \in Nat /\ n \in Nat
      /\ DOMAIN first = 1..n /\ \A i \in 1..n : first[i] = wanted[i] /\ i \in DOMAIN wanted
  OBVIOUS
<1>3. n = Len(wanted) => first = wanted
  OBVIOUS
<1> HIDE DEF first
<1>4. \A k, name : Places(first, k, name) # {} => Places(wanted, k, name) # {}
  BY <1>2 DEF Places
<1> QED BY <1>1, <1>3, <1>4 DEF first

\* A server that nothing happened to is as it was.
LEMMA ServerKept ==
  ASSUME NEW s \in Servers, HeldBy(s), Passes(s), Shuts(s),
         assembly'[s] = assembly[s], releases'[s] = releases[s], pass'[s] = pass[s],
         server_closing \subseteq server_closing',
         \A r \in live' : r \in live \/ r \notin server_closing
  PROVE  HeldBy(s)' /\ Passes(s)' /\ Shuts(s)'
<1>1. HeldBy(s)'
  BY DEF HeldBy
<1>2. Passes(s)'
  BY DEF Passes
<1>3. Shuts(s)'
  BY DEF Shuts
<1> QED BY <1>1, <1>2, <1>3

\* While a server is up every registry that it mounted is reached, and it hears.
LEMMA MountedIsReached ==
  ASSUME FleetInv, NEW s \in Servers, assembly[s] \in {"up", "stopping"}
  PROVE  /\ \A r \in Mounted(s) : r \in Fleet!Registries /\ members[r] > 0
         /\ <<s, "stream">> \in server_listeners /\ <<s, "guard">> \in server_listeners
<1>1. releases[s] = Fleet!AtFirst(s) \o Fleet!AtLast(s) /\ releases[s] \in Seq(Acquisitions)
  BY DEF FleetInv, HeldBy, FleetTypes
<1>2. ASSUME NEW k, NEW name, \/ Places(Fleet!AtFirst(s), k, name) # {}
                              \/ Places(Fleet!AtLast(s), k, name) # {}
      PROVE  Places(releases[s], k, name) # {}
  <2>1. Fleet!AtFirst(s) \in Seq(Acquisitions) /\ Fleet!AtLast(s) \in Seq(Acquisitions)
    BY WhatIsAcquired
  <2>2. Places(releases[s], k, name) =
            Places(Fleet!AtFirst(s), k, name)
            \cup Behind(Len(Fleet!AtFirst(s)), Places(Fleet!AtLast(s), k, name))
    BY <1>1, <2>1, PlacesOfBoth
  <2> QED BY <1>2, <2>2, BehindIsAsMany
<1>3. ASSUME NEW r \in Mounted(s)
      PROVE  r \in Fleet!Registries /\ members[r] > 0
  <2>1. r \in Fleet!Registries
    BY MountsAreLists
  <2>2. Places(releases[s], "member", r) # {}
    BY <1>2, WhatIsAcquired
  <2>3. PICK i \in Places(releases[s], "member", r) : TRUE
    BY <2>2
  <2>4. i \in Nat
    BY <1>1, PlacesFinite
  <2>5. <<s, i>> \in Additions(releases, r)
    BY <2>3, <2>4 DEF Additions
  <2>6. /\ IsFiniteSet(Additions(releases, r))
        /\ members[r] = (IF r \in Added THEN 1 ELSE 0) + Cardinality(Additions(releases, r))
    BY <2>1 DEF FleetInv, Accounts
  <2>7. Cardinality(Additions(releases, r)) \in Nat /\ Cardinality(Additions(releases, r)) # 0
    BY <2>5, <2>6, FS_CardinalityType, FS_EmptySet
  <2> QED BY <2>1, <2>6, <2>7
<1>4. /\ Places(releases[s], "listener", "stream") # {}
      /\ Places(releases[s], "listener", "guard") # {}
  BY <1>2, WhatIsAcquired
<1>5. <<s, "stream">> \in server_listeners /\ <<s, "guard">> \in server_listeners
  BY <1>4 DEF FleetInv, Accounts
<1> QED BY <1>3, <1>5

-----------------------------------------------------------------------------
\* A run of an assembly, to its end or until it throws.
LEMMA AssembleKeeps ==
  ASSUME FleetInv, NEW s \in Servers, NEW stage, NEW wanted \in Seq(Acquisitions),
         NEW next \in {"middleware", "up"},
         \A r : Places(wanted, "member", r) # {} => r \in Mounted(s),
         Fleet!Assemble(s, stage, wanted, next)
  PROVE  /\ assembly' \in [Servers -> Stages]
         /\ releases' \in [Servers -> Seq(Acquisitions)]
         /\ members' \in [Fleet!Registries -> Nat]
         /\ server_listeners' \subseteq Servers \X {"stream", "guard"}
         /\ ticking' \subseteq Servers \X {"l1", "l2"}
         /\ Accounts'
         /\ UNCHANGED <<server_closing, live>>
         /\ \A t \in Servers \ {s} : assembly'[t] = assembly[t] /\ releases'[t] = releases[t]
         /\ \A r : Places(releases'[s], "member", r) # {} => r \in Mounted(s)
         /\ \/ assembly'[s] = "failing"
            \/ assembly'[s] = next /\ releases'[s] = releases[s] \o wanted
<1>1. PICK n \in 0..Len(wanted), throws \in BOOLEAN :
        /\ n < Len(wanted) => throws
        /\ Fleet!Acquire(s, SubSeq(wanted, 1, n))
        /\ assembly' = [assembly EXCEPT ![s] = IF throws THEN "failing" ELSE next]
  BY DEF Fleet!Assemble
<1> DEFINE taken == SubSeq(wanted, 1, n)
<1>2. /\ taken \in Seq(Acquisitions) /\ (n = Len(wanted) => taken = wanted)
      /\ \A k, name : Places(taken, k, name) # {} => Places(wanted, k, name) # {}
  BY FirstOfWanted
<1>3. Fleet!Acquire(s, taken) /\ FleetTypes /\ Accounts
  BY <1>1 DEF FleetInv
<1>4. UNCHANGED <<server_closing, live>>
  BY DEF Fleet!Assemble
<1>5. assembly \in [Servers -> Stages] /\ releases \in [Servers -> Seq(Acquisitions)]
  BY <1>3 DEF FleetTypes
<1>6. /\ assembly' \in [Servers -> Stages]
      /\ \A t \in Servers \ {s} : assembly'[t] = assembly[t]
      /\ assembly'[s] = "failing" \/ (assembly'[s] = next /\ n = Len(wanted))
  <2>1. Len(wanted) \in Nat
    OBVIOUS
  <2> QED BY <1>1, <1>5, <2>1 DEF Stages
<1> HIDE DEF taken
<1>7. /\ releases' = [releases EXCEPT ![s] = releases[s] \o taken]
      /\ releases' \in [Servers -> Seq(Acquisitions)]
      /\ members' \in [Fleet!Registries -> Nat]
      /\ server_listeners' \subseteq Servers \X {"stream", "guard"}
      /\ ticking' \subseteq Servers \X {"l1", "l2"}
      /\ Accounts'
  BY <1>2, <1>3, AcquireAccounts
<1>8. /\ releases'[s] = releases[s] \o taken
      /\ \A t \in Servers \ {s} : releases'[t] = releases[t]
  BY <1>5, <1>7
<1>9. ASSUME NEW r, Places(releases'[s], "member", r) # {}
      PROVE  r \in Mounted(s)
  <2>1. releases[s] \in Seq(Acquisitions)
    BY <1>5
  <2>2. Places(releases'[s], "member", r) =
            Places(releases[s], "member", r)
            \cup Behind(Len(releases[s]), Places(taken, "member", r))
    BY <1>2, <1>8, <2>1, PlacesOfBoth
  <2>3. Places(releases[s], "member", r) # {} \/ Places(taken, "member", r) # {}
    BY <1>9, <2>2, BehindIsAsMany
  <2>4. Places(releases[s], "member", r) # {} => r \in Mounted(s)
    BY DEF FleetInv, HeldBy
  <2> QED BY <1>2, <2>3, <2>4
<1> QED BY <1>2, <1>4, <1>6, <1>7, <1>8, <1>9

\* The first run.
LEMMA BeginKeeps ==
  ASSUME FleetInv, NEW s \in Servers, Fleet!BeginAssembly(s)
  PROVE  FleetInv'
<1>1. /\ Fleet!Assemble(s, "none", Fleet!AtFirst(s), "middleware") /\ pass' = pass
      /\ assembly[s] = "none"
  BY DEF Fleet!BeginAssembly, Fleet!Assemble
<1>2. /\ Fleet!AtFirst(s) \in Seq(Acquisitions)
      /\ \A r : Places(Fleet!AtFirst(s), "member", r) # {} => r \in Mounted(s)
  BY WhatIsAcquired
<1>3. /\ assembly' \in [Servers -> Stages]
      /\ releases' \in [Servers -> Seq(Acquisitions)]
      /\ members' \in [Fleet!Registries -> Nat]
      /\ server_listeners' \subseteq Servers \X {"stream", "guard"}
      /\ ticking' \subseteq Servers \X {"l1", "l2"}
      /\ Accounts'
      /\ UNCHANGED <<server_closing, live>>
      /\ \A t \in Servers \ {s} : assembly'[t] = assembly[t] /\ releases'[t] = releases[t]
      /\ \A r : Places(releases'[s], "member", r) # {} => r \in Mounted(s)
      /\ \/ assembly'[s] = "failing"
         \/ assembly'[s] = "middleware" /\ releases'[s] = releases[s] \o Fleet!AtFirst(s)
  BY <1>1, <1>2, AssembleKeeps
<1>4. FleetTypes'
  BY <1>1, <1>3 DEF FleetTypes, FleetInv
<1>5. ASSUME NEW t \in Servers \ {s}
      PROVE  HeldBy(t)' /\ Passes(t)' /\ Shuts(t)'
  BY <1>1, <1>3, ServerKept DEF FleetInv
<1>6. HeldBy(s)' /\ Passes(s)' /\ Shuts(s)'
  <2>1. releases[s] = <<>> /\ pass[s] = Fleet!NoSchedule
    BY <1>1 DEF FleetInv, HeldBy, Passes
  <2>2. releases[s] \o Fleet!AtFirst(s) = Fleet!AtFirst(s)
    BY <1>2, <2>1
  <2>3. HeldBy(s)'
    BY <1>3, <2>2 DEF HeldBy
  <2>4. Passes(s)' /\ Shuts(s)'
    BY <1>1, <1>3, <2>1 DEF Passes, Shuts
  <2> QED BY <2>3, <2>4
<1> QED BY <1>3, <1>4, <1>5, <1>6 DEF FleetInv

\* The last run, which starts the schedule.
LEMMA FinishKeeps ==
  ASSUME FleetInv, NEW s \in Servers, Fleet!FinishAssembly(s)
  PROVE  FleetInv'
<1>1. /\ Fleet!Assemble(s, "bootstrap", Fleet!AtLast(s), "up")
      /\ assembly[s] = "bootstrap"
      /\ pass' = IF assembly'[s] = "up" THEN [pass EXCEPT ![s] = Fleet!StartPass] ELSE pass
  BY DEF Fleet!FinishAssembly, Fleet!Assemble
<1>2. /\ Fleet!AtLast(s) \in Seq(Acquisitions)
      /\ \A r : Places(Fleet!AtLast(s), "member", r) # {} => r \in Mounted(s)
  BY WhatIsAcquired
<1>3. /\ assembly' \in [Servers -> Stages]
      /\ releases' \in [Servers -> Seq(Acquisitions)]
      /\ members' \in [Fleet!Registries -> Nat]
      /\ server_listeners' \subseteq Servers \X {"stream", "guard"}
      /\ ticking' \subseteq Servers \X {"l1", "l2"}
      /\ Accounts'
      /\ UNCHANGED <<server_closing, live>>
      /\ \A t \in Servers \ {s} : assembly'[t] = assembly[t] /\ releases'[t] = releases[t]
      /\ \A r : Places(releases'[s], "member", r) # {} => r \in Mounted(s)
      /\ \/ assembly'[s] = "failing"
         \/ assembly'[s] = "up" /\ releases'[s] = releases[s] \o Fleet!AtLast(s)
  BY <1>1, <1>2, AssembleKeeps
<1>4. /\ pass' \in [Servers -> [running : BOOLEAN, timer : BOOLEAN, due : BOOLEAN,
                                stopped : BOOLEAN]]
      /\ \A t \in Servers \ {s} : pass'[t] = pass[t]
      /\ assembly'[s] # "up" => pass'[s] = pass[s]
  <2>1. Fleet!StartPass \in [running : BOOLEAN, timer : BOOLEAN, due : BOOLEAN,
                             stopped : BOOLEAN]
    BY DEF Fleet!StartPass
  <2> QED BY <1>1, <2>1 DEF FleetInv, FleetTypes
<1>5. FleetTypes'
  BY <1>3, <1>4 DEF FleetTypes
<1>6. ASSUME NEW t \in Servers \ {s}
      PROVE  HeldBy(t)' /\ Passes(t)' /\ Shuts(t)'
  BY <1>3, <1>4, ServerKept DEF FleetInv
<1>7. HeldBy(s)' /\ Passes(s)' /\ Shuts(s)'
  <2>1. releases[s] = Fleet!AtFirst(s) /\ pass[s] = Fleet!NoSchedule
    BY <1>1 DEF FleetInv, HeldBy, Passes
  <2>2. HeldBy(s)'
    BY <1>3, <2>1 DEF HeldBy
  <2>3. Passes(s)' /\ Shuts(s)'
    BY <1>3, <1>4, <2>1 DEF Passes, Shuts
  <2> QED BY <2>2, <2>3
<1> QED BY <1>3, <1>5, <1>6, <1>7 DEF FleetInv

\* An assembly that failed lets go of what it had.
LEMMA FailKeeps ==
  ASSUME FleetInv, NEW s \in Servers, Fleet!FailAssembly(s)
  PROVE  FleetInv'
<1>1. /\ assembly[s] = "failing" /\ Fleet!RunReleases(s)
      /\ assembly' = [assembly EXCEPT ![s] = "failed"]
      /\ UNCHANGED <<server_closing, live, pass>>
  BY DEF Fleet!FailAssembly
<1>2. FleetTypes /\ Accounts
  BY DEF FleetInv
<1>3. /\ releases' = [releases EXCEPT ![s] = <<>>]
      /\ releases' \in [Servers -> Seq(Acquisitions)]
      /\ members' \in [Fleet!Registries -> Nat]
      /\ server_listeners' \subseteq Servers \X {"stream", "guard"}
      /\ ticking' \subseteq Servers \X {"l1", "l2"}
      /\ Accounts'
  BY <1>1, <1>2, ReleaseAccounts
<1>4. /\ assembly' \in [Servers -> Stages] /\ assembly'[s] = "failed" /\ releases'[s] = <<>>
      /\ \A t \in Servers \ {s} : assembly'[t] = assembly[t] /\ releases'[t] = releases[t]
  BY <1>1, <1>2, <1>3 DEF FleetTypes, Stages
<1>5. FleetTypes'
  BY <1>1, <1>2, <1>3, <1>4 DEF FleetTypes
<1>6. ASSUME NEW t \in Servers \ {s}
      PROVE  HeldBy(t)' /\ Passes(t)' /\ Shuts(t)'
  BY <1>1, <1>4, ServerKept DEF FleetInv
<1>7. HeldBy(s)' /\ Passes(s)' /\ Shuts(s)'
  <2>1. pass[s] = Fleet!NoSchedule
    BY <1>1 DEF FleetInv, Passes
  <2>2. \A r : Places(<<>>, "member", r) = {}
    BY DEF Places
  <2>3. HeldBy(s)'
    BY <1>4, <2>2 DEF HeldBy
  <2>4. Passes(s)' /\ Shuts(s)'
    BY <1>1, <1>4, <2>1 DEF Passes, Shuts
  <2> QED BY <2>3, <2>4
<1> QED BY <1>3, <1>5, <1>6, <1>7 DEF FleetInv

\* The shutdown reaches what the server mounted before it lets go of it.
LEMMA ShutDownKeeps ==
  ASSUME FleetInv, NEW s \in Servers, Fleet!ShutDown(s)
  PROVE  FleetInv'
<1>1. /\ assembly[s] = "stopping" /\ ~pass[s].running /\ Fleet!RunReleases(s)
      /\ server_closing' = server_closing \cup Fleet!Reached
      /\ live' = live \ (Fleet!Reached \ Raising)
      /\ assembly' = [assembly EXCEPT ![s] = "ending"]
      /\ pass' = pass
  BY DEF Fleet!ShutDown, Fleet!CloseAllConnections
<1>2. FleetTypes /\ Accounts
  BY DEF FleetInv
<1>3. /\ releases' = [releases EXCEPT ![s] = <<>>]
      /\ releases' \in [Servers -> Seq(Acquisitions)]
      /\ members' \in [Fleet!Registries -> Nat]
      /\ server_listeners' \subseteq Servers \X {"stream", "guard"}
      /\ ticking' \subseteq Servers \X {"l1", "l2"}
      /\ Accounts'
  BY <1>1, <1>2, ReleaseAccounts
<1>4. /\ assembly' \in [Servers -> Stages] /\ assembly'[s] = "ending" /\ releases'[s] = <<>>
      /\ \A t \in Servers \ {s} : assembly'[t] = assembly[t] /\ releases'[t] = releases[t]
  BY <1>1, <1>2, <1>3 DEF FleetTypes, Stages
<1>5. FleetTypes'
  BY <1>1, <1>2, <1>3, <1>4 DEF FleetTypes
<1>6. ASSUME NEW t \in Servers \ {s}
      PROVE  HeldBy(t)' /\ Passes(t)' /\ Shuts(t)'
  BY <1>1, <1>4, ServerKept DEF FleetInv
<1>7. HeldBy(s)' /\ Passes(s)' /\ Shuts(s)'
  <2>1. ~pass[s].timer /\ pass[s].stopped
    BY <1>1 DEF FleetInv, Passes
  <2>2. \A r : Places(<<>>, "member", r) = {}
    BY DEF Places
  <2>3. HeldBy(s)'
    BY <1>4, <2>2 DEF HeldBy
  <2>4. Passes(s)'
    BY <1>1, <1>4, <2>1 DEF Passes
  <2>5. Mounted(s) \subseteq Fleet!Reached
    BY <1>1, MountedIsReached DEF Fleet!Reached
  <2>6. Shuts(s)'
    BY <1>1, <2>5 DEF Shuts
  <2> QED BY <2>3, <2>4, <2>6
<1> QED BY <1>3, <1>5, <1>6, <1>7 DEF FleetInv

\* The steps that acquire nothing and let go of nothing.
LEMMA StageKeeps ==
  ASSUME FleetInv, NEW s \in Servers,
         \/ Fleet!MiddlewareBuilt(s) \/ Fleet!Close(s) \/ Fleet!CloseBackend(s)
  PROVE  FleetInv'
<1>1. UNCHANGED <<releases, members, server_listeners, ticking, server_closing, live>>
  BY DEF Fleet!MiddlewareBuilt, Fleet!Close, Fleet!CloseBackend, Fleet!acquired_vars
<1>2. FleetTypes /\ Accounts
  BY DEF FleetInv
<1>3. PICK next \in Stages :
        /\ assembly' = [assembly EXCEPT ![s] = next]
        /\ \/ assembly[s] = "middleware" /\ next \in {"bootstrap", "failing"} /\ pass' = pass
           \/ /\ assembly[s] = "up" /\ next = "stopping"
              /\ pass' = [pass EXCEPT ![s].stopped = TRUE, ![s].timer = FALSE]
           \/ assembly[s] = "ending" /\ next = "closed" /\ pass' = pass
  <2>1. CASE Fleet!MiddlewareBuilt(s)
    BY <2>1 DEF Fleet!MiddlewareBuilt, Stages
  <2>2. CASE Fleet!Close(s)
    BY <2>2 DEF Fleet!Close, Stages
  <2>3. CASE Fleet!CloseBackend(s)
    BY <2>3 DEF Fleet!CloseBackend, Stages
  <2> QED BY <2>1, <2>2, <2>3
<1>4. /\ assembly' \in [Servers -> Stages] /\ assembly'[s] = next
      /\ \A t \in Servers \ {s} : assembly'[t] = assembly[t] /\ pass'[t] = pass[t]
      /\ pass' \in [Servers -> [running : BOOLEAN, timer : BOOLEAN, due : BOOLEAN,
                                stopped : BOOLEAN]]
      /\ assembly[s] = "up" => ~pass'[s].timer /\ pass'[s].stopped
      /\ assembly[s] # "up" => pass'[s] = pass[s]
  <2>1. /\ assembly' \in [Servers -> Stages] /\ assembly'[s] = next
        /\ \A t \in Servers \ {s} : assembly'[t] = assembly[t]
    BY <1>2, <1>3 DEF FleetTypes
  <2>2. CASE assembly[s] = "up"
    <3>1. pass' = [pass EXCEPT ![s].stopped = TRUE, ![s].timer = FALSE]
      BY <1>3, <2>2
    <3>2. pass \in [Servers -> [running : BOOLEAN, timer : BOOLEAN, due : BOOLEAN,
                                stopped : BOOLEAN]]
      BY <1>2 DEF FleetTypes
    <3> QED BY <2>1, <2>2, <3>1, <3>2
  <2>3. CASE assembly[s] # "up"
    <3>1. pass' = pass
      BY <1>3, <2>3
    <3> QED BY <1>2, <2>1, <2>3, <3>1 DEF FleetTypes
  <2> QED BY <2>2, <2>3
<1>5. FleetTypes'
  BY <1>1, <1>2, <1>4 DEF FleetTypes
<1>6. Accounts'
  BY <1>1, <1>2 DEF Accounts, Additions
<1>7. ASSUME NEW t \in Servers \ {s}
      PROVE  HeldBy(t)' /\ Passes(t)' /\ Shuts(t)'
  BY <1>1, <1>4, ServerKept DEF FleetInv
<1>8. HeldBy(s)' /\ Passes(s)' /\ Shuts(s)'
  BY <1>1, <1>3, <1>4 DEF FleetInv, HeldBy, Passes, Shuts
<1> QED BY <1>5, <1>6, <1>7, <1>8 DEF FleetInv

LEMMA ScheduleKeeps ==
  ASSUME FleetInv, NEW s \in Servers, Fleet!TimerFires(s) \/ Fleet!PassEnds(s)
  PROVE  FleetInv'
<1>1. /\ UNCHANGED <<releases, members, server_listeners, ticking, server_closing, live>>
      /\ assembly' = assembly
  BY DEF Fleet!TimerFires, Fleet!PassEnds, Fleet!acquired_vars
<1>2. FleetTypes /\ Accounts
  BY DEF FleetInv
<1>3. /\ pass[s].timer \/ pass[s].running
      /\ pass[s] \in [running : BOOLEAN, timer : BOOLEAN, due : BOOLEAN, stopped : BOOLEAN]
  BY <1>2 DEF Fleet!TimerFires, Fleet!PassEnds, FleetTypes
<1>4. PICK p \in [running : BOOLEAN, timer : BOOLEAN, due : BOOLEAN, stopped : BOOLEAN] :
        /\ pass' = [pass EXCEPT ![s] = p]
        /\ ~pass[s].timer /\ pass[s].stopped => ~p.timer /\ p.stopped
  <2>1. Fleet!StartPass \in [running : BOOLEAN, timer : BOOLEAN, due : BOOLEAN,
                             stopped : BOOLEAN]
    BY DEF Fleet!StartPass
  <2>2. CASE Fleet!TimerFires(s)
    <3>1. CASE pass[s].running
      BY <1>3, <2>2, <3>1 DEF Fleet!TimerFires
    <3>2. CASE ~pass[s].running
      BY <1>3, <2>1, <2>2, <3>2 DEF Fleet!TimerFires
    <3> QED BY <3>1, <3>2
  <2>3. CASE Fleet!PassEnds(s)
    <3>1. CASE pass[s].due /\ ~pass[s].stopped
      BY <1>3, <2>1, <2>3, <3>1 DEF Fleet!PassEnds
    <3>2. CASE ~(pass[s].due /\ ~pass[s].stopped)
      BY <1>3, <2>3, <3>2 DEF Fleet!PassEnds
    <3> QED BY <3>1, <3>2
  <2> QED BY <2>2, <2>3
<1>5. assembly[s] \in {"up", "stopping"}
  <2>1. assembly[s] \notin {"up", "stopping", "ending", "closed"} => pass[s] = Fleet!NoSchedule
    BY DEF FleetInv, Passes
  <2>2. assembly[s] \notin {"ending", "closed"}
    BY <1>3 DEF FleetInv, Passes
  <2>3. pass[s] # Fleet!NoSchedule
    BY <1>3 DEF Fleet!NoSchedule
  <2> QED BY <2>1, <2>2, <2>3
<1>6. /\ pass' \in [Servers -> [running : BOOLEAN, timer : BOOLEAN, due : BOOLEAN,
                                stopped : BOOLEAN]]
      /\ pass'[s] = p /\ \A t \in Servers \ {s} : pass'[t] = pass[t]
  BY <1>2, <1>4 DEF FleetTypes
<1>7. FleetTypes'
  BY <1>1, <1>2, <1>6 DEF FleetTypes
<1>8. Accounts'
  BY <1>1, <1>2 DEF Accounts, Additions
<1>9. ASSUME NEW t \in Servers \ {s}
      PROVE  HeldBy(t)' /\ Passes(t)' /\ Shuts(t)'
  BY <1>1, <1>6, ServerKept DEF FleetInv
<1>10. HeldBy(s)' /\ Passes(s)' /\ Shuts(s)'
  <2>1. HeldBy(s)' /\ Shuts(s)'
    BY <1>1 DEF FleetInv, HeldBy, Shuts
  <2>2. Passes(s)'
    BY <1>1, <1>4, <1>5, <1>6 DEF FleetInv, Passes
  <2> QED BY <2>1, <2>2
<1> QED BY <1>7, <1>8, <1>9, <1>10 DEF FleetInv

\* Nobody connects to a registry that closes, and the database is no server's.
LEMMA OutsideKeeps ==
  ASSUME FleetInv,
         \/ Fleet!CreateBackend
         \/ \E s \in Servers, r \in Fleet!Registries : Fleet!Connect(s, r)
         \/ UNCHANGED fleet_vars
  PROVE  FleetInv'
<1>1. /\ UNCHANGED <<assembly, releases, members, server_listeners, ticking, server_closing,
                     pass>>
      /\ \A r \in live' : r \in live \/ r \notin server_closing
  BY DEF Fleet!CreateBackend, Fleet!Connect, Fleet!acquired_vars, fleet_vars
<1>2. FleetTypes /\ Accounts
  BY DEF FleetInv
<1>3. FleetTypes'
  BY <1>1, <1>2 DEF FleetTypes
<1>4. Accounts'
  BY <1>1, <1>2 DEF Accounts, Additions
<1>5. ASSUME NEW t \in Servers
      PROVE  HeldBy(t)' /\ Passes(t)' /\ Shuts(t)'
  BY <1>1, ServerKept DEF FleetInv
<1> QED BY <1>3, <1>4, <1>5 DEF FleetInv

LEMMA FleetInitInv ==
  ASSUME Fleet!LifecycleInit
  PROVE  FleetInv
<1>1. /\ assembly = [s \in Servers |-> "none"] /\ releases = [s \in Servers |-> <<>>]
      /\ members = [r \in Fleet!Registries |-> IF r \in Added THEN 1 ELSE 0]
      /\ server_listeners = {} /\ ticking = {}
      /\ pass = [s \in Servers |-> Fleet!NoSchedule]
  BY DEF Fleet!LifecycleInit
<1>2. \A k, name : Places(<<>>, k, name) = {}
  BY DEF Places
<1>3. FleetTypes
  <2>1. Fleet!NoSchedule \in [running : BOOLEAN, timer : BOOLEAN, due : BOOLEAN,
                              stopped : BOOLEAN]
    BY DEF Fleet!NoSchedule
  <2>2. <<>> \in Seq(Acquisitions)
    OBVIOUS
  <2> QED BY <1>1, <2>1, <2>2 DEF FleetTypes, Stages
<1>4. ASSUME NEW r \in Fleet!Registries
      PROVE  /\ IsFiniteSet(Additions(releases, r))
             /\ members[r] = (IF r \in Added THEN 1 ELSE 0) + Cardinality(Additions(releases, r))
  <2>1. Additions(releases, r) = {}
    BY <1>1, <1>2 DEF Additions
  <2>2. IsFiniteSet(Additions(releases, r)) /\ Cardinality(Additions(releases, r)) = 0
    BY <2>1, FS_EmptySet
  <2>3. members[r] = (IF r \in Added THEN 1 ELSE 0) + 0
    BY <1>1
  <2> QED BY <2>2, <2>3
<1>5. Accounts
  BY <1>1, <1>2, <1>4 DEF Accounts
<1>6. ASSUME NEW s \in Servers
      PROVE  HeldBy(s) /\ Passes(s) /\ Shuts(s)
  BY <1>1, <1>2 DEF HeldBy, Passes, Shuts
<1> QED BY <1>3, <1>5, <1>6 DEF FleetInv

LEMMA FleetStep ==
  ASSUME FleetInv, Fleet!LifecycleNext \/ UNCHANGED fleet_vars
  PROVE  FleetInv'
<1>1. \/ Fleet!CreateBackend
      \/ \E s \in Servers, r \in Fleet!Registries : Fleet!Connect(s, r)
      \/ UNCHANGED fleet_vars
      \/ \E s \in Servers :
            \/ Fleet!BeginAssembly(s) \/ Fleet!MiddlewareBuilt(s) \/ Fleet!FinishAssembly(s)
            \/ Fleet!FailAssembly(s) \/ Fleet!TimerFires(s) \/ Fleet!PassEnds(s)
            \/ Fleet!Close(s) \/ Fleet!ShutDown(s) \/ Fleet!CloseBackend(s)
  BY DEF Fleet!LifecycleNext
<1> QED BY <1>1, BeginKeeps, FinishKeeps, FailKeeps, ShutDownKeeps, StageKeeps, ScheduleKeeps,
           OutsideKeeps

-----------------------------------------------------------------------------
\* What the servers promise follows from what they hold.
LEMMA FleetInvSuffices ==
  ASSUME FleetInv
  PROVE  Fleet!UpIsReached /\ Fleet!NothingIsLeft /\ Fleet!ClosedIsOver
<1>1. FleetTypes /\ Accounts
  BY DEF FleetInv
<1>2. \A s \in Servers : Fleet!Range(MountsOf[s]) \cup (Servers \cap {s}) = Mounted(s)
  <2>1. \A s : Fleet!Range(MountsOf[s]) = Range(MountsOf[s])
    BY DEF Fleet!Range, Range
  <2> QED BY <2>1 DEF Mounted
<1>3. \A k, name : Places(<<>>, k, name) = {}
  BY DEF Places
<1>4. Fleet!UpIsReached
  <2>1. ASSUME NEW s \in Servers, assembly[s] = "up"
        PROVE  /\ Fleet!Range(MountsOf[s]) \cup (Servers \cap {s}) \subseteq Fleet!Reached
               /\ {<<s, "stream">>, <<s, "guard">>} \subseteq server_listeners
    BY <1>2, <2>1, MountedIsReached DEF Fleet!Reached
  <2>2. ASSUME NEW s \in Fleet!Up
        PROVE  s \in Servers /\ assembly[s] = "up"
    BY <2>2 DEF Fleet!Up
  <2>3. ASSUME NEW s \in Fleet!Up
        PROVE  /\ Fleet!Range(MountsOf[s]) \cup (Servers \cap {s}) \subseteq Fleet!Reached
               /\ s \in Servers => {<<s, "stream">>, <<s, "guard">>} \subseteq server_listeners
               /\ MountsOf[s] # <<>> => <<s, "guard">> \in server_listeners
    BY <2>1, <2>2
  <2> QED BY <2>3, Zenon DEF Fleet!UpIsReached
<1>5. ASSUME NEW s \in Fleet!Gone
      PROVE  /\ ~\E l \in server_listeners : l[1] = s
             /\ \A t \in ticking : t[1] = s => t[2] \in Stuck
             /\ s \notin Fleet!Reached
             /\ ~pass[s].running /\ ~pass[s].timer
  <2>1. s \in Servers /\ assembly[s] \in {"failed", "ending", "closed"} /\ releases[s] = <<>>
    BY DEF Fleet!Gone, FleetInv, HeldBy
  <2>2. ~pass[s].running /\ ~pass[s].timer
    BY <2>1 DEF FleetInv, Passes, Fleet!NoSchedule
  <2>3. ASSUME NEW l \in server_listeners, l[1] = s
        PROVE  FALSE
    <3>1. l = <<s, l[2]>> /\ l[2] \in {"stream", "guard"}
      BY <1>1, <2>3 DEF FleetTypes
    <3> QED BY <1>1, <1>3, <2>1, <3>1 DEF Accounts
  <2>4. ASSUME NEW t \in ticking, t[1] = s
        PROVE  t[2] \in Stuck
    <3>1. t = <<s, t[2]>> /\ t[2] \in {"l1", "l2"}
      BY <1>1, <2>4 DEF FleetTypes
    <3> QED BY <1>1, <1>3, <2>1, <3>1 DEF Accounts
  <2>5. s \notin Fleet!Reached
    <3>1. /\ s \notin Added
          /\ \A x \in Servers : s \notin Fleet!Range(MountsOf[x])
      <4> DEFINE all == UNION {Fleet!Range(MountsOf[x]) : x \in Servers}
      <4>1. Servers \cap (Added \cup all) = {}
        BY FleetAssumption, Zenon DEF Fleet!LifecycleAssumption
      <4>2. ASSUME NEW x \in Servers
            PROVE  Fleet!Range(MountsOf[x]) \subseteq all
        <5>1. Fleet!Range(MountsOf[x]) \in {Fleet!Range(MountsOf[y]) : y \in Servers}
          BY Zenon
        <5> QED BY <5>1, Zenon
      <4> HIDE DEF all
      <4> QED BY <2>1, <4>1, <4>2
    <3>2. Additions(releases, s) = {}
      <4> SUFFICES ASSUME NEW p \in Additions(releases, s)
                   PROVE  FALSE
        OBVIOUS
      <4>1. p[1] \in Servers /\ Places(releases[p[1]], "member", s) # {}
        BY DEF Additions
      <4>2. s \in Mounted(p[1])
        BY <4>1 DEF FleetInv, HeldBy
      <4>3. s = p[1]
        BY <3>1, <4>1, <4>2, <1>2
      <4> QED BY <4>1, <4>3, <2>1, <1>3
    <3>3. s \in Fleet!Registries => members[s] = 0
      BY <1>1, <3>1, <3>2, FS_EmptySet DEF Accounts
    <3> QED BY <3>3 DEF Fleet!Reached
  <2> QED BY <2>2, <2>3, <2>4, <2>5
<1>6. ASSUME \A s \in Servers : s \in Fleet!Gone \/ releases[s] = <<>>
      PROVE  Fleet!Reached = Added
  <2>1. \A s \in Servers : releases[s] = <<>>
    BY <1>6 DEF Fleet!Gone, FleetInv, HeldBy
  <2>2. ASSUME NEW r \in Fleet!Registries
        PROVE  members[r] = IF r \in Added THEN 1 ELSE 0
    <3>1. Additions(releases, r) = {}
      BY <1>3, <2>1 DEF Additions
    <3> QED BY <1>1, <3>1, FS_EmptySet DEF Accounts
  <2>3. Added \subseteq Fleet!Registries
    BY Zenon DEF Fleet!Registries
  <2> QED BY <2>2, <2>3 DEF Fleet!Reached
<1>7. Fleet!NothingIsLeft
  BY <1>5, <1>6 DEF Fleet!NothingIsLeft
<1>8. Fleet!ClosedIsOver
  BY <1>2 DEF Fleet!ClosedIsOver, FleetInv, Shuts
<1> QED BY <1>4, <1>7, <1>8

\* What a server acquired is there while it is up, and gone with it, whatever other servers
\* of the backend do; and what closed takes no one in: the safety half of AcquiredWhileUp.
THEOREM ServersHoldWhatTheyAcquired ==
  FairParts => [](Fleet!UpIsReached /\ Fleet!NothingIsLeft /\ Fleet!ClosedIsOver)
<1>1. FairInit => FleetInv
  BY FleetInitInv DEF FairInit
<1>2. FleetInv /\ [FairNext]_fair_vars => FleetInv'
  <2> SUFFICES ASSUME FleetInv, [FairNext]_fair_vars
               PROVE  FleetInv'
    OBVIOUS
  <2>1. Fleet!LifecycleNext \/ UNCHANGED fleet_vars
    BY DEF FairNext, fair_vars
  <2> QED BY <2>1, FleetStep
<1>3. FleetInv => Fleet!UpIsReached /\ Fleet!NothingIsLeft /\ Fleet!ClosedIsOver
  BY FleetInvSuffices
<1> QED BY <1>1, <1>2, <1>3, PTL DEF FairParts

=============================================================================
