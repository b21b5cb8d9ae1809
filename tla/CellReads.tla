------------------------------ MODULE CellReads -----------------------------
(***************************************************************************)
(* Reading cells: who sees one in cell_get (predicates over rows that were *)
(* read, cell_authorize.ts) and in the lists (SQL over the rows as they    *)
(* are, cell_view_sql.ts and the queries on top of it), and the walk of a  *)
(* reader over the items or the fields of a cell, a bundle first and then  *)
(* page after page, while others edit the cell and what it links to.       *)
(*                                                                         *)
(* A cell links to others by a key: an item by its position, a field by    *)
(* its name.  The cell that is walked is also the root of the              *)
(* contributions among the others.  A grant of either level lets its       *)
(* holder view, so that levels are left out, and so are the filters of     *)
(* cell_list that only narrow it.                                          *)
(***************************************************************************)
EXTENDS Naturals, FiniteSets

CONSTANTS
    Children,       \* the cells that the walked one links to, numbers from 1
    MaxKey,         \* positions of items, or names of fields: 1 .. MaxKey
    Walkers,        \* who may walk
    BundleLimit,    \* CELL_RELATIONS_BUNDLE_LIMIT
    PageLimit,      \* the limit of a list query
    MaxChanges      \* bound: changes while one walks

VARIABLES
    relation,       \* "items" or "fields"
    cell,           \* the rows
    grants,         \* per cell, who it was granted to
    links,          \* per key, a child or Unlinked
    changes,        \* how many there have been
    walk,           \* the walk: who, how far, and what the last statement read
    shown,          \* the links that the reader has been shown
    steady,         \* history: links that stayed, to a visible cell, since it began, but
                    \* for those to a cell that was published as a bundle was read
    sighted         \* history: cells that the reader could see since it began

read_vars == <<relation, cell, grants, links, changes, walk, shown, steady, sighted>>

Parent == 0
Cells == {Parent} \cup Children
LinkKeys == 1 .. MaxKey
Unlinked == Parent
None == "none"

------------------------------------------------------------------------------
(***************************************************************************)
(* Who asks.  `former' held the role in the scope once; `other' holds it   *)
(* in another scope.                                                       *)
(***************************************************************************)

Viewers == {"anonymous", "stranger", "grantee", "member", "former", "other", "host",
            "author", "admin"}
RoleGrants(v) ==
    CASE v = "member" -> {[scope |-> "here", active |-> TRUE]}
      [] v = "former" -> {[scope |-> "here", active |-> FALSE]}
      [] v = "other" -> {[scope |-> "there", active |-> TRUE]}
      [] OTHER -> {}
IsAdmin(v) == v = "admin"
HasActor(v) == v # "anonymous"

\* A grant names an actor, or a role: in one scope, or in whatever scope it is held.
Grantees == {"grantee", "role_here", "role_anywhere"}
NamesActor(g) == g = "grantee"
OwnerOf(c) == IF c = Parent THEN "host" ELSE "author"

HasAudience(row) == row.moderation \in {None, "approved"}
IsStewardable(row) == row.moderation \in {"pending", "rejected"}

(***************************************************************************)
(* cell_authorize.ts: over a row and grants that were read before.         *)
(***************************************************************************)

GrantAdmits(v, granted) ==
    \E g \in granted :
        IF NamesActor(g) THEN HasActor(v) /\ g = v
        ELSE \E p \in RoleGrants(v) :
                (g = "role_anywhere" \/ p.scope = "here") /\ p.active

CanView(v, c, row, granted) ==
    \/ IsAdmin(v)
    \/ HasActor(v) /\ OwnerOf(c) = v
    \/ /\ HasAudience(row)
       /\ row.visibility = "public" \/ GrantAdmits(v, granted)

StewardAdmits(v, row) ==
    /\ HasActor(v) /\ row.contributed
    /\ IsStewardable(row)
    /\ cell[Parent].live
    /\ IsAdmin(v) \/ OwnerOf(Parent) = v

GetAdmits(v, c) ==
    /\ cell[c].live
    /\ CanView(v, c, cell[c], grants[c]) \/ StewardAdmits(v, cell[c])

(***************************************************************************)
(* cell_view_sql.ts: over the tables, by a viewer whose live role grants   *)
(* are passed along.                                                       *)
(***************************************************************************)

Viewer(v) ==
    [actor |-> IF HasActor(v) THEN v ELSE None,
     admin |-> IsAdmin(v),
     scopes |-> {p.scope : p \in {q \in RoleGrants(v) : q.active}}]

GrantAdmitsCaller(g, viewer) ==
    \/ NamesActor(g) /\ viewer.actor # None /\ g = viewer.actor
    \/ ~NamesActor(g) /\ \E scope \in viewer.scopes : g = "role_anywhere" \/ scope = "here"

CanViewForgettingModeration(viewer, c) ==
    \/ viewer.admin
    \/ viewer.actor # None /\ OwnerOf(c) = viewer.actor
    \/ cell[c].visibility = "public"
    \/ viewer.actor # None /\ \E g \in grants[c] : GrantAdmitsCaller(g, viewer)

CanViewSql(viewer, c) ==
    \/ viewer.admin
    \/ viewer.actor # None /\ OwnerOf(c) = viewer.actor
    \/ /\ HasAudience(cell[c])
       /\ \/ cell[c].visibility = "public"
          \/ viewer.actor # None /\ \E g \in grants[c] : GrantAdmitsCaller(g, viewer)

\* build_general_sql: a manager of a live root also sees what it moderates.
GeneralList(viewer) ==
    {c \in Cells :
        /\ cell[c].live
        /\ \/ CanViewSql(viewer, c)
           \/ /\ viewer.actor # None /\ cell[c].contributed /\ IsStewardable(cell[c])
              /\ cell[Parent].live /\ OwnerOf(Parent) = viewer.actor}

\* build_shared_with_sql: the footprint of the caller's grants, an admin's like another's.
SharedWith(viewer) ==
    {c \in Cells :
        /\ cell[c].live
        /\ viewer.actor # None /\ OwnerOf(c) # viewer.actor
        /\ HasAudience(cell[c])
        /\ \E g \in grants[c] : GrantAdmitsCaller(g, viewer)}

\* cell_list: of what is shared with it, for a caller who is someone, or of all.
CellList(v, shared_with_me) ==
    IF shared_with_me THEN SharedWith(Viewer(v)) ELSE GeneralList(Viewer(v))

\* query_cell_grants_for_caller_in_cells.
GrantsForCaller(viewer, c) ==
    {g \in grants[c] : GrantAdmitsCaller(g, viewer)}

\* query_cell_item_list_for_child and query_cell_field_list_for_target: what links here.
LinkedFrom(viewer, c) ==
    {k \in LinkKeys : links[k] = c /\ cell[Parent].live /\ CanViewSql(viewer, Parent)}

\* ORDER BY the key, LIMIT n.
FirstOf(keys, n) == {k \in keys : Cardinality({j \in keys : j < k}) < n}

Visible(viewer, k) ==
    links[k] # Unlinked /\ cell[links[k]].live /\ CanViewSql(viewer, links[k])

\* A page of which the limit counts rows that the filter then drops.
FilteredAfterTheLimit(viewer, after) ==
    {k \in FirstOf({j \in LinkKeys : j > after /\ links[j] # Unlinked}, PageLimit) :
        Visible(viewer, k)}

\* query_cell_item_list_for_parent and query_cell_field_list_for_source.
ListPage(viewer, after) ==
    FirstOf({k \in LinkKeys : k > after /\ Visible(viewer, k)}, PageLimit)

LastOf(page) == CHOOSE k \in page : \A j \in page : j <= k

LinkAt(k) == [key |-> k, child |-> links[k]]

------------------------------------------------------------------------------
(***************************************************************************)
(* To begin with the first child is public, and the second is a root of    *)
(* its author's that was granted to someone, or a contribution to the      *)
(* parent; it is linked, alone or with the first.                          *)
(***************************************************************************)

Row(visibility, moderation) ==
    [live |-> TRUE, visibility |-> visibility, moderation |-> moderation,
     contributed |-> moderation # None]

Resting == [stage |-> "idle", by |-> None]

ReadsInit ==
    /\ relation \in {"items", "fields"}
    /\ \E second \in {Row("private", None), Row("private", "pending"), Row("public", "approved")},
          to \in {{}} \cup {{g} : g \in Grantees} :
        /\ cell = [c \in Cells |-> IF c = 2 THEN second ELSE Row("public", None)]
        /\ to # {} => HasAudience(second)
        /\ grants = [c \in Cells |-> IF c = 2 THEN to ELSE {}]
    /\ \E one \in {1, Unlinked} : links = [k \in LinkKeys |-> IF k = 1 THEN one
                                                          ELSE IF k = 2 THEN 2 ELSE Unlinked]
    /\ changes = 0 /\ walk = Resting /\ shown = {}
    /\ steady = {} /\ sighted = {}

------------------------------------------------------------------------------
(***************************************************************************)
(* Others change the cells, the grants and the links, each with a          *)
(* statement of its own.                                                   *)
(***************************************************************************)

SeenBy(v) == {c \in Children : cell[c].live /\ CanView(v, c, cell[c], grants[c])}
LinksTo(cs) == {LinkAt(k) : k \in {j \in LinkKeys : links[j] \in cs}}

\* What the walker could see after a change, and what it could see all along.
Observe ==
    IF walk.by = None THEN UNCHANGED <<steady, sighted>>
    ELSE /\ sighted' = sighted \cup SeenBy(walk.by)'
         /\ steady' = steady \cap LinksTo(SeenBy(walk.by))'

Change ==
    /\ changes < MaxChanges /\ changes' = changes + 1
    /\ UNCHANGED <<relation, walk, shown>>

\* update_handler, by the owner.
SetVisibility(c) ==
    /\ Change /\ cell[c].live
    /\ cell' = [cell EXCEPT ![c].visibility = IF @ = "public" THEN "private" ELSE "public"]
    /\ UNCHANGED <<grants, links>>
    /\ Observe

\* moderate_handler.
Moderate(c, moderation) ==
    /\ Change /\ cell[c].live /\ cell[c].contributed /\ cell[Parent].live
    /\ \/ cell[c].moderation = "pending"
       \/ cell[c].moderation = "approved" /\ moderation = "rejected"
    /\ cell' = [cell EXCEPT ![c].moderation = moderation,
                            ![c].visibility = IF moderation = "approved" THEN "public" ELSE @]
    /\ UNCHANGED <<grants, links>>
    /\ Observe

\* delete_handler.
DeleteCell(c) ==
    /\ Change /\ cell[c].live
    /\ cell' = [cell EXCEPT ![c].live = FALSE]
    /\ UNCHANGED <<grants, links>>
    /\ Observe

\* cell_grant_create is refused without an audience, cell_grant_revoke never.
Share(c, g) ==
    /\ Change /\ cell[c].live /\ HasAudience(cell[c]) /\ g \notin grants[c]
    /\ grants' = [grants EXCEPT ![c] = @ \cup {g}]
    /\ UNCHANGED <<cell, links>>
    /\ Observe

Unshare(c, g) ==
    /\ Change /\ cell[c].live /\ g \in grants[c]
    /\ grants' = [grants EXCEPT ![c] = @ \ {g}]
    /\ UNCHANGED <<cell, links>>
    /\ Observe

\* cell_item_insert, refused where an item is.  An admin edits every cell and sees every
\* child, so that each of them may be linked.
InsertItem(k, c) ==
    /\ Change /\ cell[Parent].live /\ cell[c].live
    /\ relation = "items" /\ links[k] = Unlinked
    /\ links' = [links EXCEPT ![k] = c]
    /\ UNCHANGED <<cell, grants>>
    /\ Observe

\* cell_field_set, which replaces the target.
SetField(k, c) ==
    /\ Change /\ cell[Parent].live /\ cell[c].live
    /\ relation = "fields" /\ links[k] # c
    /\ links' = [links EXCEPT ![k] = c]
    /\ UNCHANGED <<cell, grants>>
    /\ Observe

\* cell_item_move, refused likewise; a field keeps its name.
MoveItem(k, to) ==
    /\ Change /\ cell[Parent].live
    /\ relation = "items" /\ links[k] # Unlinked /\ links[to] = Unlinked
    /\ links' = [links EXCEPT ![k] = Unlinked, ![to] = links[k]]
    /\ UNCHANGED <<cell, grants>>
    /\ Observe

\* cell_item_delete and cell_field_delete.
Unlink(k) ==
    /\ Change /\ cell[Parent].live
    /\ links[k] # Unlinked
    /\ links' = [links EXCEPT ![k] = Unlinked]
    /\ UNCHANGED <<cell, grants>>
    /\ Observe

------------------------------------------------------------------------------
(***************************************************************************)
(* cell_get.  It reads up to one link more than it bundles, then the rows  *)
(* of their targets, then the grants on these, and shows the links whose   *)
(* target the reader may view by what it has read.  The parent's own row   *)
(* and grants are read with the links.                                     *)
(***************************************************************************)

Nowhere == 0
Still == UNCHANGED <<relation, cell, grants, links, changes>>

StartGet(v) ==
    /\ walk.stage = "idle"
    /\ GetAdmits(v, Parent)
    /\ LET keys == FirstOf({k \in LinkKeys : links[k] # Unlinked /\ cell[links[k]].live},
                           BundleLimit + 1)
       IN  walk' = [stage |-> "rows", by |-> v, truncated |-> Cardinality(keys) > BundleLimit,
                    links |-> {LinkAt(k) : k \in FirstOf(keys, BundleLimit)}]
    /\ shown' = {}
    /\ sighted' = SeenBy(v)
    /\ steady' = LinksTo(SeenBy(v))
    /\ Still

ReadTargets ==
    /\ walk.stage = "rows"
    /\ LET targets == {c \in {l.child : l \in walk.links} : cell[c].live}
       IN  walk' = [stage |-> "grants", by |-> walk.by, truncated |-> walk.truncated,
                    links |-> walk.links, rows |-> [c \in targets |-> cell[c]]]
    /\ UNCHANGED <<shown, steady, sighted>> /\ Still

\* A row that was read as private and is public by the time its grants are read: who saw
\* the cell by a grant, and sees it as everyone does now, may be told neither.
PublishedMeanwhile(c) ==
    c \in DOMAIN walk.rows /\ walk.rows[c].visibility # "public" /\ cell[c].visibility = "public"

ReadTargetGrants ==
    /\ walk.stage = "grants"
    /\ LET visible == {c \in DOMAIN walk.rows : CanView(walk.by, c, walk.rows[c], grants[c])}
       IN  shown' = {l \in walk.links : l.child \in visible}
    /\ walk' = [stage |-> IF walk.truncated THEN "truncated" ELSE "bundled", by |-> walk.by]
    /\ steady' = {l \in steady : ~PublishedMeanwhile(l.child)}
    /\ UNCHANGED sighted /\ Still

\* "clients paginate when truncated": by the lists, one statement for each page, until
\* one has fewer than its limit.
Paginate ==
    /\ walk.stage = "truncated"
    /\ walk' = [stage |-> "paging", by |-> walk.by, after |-> Nowhere]
    /\ UNCHANGED <<shown, steady, sighted>> /\ Still

ReadPage ==
    /\ walk.stage = "paging"
    /\ IF cell[Parent].live /\ CanView(walk.by, Parent, cell[Parent], grants[Parent])
       THEN LET page == ListPage(Viewer(walk.by), walk.after)
            IN  /\ shown' = shown \cup {LinkAt(k) : k \in page}
                /\ walk' = IF Cardinality(page) < PageLimit
                           THEN [stage |-> "walked", by |-> walk.by]
                           ELSE [stage |-> "paging", by |-> walk.by, after |-> LastOf(page)]
                /\ UNCHANGED <<steady, sighted>>
       ELSE /\ walk' = Resting /\ shown' = {} /\ steady' = {} /\ sighted' = {}
    /\ Still

Leave ==
    /\ walk.stage \in {"bundled", "truncated", "walked"}
    /\ walk' = Resting /\ shown' = {} /\ steady' = {} /\ sighted' = {}
    /\ Still

ReadsNext ==
    \/ \E c \in Cells : SetVisibility(c) \/ DeleteCell(c)
    \/ \E c \in Children, moderation \in {"approved", "rejected"} : Moderate(c, moderation)
    \/ \E c \in Cells, g \in Grantees : Share(c, g) \/ Unshare(c, g)
    \/ \E k \in LinkKeys :
        \/ \E c \in Children : InsertItem(k, c) \/ SetField(k, c)
        \/ \E to \in LinkKeys : MoveItem(k, to)
        \/ Unlink(k)
    \/ \E v \in Walkers : StartGet(v)
    \/ ReadTargets \/ ReadTargetGrants \/ Paginate \/ ReadPage \/ Leave

ReadsSpec == ReadsInit /\ [][ReadsNext]_read_vars

------------------------------------------------------------------------------
(***************************************************************************)
(* Correctness.                                                            *)
(***************************************************************************)

\* cell_view_sql.ts "is the SQL form of can_view_cell": whatever has become of the cells
\* and their grants, each viewer is listed what cell_get would show it, what is shared
\* with it is among that and comes with a grant, and what links to a cell is named to
\* those who see where the link is.
ListsShowWhatGetShows ==
    \A v \in Viewers :
        LET viewer == Viewer(v)
        IN  /\ CellList(v, FALSE) = {c \in Cells : GetAdmits(v, c)}
            /\ CellList(v, TRUE) \subseteq CellList(v, FALSE)
            /\ \A c \in CellList(v, TRUE) : GrantsForCaller(viewer, c) # {}
            /\ \A c \in Children :
                LinkedFrom(viewer, c) # {} =>
                    cell[Parent].live /\ CanView(v, Parent, cell[Parent], grants[Parent])

\* The bundle and the pages skip a link whose target the reader may not see, and count
\* only the others: nothing is shown that the reader could not see at some time in the
\* walk, and once it ends every link that stayed, to a cell that it could see all along,
\* has been shown, whatever has come, gone and moved around it: but for a cell that was
\* published, and its grant revoked, between the two statements of a bundle.
WalksShowWhatIsThere ==
    /\ {l.child : l \in shown} \subseteq sighted
    /\ walk.stage \in {"bundled", "walked"} => steady \subseteq shown
=============================================================================
