-------------------------------- MODULE Cells -------------------------------
(***************************************************************************)
(* Cells, their grants, the moderation of contributions and the admission  *)
(* of references (cell_actions.ts, cell_grant_actions.ts, cell_field_-,    *)
(* cell_item_actions.ts and the queries below them).                       *)
(*                                                                         *)
(* A request is a transaction at READ COMMITTED: it reads the row of a     *)
(* cell, then its grants and what else its decision needs, and writes;     *)
(* other requests commit between these steps.  A cell's data is the set of *)
(* facts it refers to; its path and policy, which no decision here reads,  *)
(* are left out, and fields and items are both links.                      *)
(***************************************************************************)
EXTENDS Naturals, FiniteSets

CONSTANTS
    Actors, Admins,         \* actors; those with the global admin role
    Founder,                \* who has the first root
    Members,                \* actors with the role, in the scope, that grants can name
    Stewards,               \* actors the application lets speak for that scope
    Cells, Facts,
    Requests,
    Ops,                    \* the operations that are asked for
    MaxAsks                 \* bound: requests ever made

VARIABLES
    cell,           \* the rows, by id
    grant,          \* per cell and principal
    grants_made,    \* grants have ids of their own
    links,          \* fields and items: <<source, target>>
    held,           \* fact_holder: <<actor, fact>>
    req,            \* the requests
    asked,          \* how many there have been
    seen            \* history: the facts and cells each actor could see at some time

cell_vars == <<cell, grant, grants_made, links, held, req, asked, seen>>

Unset == "none"
NoCell == 0
Scope == "scope"
Principals == Actors \cup {Scope}
NoGrant == [level |-> Unset, id |-> 0]
Idle == [stage |-> "idle"]
Unborn == [live |-> FALSE, owner |-> Unset, visibility |-> "private", moderation |-> Unset,
           root |-> NoCell, refs |-> {}]

------------------------------------------------------------------------------
(***************************************************************************)
(* Who may do what (cell_authorize.ts, cell_steward.ts).                   *)
(***************************************************************************)

IsAdmin(a) == a \in Admins
IsOwner(a, row) == row.owner = a
HasAudience(row) == row.moderation \in {Unset, "approved"}

GrantAdmits(a, grants, levels) ==
    \E p \in {a} \cup (IF a \in Members THEN {Scope} ELSE {}) : grants[p].level \in levels

CanManage(a, row) == IsAdmin(a) \/ IsOwner(a, row)

CanView(a, row, grants) ==
    \/ CanManage(a, row)
    \/ /\ HasAudience(row)
       /\ row.visibility = "public" \/ GrantAdmits(a, grants, {"viewer", "editor"})

CanEdit(a, row, grants) ==
    CanManage(a, row) \/ (HasAudience(row) /\ GrantAdmits(a, grants, {"editor"}))

\* The manager of a live root looks at what waits under it, and at what was rejected.
StewardAdmits(a, row) ==
    /\ row.root # NoCell
    /\ row.moderation \in {"pending", "rejected"}
    /\ cell[row.root].live /\ CanManage(a, cell[row.root])

\* require_new_refs_held that asks whether anybody holds the fact.
RefsAreHeldBySomeone(a, base, refs) ==
    IsAdmin(a) \/ \A f \in refs \ base : \E b \in Actors : <<b, f>> \in held

\* require_new_refs_held, of an actor who writes refs where there were base.
RefsAreHeld(a, base, refs) == IsAdmin(a) \/ \A f \in refs \ base : <<a, f>> \in held

\* What an actor has seen: live cells, and the facts they refer to.
Nothing == [cells |-> {}, facts |-> {}]
Sighted(before, a, cells, grants) ==
    LET visible == {c \in Cells : cells[c].live /\ CanView(a, cells[c], grants[c])}
    IN  [cells |-> before.cells \cup visible,
         facts |-> before.facts \cup UNION {cells[c].refs : c \in visible}]

Observe == seen' = [a \in Actors |-> Sighted(seen[a], a, cell', grant')]

------------------------------------------------------------------------------
(***************************************************************************)
(* To begin with there is a root, public or private, of the facts that its *)
(* owner put, with or without a grant to another, and there may be a       *)
(* contribution to it that waits for its moderation.                       *)
(***************************************************************************)

Root(visibility) ==
    [Unborn EXCEPT !.live = TRUE, !.owner = Founder, !.visibility = visibility, !.refs = Facts]
Contribution(a) ==
    [Unborn EXCEPT !.live = TRUE, !.owner = a, !.root = 1, !.moderation = "pending"]

CellsInit ==
    /\ \E visibility \in {"private", "public"},
          second \in {Unborn} \cup {Contribution(a) : a \in Actors \ {Founder}} :
        cell = [c \in Cells |-> CASE c = 1 -> Root(visibility)
                                  [] c = 2 -> second
                                  [] OTHER -> Unborn]
    /\ \E to \in Actors \ {Founder}, level \in {Unset, "viewer", "editor"} :
        grant = [c \in Cells |-> [p \in Principals |->
                    IF c = 1 /\ p = to /\ level # Unset THEN [level |-> level, id |-> 1]
                    ELSE NoGrant]]
    /\ held = {Founder} \X Facts
    /\ grants_made = 1
    /\ links = {}
    /\ req = [r \in Requests |-> Idle]
    /\ asked = 0
    /\ seen = [a \in Actors |-> Sighted(Nothing, a, cell, grant)]

------------------------------------------------------------------------------
(***************************************************************************)
(* A request reads the row it is about.  A fact is put at any time.        *)
(***************************************************************************)

PutFact(a, f) ==
    /\ <<a, f>> \notin held
    /\ held' = held \cup {<<a, f>>}
    /\ seen' = [seen EXCEPT ![a].facts = @ \cup {f}]
    /\ UNCHANGED <<cell, grant, grants_made, links, req, asked>>

Wishes(op) ==
    CASE op = "create" -> [visibility : {"private", "public"}, refs : SUBSET Facts]
      [] op = "update" -> [visibility : {Unset, "private", "public"}, refs : SUBSET Facts]
      [] op = "clone" -> [refs : SUBSET Facts]
      [] op = "moderate" -> [moderation : {"approved", "rejected"}]
      [] op \in {"link", "unlink"} -> [target : Cells]
      [] op = "grant" -> [to : Principals, level : {"viewer", "editor"}]
      [] op = "revoke" -> [to : Principals]
      [] op = "delete" -> [to : {Unset}]

\* The first statement: the row of the cell (of a grant's cell, of the parent of a
\* contribution).  A cell that is gone is not found.  A history keeps whether its actor
\* could see the row there.
Ask(r, a, op, c) ==
    /\ req[r] = Idle /\ asked < MaxAsks
    /\ asked' = asked + 1
    /\ cell[c].live
    /\ \E wish \in Wishes(op) :
        /\ op = "revoke" => grant[c][wish.to] # NoGrant
        /\ req' = [req EXCEPT ![r] =
                    [stage |-> "read", op |-> op, actor |-> a, cell |-> c, row |-> cell[c],
                     saw |-> CanView(a, cell[c], grant[c]), wish |-> wish,
                     grant |-> IF op = "revoke" THEN grant[c][wish.to] ELSE NoGrant]]
    /\ UNCHANGED <<cell, grant, grants_made, links, held, seen>>

\* A root is created without reading a row.
AskRoot(r, a) ==
    /\ req[r] = Idle /\ asked < MaxAsks
    /\ asked' = asked + 1
    /\ \E wish \in Wishes("create") :
        /\ RefsAreHeld(a, {}, wish.refs)
        /\ req' = [req EXCEPT ![r] =
                    [stage |-> "admitted", op |-> "create", actor |-> a, cell |-> NoCell,
                     row |-> Unborn, saw |-> TRUE, wish |-> wish, grant |-> NoGrant, moderation |-> Unset]]
    /\ UNCHANGED <<cell, grant, grants_made, links, held, seen>>

------------------------------------------------------------------------------
(***************************************************************************)
(* It reads what its decision needs, and decides.                          *)
(***************************************************************************)

RootOf(q) == IF q.row.root = NoCell THEN q.cell ELSE q.row.root

\* A contribution: the parent is visible and its root live, and the application's
\* authorizer lets it in, to be moderated or not.
AdmitsCreate(q, moderation) ==
    /\ CanView(q.actor, q.row, grant[q.cell])
    /\ q.row.root = NoCell \/ cell[RootOf(q)].live
    /\ RefsAreHeld(q.actor, {}, q.wish.refs)
    /\ moderation \in {"pending", "approved"}

AdmitsUpdate(q) ==
    /\ CanEdit(q.actor, q.row, grant[q.cell])
    /\ q.wish.visibility \notin {Unset, q.row.visibility} => CanManage(q.actor, q.row)
    /\ RefsAreHeld(q.actor, q.row.refs, q.wish.refs)

AdmitsClone(q) ==
    /\ CanView(q.actor, q.row, grant[q.cell])
    /\ RefsAreHeld(q.actor, q.row.refs, q.wish.refs)

AdmitsModerate(q) ==
    /\ CanView(q.actor, q.row, grant[q.cell]) \/ StewardAdmits(q.actor, q.row)
    /\ q.row.root # NoCell
    /\ cell[q.row.root].live /\ CanManage(q.actor, cell[q.row.root])

\* A link: the source may be edited and the target seen.
AdmitsLink(q) ==
    /\ CanEdit(q.actor, q.row, grant[q.cell])
    /\ LET target == q.wish.target
       IN  cell[target].live /\ CanView(q.actor, cell[target], grant[target])

\* A grant is made by a manager, to another than the owner, of a cell with an audience.
AdmitsGrant(q) ==
    /\ CanManage(q.actor, q.row)
    /\ HasAudience(q.row)
    /\ q.wish.to # q.row.owner

\* It is revoked by a manager, by its grantee, or by a steward of the scope it names.
Steward(q) ==
    /\ ~CanManage(q.actor, q.row)
    /\ q.wish.to = Scope /\ q.actor \in Stewards
AdmitsRevoke(q) == CanManage(q.actor, q.row) \/ q.wish.to = q.actor \/ Steward(q)

Admits(q, moderation) ==
    CASE q.op = "create" -> AdmitsCreate(q, moderation)
      [] q.op = "update" -> AdmitsUpdate(q) /\ moderation = Unset
      [] q.op = "clone" -> AdmitsClone(q) /\ moderation = Unset
      [] q.op = "moderate" -> AdmitsModerate(q) /\ moderation = Unset
      [] q.op = "link" -> AdmitsLink(q) /\ moderation = Unset
      [] q.op \in {"delete", "unlink"} ->
            CanEdit(q.actor, q.row, grant[q.cell]) /\ moderation = Unset
      [] q.op = "grant" -> AdmitsGrant(q) /\ moderation = Unset
      [] q.op = "revoke" -> AdmitsRevoke(q) /\ moderation = Unset

Admit(r) ==
    LET q == req[r]
    IN  /\ q.stage = "read"
        /\ \E moderation \in {Unset, "pending", "approved"} :
            /\ Admits(q, moderation)
            /\ req' = [req EXCEPT ![r] =
                        [stage |-> "admitted", op |-> q.op, actor |-> q.actor, cell |-> q.cell,
                         row |-> q.row, saw |-> q.saw, wish |-> q.wish, grant |-> q.grant,
                         moderation |-> moderation]]
    /\ UNCHANGED <<cell, grant, grants_made, links, held, asked, seen>>

\* It is refused, not found, or its client is gone: the transaction rolls back.
GiveUp(r) ==
    /\ req[r] # Idle
    /\ req' = [req EXCEPT ![r] = Idle]
    /\ UNCHANGED <<cell, grant, grants_made, links, held, asked, seen>>

------------------------------------------------------------------------------
(***************************************************************************)
(* It writes and commits.  A write finds the row as it is now.             *)
(***************************************************************************)

Writes(r, op) == req[r].stage = "admitted" /\ req[r].op = op
Done(r) == req' = [req EXCEPT ![r] = Idle] /\ UNCHANGED asked

Unused(c) == cell[c] = Unborn /\ \A d \in Cells : cell[d] = Unborn => c <= d

Create(r) ==
    LET q == req[r]
        root == IF q.cell = NoCell THEN NoCell ELSE RootOf(q)
    IN  /\ Writes(r, "create") /\ Done(r)
        /\ \E c \in Cells :
            /\ Unused(c)
            /\ cell' = [cell EXCEPT ![c] =
                        [live |-> TRUE, owner |-> q.actor, root |-> root, refs |-> q.wish.refs,
                         visibility |-> IF q.moderation = "pending" THEN "private"
                                        ELSE q.wish.visibility,
                         moderation |-> q.moderation]]
        /\ UNCHANGED <<grant, grants_made, links, held>>
        /\ Observe

Update(r) ==
    LET q == req[r]
    IN  /\ Writes(r, "update") /\ Done(r)
        /\ cell[q.cell].live
        /\ cell' = [cell EXCEPT ![q.cell].refs = q.wish.refs,
                                ![q.cell].visibility =
                                    IF q.wish.visibility = Unset THEN @
                                    ELSE q.wish.visibility]
        /\ UNCHANGED <<grant, grants_made, links, held>>
        /\ Observe

Delete(r) ==
    LET q == req[r]
    IN  /\ Writes(r, "delete") /\ Done(r)
        /\ cell[q.cell].live
        /\ cell' = [cell EXCEPT ![q.cell].live = FALSE]
        /\ UNCHANGED <<grant, grants_made, links, held, seen>>

\* A clone is a root of its actor's own, as visible as its source, with the links
\* whose target the actor sees now.
Clone(r) ==
    LET q == req[r]
        of(c) == {link \in links : link[1] = q.cell /\ cell[link[2]].live
                                   /\ CanView(q.actor, cell[link[2]], grant[link[2]])}
    IN  /\ Writes(r, "clone") /\ Done(r)
        /\ \E c \in Cells :
            /\ Unused(c)
            /\ cell' = [cell EXCEPT ![c] = [Unborn EXCEPT !.live = TRUE, !.owner = q.actor,
                                                          !.refs = q.wish.refs,
                                                          !.visibility = q.row.visibility]]
            /\ links' = links \cup {<<c, link[2]>> : link \in of(c)}
        /\ UNCHANGED <<grant, grants_made, held>>
        /\ Observe

\* query_cell_set_moderation that forgets the state it moves from.
ModerateAnyState(r) ==
    LET q == req[r]
    IN  /\ Writes(r, "moderate") /\ Done(r)
        /\ cell[q.cell].live
        /\ cell' = [cell EXCEPT ![q.cell].moderation = q.wish.moderation,
                                ![q.cell].visibility =
                                    IF q.wish.moderation = "approved" THEN "public" ELSE @]
        /\ UNCHANGED <<grant, grants_made, links, held>>
        /\ Observe

Moderate(r) ==
    LET q == req[r]
    IN  /\ Writes(r, "moderate") /\ Done(r)
        /\ cell[q.cell].live
        /\ \/ cell[q.cell].moderation = "pending"
           \/ cell[q.cell].moderation = "approved" /\ q.wish.moderation = "rejected"
        /\ cell' = [cell EXCEPT ![q.cell].moderation = q.wish.moderation,
                                ![q.cell].visibility =
                                    IF q.wish.moderation = "approved" THEN "public" ELSE @]
        /\ UNCHANGED <<grant, grants_made, links, held>>
        /\ Observe

Link(r) ==
    LET q == req[r]
    IN  /\ Writes(r, "link") /\ Done(r)
        /\ links' = links \cup {<<q.cell, q.wish.target>>}
        /\ UNCHANGED <<cell, grant, grants_made, held, seen>>

Unlink(r) ==
    LET q == req[r]
    IN  /\ Writes(r, "unlink") /\ Done(r)
        /\ links' = links \ {<<q.cell, q.wish.target>>}
        /\ UNCHANGED <<cell, grant, grants_made, held, seen>>

\* A grant to a principal that has one moves that one's level.
Grant(r) ==
    LET q == req[r]
        old == grant[q.cell][q.wish.to]
    IN  /\ Writes(r, "grant") /\ Done(r)
        /\ grants_made' = IF old = NoGrant THEN grants_made + 1 ELSE grants_made
        /\ grant' = [grant EXCEPT ![q.cell][q.wish.to] =
                        [level |-> q.wish.level,
                         id |-> IF old = NoGrant THEN grants_made + 1 ELSE old.id]]
        /\ UNCHANGED <<cell, links, held>>
        /\ Observe

\* The grant that was read is deleted; for a steward, at the level that was read.
Revoke(r) ==
    LET q == req[r]
        now == grant[q.cell][q.wish.to]
    IN  /\ Writes(r, "revoke") /\ Done(r)
        /\ now.id = q.grant.id
        /\ Steward(q) => now.level = q.grant.level
        /\ grant' = [grant EXCEPT ![q.cell][q.wish.to] = NoGrant]
        /\ UNCHANGED <<cell, grants_made, links, held>>
        /\ Observe

CellsNext ==
    \/ \E a \in Actors, f \in Facts : PutFact(a, f)
    \/ \E r \in Requests, a \in Actors :
        \/ \E op \in Ops, c \in Cells : Ask(r, a, op, c)
        \/ AskRoot(r, a)
    \/ \E r \in Requests :
        \/ Admit(r) \/ GiveUp(r)
        \/ Create(r) \/ Update(r) \/ Delete(r) \/ Clone(r) \/ Moderate(r)
        \/ Link(r) \/ Unlink(r) \/ Grant(r) \/ Revoke(r)

CellsSpec == CellsInit /\ [][CellsNext]_cell_vars

------------------------------------------------------------------------------
(***************************************************************************)
(* Correctness.                                                            *)
(***************************************************************************)

\* require_new_refs_held's "the bytes were already readable through that cell" and
\* cell_field_set's check of its target, against every interleaving: what a request is
\* about to write, or has written, names only facts that its actor has put or could
\* see at some time, and links only to cells that its actor could see.  The row is
\* read before the grants, so a grant that comes between lets its actor keep, of
\* the row as it was read, what it never saw: a write in between may have removed it.
NoOneNamesWhatTheyNeverSaw ==
    \A r \in Requests :
        LET q == req[r]
        IN  q.stage = "admitted" /\ ~IsAdmin(q.actor) =>
                /\ q.op = "create" => q.wish.refs \subseteq seen[q.actor].facts
                /\ q.op \in {"update", "clone"} =>
                    q.wish.refs \ (IF q.saw THEN {} ELSE q.row.refs) \subseteq seen[q.actor].facts
                /\ q.op = "link" => q.wish.target \in seen[q.actor].cells

\* update_handler's comment: "An editor-grant holder may edit `data` but cannot flip the
\* cell's visibility".  An editor who sends back the visibility that was read writes
\* it, whatever the manager has made of it meanwhile.
EditorsDoNotFlipVisibility ==
    [][\A r \in Requests :
        Update(r) /\ ~CanManage(req[r].actor, cell[req[r].cell]) =>
            cell'[req[r].cell].visibility = cell[req[r].cell].visibility]_cell_vars

\* Two moderators may decide on one contribution at once; a rejection is final.
RejectedStaysRejected ==
    [][\A c \in Cells :
        cell[c].moderation = "rejected" => cell'[c].moderation = "rejected"]_cell_vars
=============================================================================
