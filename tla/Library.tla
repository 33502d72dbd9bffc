------------------------------- MODULE Library -------------------------------
(***************************************************************************)
(* Folders, the links in them, and the link counts of the organizations    *)
(* and sponsors that own the folders.                                      *)
(*                                                                         *)
(* What a folder inherits is denormalized: its tree_root, its owner, its   *)
(* cached_path, the organization of each link inside it.  Requests load    *)
(* request.parent and the link before their transaction begins, lock rows  *)
(* by one, read, and write.  PATCH and DELETE of a folder take no lock;    *)
(* PATCH, of a name or of a parent, writes every column as it loaded them. *)
(* The pages and tasks that write whole rows of organizations, registrars  *)
(* and users, counts included, are LibraryAdmin.                           *)
(***************************************************************************)
EXTENDS Integers, Sequences, FiniteSets, SequencesExt

CONSTANTS
    Requests,     \* web workers
    NoRequest,    \* the holder of a lock nobody holds
    Folders,      \* the top-level folders and those the users may create
    NoFolder,
    Roots,        \* top-level folders: personal, shared, sponsored
    Home,         \* the user's root_folder, one of Roots
    Start,        \* folders inside Home at the start, perhaps with links
    Links,
    NoLink,
    Orgs,         \* organizations
    Registrars,
    Sponsors,     \* those of them that sponsor the user
    Personal,     \* the user, owner of folders that belong to neither
    MaxRequests   \* bound: requests made

Owners == Orgs \cup Sponsors \cup {Personal}

ASSUME LibraryAssumption ==
    /\ IsFiniteSet(Folders) /\ IsFiniteSet(Links)
    /\ NoFolder \notin Folders /\ NoLink \notin Links /\ NoRequest \notin Requests
    /\ Roots \subseteq Folders /\ Start \subseteq Folders \ Roots /\ Home \in Roots
    /\ Orgs \cap Registrars = {} /\ Personal \notin Orgs \cup Registrars
    /\ Sponsors \subseteq Registrars
    /\ MaxRequests \in Nat

VARIABLES
    folders,              \* the folders that exist
    spent,                \* ids of folders that have existed
    parent,
    tree_root,
    owner,                \* organization or sponsored_by
    cached_path,          \* the path from the top, as a sequence
    cached_has_children,
    place,                \* Link.folders
    organization,         \* Link.organization, or Personal
    status,               \* whether a link exists and is not user_deleted
    registrar,            \* Organization.registrar
    user_deleted,         \* Organization.user_deleted
    link_count,           \* of the user and of organizations; sponsored_link_count
    registrar_count,      \* Registrar.link_count
    lock,                 \* holder of each folder's row lock
    req,                  \* what each request has loaded and read
    made,                 \* for the bound
    past                  \* history: what has happened outside the locks

folderVars == <<folders, spent, parent, tree_root, owner, cached_path,
                cached_has_children>>
linkVars == <<place, organization, status>>
countVars == <<link_count, registrar_count>>
orgVars == <<registrar, user_deleted>>
vars == <<folderVars, linkVars, countVars, orgVars, lock, req, made, past>>

----------------------------------------------------------------------------

Kind == {"create_folder", "put", "patch", "delete_folder", "create_link",
         "move_link", "edit_organization", "delete_organization", "edit_registrar",
         "edit_user", "reconcile", "fix_path"}
Stage == {"idle", "open", "lock", "read", "save"}
Tables == {"users", "organizations", "registrars"}
FolderOrNone == Folders \cup {NoFolder}

\* A row of the table of folders.
Row == [parent: FolderOrNone, tree_root: FolderOrNone, owner: Owners,
        cached_path: Seq(Folders), cached_has_children: BOOLEAN]
NoRow == [parent |-> NoFolder, tree_root |-> NoFolder, owner |-> Personal,
          cached_path |-> <<>>, cached_has_children |-> FALSE]
RowOf(f) == [parent |-> parent[f], tree_root |-> tree_root[f], owner |-> owner[f],
             cached_path |-> cached_path[f], cached_has_children |-> cached_has_children[f]]

\* parent_root, parent_owner, link_org: fields of the objects loaded at the start.
\* copy: the row of the folder as PATCH, or an organization's form, has loaded it.
\* subtree, new_root, new_owner, old_owner: read inside the transaction.
\* row, counts, registrar_counts, from, to, rows: what the writers of whole rows
\* have read (LibraryAdmin).
Request == [stage: Stage, kind: Kind \cup {"none"}, folder: FolderOrNone,
            parent: FolderOrNone, parent_root: FolderOrNone, parent_owner: Owners,
            link: Links \cup {NoLink}, link_org: Owners, todo: Seq(Folders),
            subtree: SUBSET Folders, new_root: FolderOrNone, new_owner: Owners,
            old_owner: Owners, row: Orgs \cup Registrars \cup Tables \cup {Personal},
            counts: [Owners -> Nat], registrar_counts: [Registrars -> Nat],
            from: Registrars \cup {Personal}, to: Registrars \cup {Personal},
            rows: SUBSET (Owners \cup Registrars), path: Seq(Folders), copy: Row]
NoCounts == [o \in Owners |-> 0]
NoRegistrarCounts == [g \in Registrars |-> 0]
NoReq == [stage |-> "idle", kind |-> "none", folder |-> NoFolder,
          parent |-> NoFolder, parent_root |-> NoFolder, parent_owner |-> Personal,
          link |-> NoLink, link_org |-> Personal, todo |-> <<>>, subtree |-> {},
          new_root |-> NoFolder, new_owner |-> Personal, old_owner |-> Personal,
          row |-> Personal, counts |-> NoCounts, registrar_counts |-> NoRegistrarCounts,
          from |-> Personal, to |-> Personal, rows |-> {}, path |-> <<>>, copy |-> NoRow]

TypeOK ==
    /\ folders \subseteq Folders /\ spent \subseteq Folders
    /\ parent \in [Folders -> FolderOrNone]
    /\ tree_root \in [Folders -> FolderOrNone]
    /\ owner \in [Folders -> Owners]
    /\ cached_path \in [Folders -> Seq(Folders)]
    /\ cached_has_children \in [Folders -> BOOLEAN]
    /\ place \in [Links -> SUBSET Folders]
    /\ organization \in [Links -> Orgs \cup {Personal}]
    /\ status \in [Links -> {"none", "live", "deleted"}]
    /\ registrar \in [Orgs -> Registrars]
    /\ user_deleted \in [Orgs -> BOOLEAN]
    /\ link_count \in [Owners -> Nat]
    /\ registrar_count \in [Registrars -> Nat]
    /\ lock \in [Folders -> Requests \cup {NoRequest}]
    /\ req \in [Requests -> Request]
    /\ made \in 0..MaxRequests
    /\ past \in [unlocked: BOOLEAN, stale: BOOLEAN, swept: BOOLEAN,
                rows: SUBSET Tables]

Init ==
    /\ folders = Roots \cup Start
    /\ spent = folders
    /\ parent = [f \in Folders |-> IF f \in Start THEN Home ELSE NoFolder]
    /\ tree_root = [f \in Folders |-> CASE f \in Roots -> f
                                       [] f \in Start -> Home
                                       [] OTHER -> NoFolder]
    /\ owner \in {o \in [Folders -> Owners] :
                    \A f \in Folders : o[f] = Personal <=> f \notin Roots \ {Home}}
    /\ cached_path = [f \in Folders |-> CASE f \in Roots -> <<f>>
                                         [] f \in Start -> <<Home, f>>
                                         [] OTHER -> <<>>]
    /\ cached_has_children = [f \in Folders |-> f = Home /\ Start # {}]
    /\ place \in [Links -> {{}} \cup {{f} : f \in Start}]
    /\ organization = [l \in Links |-> Personal]
    /\ status = [l \in Links |-> IF place[l] = {} THEN "none" ELSE "live"]
    /\ registrar \in [Orgs -> Registrars]
    /\ user_deleted = [o \in Orgs |-> FALSE]
    /\ link_count = [NoCounts EXCEPT ![Personal] = Cardinality({l \in Links : place[l] # {}})]
    /\ registrar_count = NoRegistrarCounts
    /\ lock = [f \in Folders |-> NoRequest]
    /\ req = [r \in Requests |-> NoReq]
    /\ made = 0
    /\ past = [unlocked |-> FALSE, stale |-> FALSE, swept |-> FALSE, rows |-> {}]

----------------------------------------------------------------------------
(* Trees.                                                                  *)

Children(par, f) == {g \in folders : par[g] = f}

\* f and the folders below it, among those of gs.
Below(f, gs) ==
    LET down[n \in 0..Cardinality(Folders)] ==
          IF n = 0 THEN {f}
          ELSE LET above == down[n - 1]
               IN above \cup {g \in gs : parent[g] \in above}
    IN down[Cardinality(Folders)]

\* get_descendants(include_self=True) of a folder loaded with that tree_root: among the
\* folders of that tree.
Subtree(f, root) ==
    LET tree == {g \in folders : tree_root[g] = root}
    IN IF f \in tree THEN Below(f, tree) ELSE {}

\* The path to f by the parents of par, cut where it does not end.
Path(par, f) ==
    LET up[n \in 0..Cardinality(Folders)] ==
          IF n = 0 THEN <<f>>
          ELSE LET path == up[n - 1]
                   above == par[path[1]]
               IN IF above = NoFolder THEN path ELSE <<above>> \o path
    IN up[Cardinality(Folders)]

Live == {l \in Links : status[l] = "live"}
LinksIn(fs) == {l \in Live : place[l] \cap fs # {}}

OrgOf(o) == IF o \in Orgs THEN o ELSE Personal
SponsorOf(o) == IF o \in Sponsors THEN o ELSE Personal

\* Link._sponsored_by_id, of the first folder that has one.
SponsoredBy(l) ==
    LET sponsors == {owner[f] : f \in place[l]} \cap Sponsors
    IN IF sponsors = {} THEN Personal ELSE CHOOSE o \in sponsors : TRUE

----------------------------------------------------------------------------
(* link_counts.py                                                          *)

\* Mutant: the guard of the subtraction is one too high.
TransferAbove(count, old, new, n) ==
    IF old = new THEN count
    ELSE [o \in DOMAIN count |->
            CASE o = Personal -> count[o]
              [] o = old /\ o # Personal /\ count[o] > n -> count[o] - n
              [] o = new /\ o # Personal -> count[o] + n
              [] OTHER -> count[o]]

\* _transfer: subtracts only from a count that is large enough.  No id is Personal.
Transfer(count, old, new, n) ==
    IF old = new THEN count
    ELSE [o \in DOMAIN count |->
            CASE o = Personal -> count[o]
              [] o = old /\ o # Personal /\ count[o] >= n -> count[o] - n
              [] o = new /\ o # Personal -> count[o] + n
              [] OTHER -> count[o]]

\* Organization.objects, which leaves out what is user_deleted.
OrgRow(o) == IF o \in Orgs /\ ~user_deleted[o] THEN o ELSE Personal
RegistrarOf(o) == IF OrgRow(o) = Personal THEN Personal ELSE registrar[o]

\* adjust_owner_link_counts, for owners that are organizations and sponsors, on
\* counts that adjust_user_link_count has been through.
Adjust(count, n, old_org, new_org, old_sponsor, new_sponsor) ==
    /\ link_count' = Transfer(Transfer(count, OrgRow(old_org), OrgRow(new_org), n),
                              old_sponsor, new_sponsor, n)
    /\ registrar_count' =
          Transfer(registrar_count, RegistrarOf(old_org), RegistrarOf(new_org), n)

OneMoreOfUser == [link_count EXCEPT ![Personal] = @ + 1]
OneLessOfUser == [link_count EXCEPT ![Personal] = IF @ >= 1 THEN @ - 1 ELSE @]

----------------------------------------------------------------------------
(* Requests.                                                               *)

Load(r, fields) ==
    /\ req[r].stage = "idle" /\ made < MaxRequests
    /\ made' = made + 1
    /\ req' = [req EXCEPT ![r] = [x \in DOMAIN NoReq |->
                 IF x \in DOMAIN fields THEN fields[x] ELSE NoReq[x]]]
    /\ UNCHANGED <<folderVars, linkVars, countVars, orgVars, lock, past>>

\* POST /folders: nothing is used of a parent that was loaded earlier.
LoadCreateFolder(r, f, p) ==
    /\ f \notin spent /\ \A q \in Requests : req[q].folder # f
    /\ p \in folders
    /\ Load(r, [stage |-> "lock", kind |-> "create_folder", folder |-> f, parent |-> p,
                todo |-> <<p>>])

\* load_parent reads the destination of PUT, before its transaction.  (Moves of
\* top-level folders, which validate_parent refuses, are not tried.)
LoadPut(r, f, p) ==
    /\ f \in folders \ Roots /\ p \in folders
    /\ Load(r, [stage |-> "lock", kind |-> "put", folder |-> f, parent |-> p,
                parent_root |-> tree_root[p], todo |-> <<f>>])

\* PATCH may change 'name' and 'parent' (allowed_update_fields); the parent of one that
\* leaves it alone, as every PATCH of a top-level folder does, is the one it has loaded.
LoadPatch(r, f, p) ==
    /\ f \in folders
    /\ p = parent[f] \/ (f \notin Roots /\ p \in folders)
    /\ Load(r, [stage |-> "read", kind |-> "patch", folder |-> f, parent |-> p,
                copy |-> RowOf(f)])

IsEmpty(f) == Children(parent, f) = {} /\ LinksIn({f}) = {}

LoadDeleteFolder(r, f) ==
    /\ f \in folders \ Roots /\ IsEmpty(f)
    /\ Load(r, [stage |-> "save", kind |-> "delete_folder", folder |-> f])

\* POST and PUT of a link load the destination, and PUT the link.  Only POST's
\* query leaves out the folders of deleted organizations.
LoadLink(r, kind, l, p) ==
    Load(r, [stage |-> "open", kind |-> kind, link |-> l, link_org |-> organization[l],
             parent |-> p, parent_root |-> tree_root[p], parent_owner |-> owner[p]])

LoadCreateLink(r, l, p) ==
    /\ status[l] = "none" /\ \A q \in Requests : req[q].link # l
    /\ owner[p] \in Orgs => ~user_deleted[owner[p]]
    /\ LoadLink(r, "create_link", l, p)

LoadMoveLink(r, l, p) ==
    /\ status[l] = "live"
    /\ LoadLink(r, "move_link", l, p)

Release(r) == lock' = [f \in Folders |-> IF lock[f] = r THEN NoRequest ELSE lock[f]]

End(r) ==
    /\ req' = [req EXCEPT ![r] = NoReq]
    /\ Release(r)

\* move_to_folder_for_user's transaction begins: it will lock the trees of the
\* folders that the link is in and that of the destination as it was loaded.
Open(r) ==
    LET here == IF req[r].kind = "create_link" THEN {Home} ELSE place[req[r].link]
        todo == SetToSeq({tree_root[f] : f \in here}) \o <<req[r].parent_root>>
    IN
    /\ req[r].stage = "open"
    /\ req' = [req EXCEPT ![r].stage = "lock", ![r].todo = todo]
    /\ UNCHANGED <<folderVars, linkVars, countVars, orgVars, lock, made, past>>

\* Mutant: PUT does not lock the destination's tree.
NextLocksOfOneTree(r) ==
    LET f == Head(req[r].todo) IN
    IF req[r].kind \in {"put", "create_folder"} /\ lock[f] # r
          /\ f \in {req[r].folder, req[r].parent}
    THEN <<tree_root[f]>> ELSE Tail(req[r].todo)

\* What PUT and POST lock after their first row, whose fields are read with it.
NextLocks(r) ==
    LET f == Head(req[r].todo) IN
    CASE req[r].kind = "put" /\ lock[f] # r /\ f = req[r].folder ->
           IF tree_root[f] = req[r].parent_root THEN <<tree_root[f]>>
           ELSE <<tree_root[f], req[r].parent_root>>
      [] req[r].kind = "create_folder" /\ f = req[r].parent /\ lock[f] # r ->
           <<tree_root[f]>>
      [] OTHER -> Tail(req[r].todo)

\* select_for_update().get(pk=...)
Lock(r) ==
    LET f == Head(req[r].todo)
        rest == NextLocks(r)
    IN
    /\ req[r].stage = "lock"
    /\ f \in folders /\ lock[f] \in {NoRequest, r}
    /\ lock' = [lock EXCEPT ![f] = r]
    /\ req' = [req EXCEPT ![r].todo = rest,
                          ![r].stage = IF rest # <<>> THEN "lock"
                                       ELSE IF req[r].kind = "put" THEN "read"
                                       ELSE "save"]
    /\ UNCHANGED <<folderVars, linkVars, countVars, orgVars, made, past>>

\* DoesNotExist, for a folder deleted since.
LockFails(r) ==
    /\ req[r].stage = "lock" /\ Head(req[r].todo) \notin folders
    /\ End(r)
    /\ UNCHANGED <<folderVars, linkVars, countVars, orgVars, made, past>>

----------------------------------------------------------------------------
(* Rows that are written wait for the locks of others.                     *)

Free(r, fs) == \A f \in fs : lock[f] \in {NoRequest, r}

\* A request that created or moved something has committed it here.
CreateFolder(r) ==
    LET f == req[r].folder
        p == req[r].parent
        par == [parent EXCEPT ![f] = p]
    IN
    /\ req[r].stage = "save" /\ req[r].kind = "create_folder"
    /\ p \in folders
    /\ folders' = folders \cup {f}
    /\ spent' = spent \cup {f}
    /\ parent' = par
    /\ tree_root' = [tree_root EXCEPT ![f] = tree_root[p]]
    /\ owner' = [owner EXCEPT ![f] = owner[p]]
    /\ cached_path' = [cached_path EXCEPT ![f] = Path(par, f)]
    /\ cached_has_children' = [cached_has_children EXCEPT ![p] = TRUE]
    /\ End(r)
    /\ UNCHANGED <<linkVars, countVars, orgVars, made, past>>

\* The folder as the request has it.  PUT has loaded it under its lock.
Copy(r) == IF req[r].kind = "put" THEN RowOf(req[r].folder) ELSE req[r].copy

\* super().save() of a folder: all its columns.  A row that is gone is inserted again.
SaveRow(f, row) ==
    /\ folders' = folders \cup {f}
    /\ parent' = [parent EXCEPT ![f] = row.parent]
    /\ tree_root' = [tree_root EXCEPT ![f] = row.tree_root]
    /\ owner' = [owner EXCEPT ![f] = row.owner]
    /\ cached_path' = [cached_path EXCEPT ![f] = row.cached_path]
    /\ cached_has_children' = [cached_has_children EXCEPT ![f] = row.cached_has_children]
    /\ UNCHANGED spent

\* It undoes what others have committed since the row was loaded.
Undoes(f, row) == f \notin folders \/ RowOf(f) # row

\* It waits for the lock of the row, and of those that its foreign keys newly name.
MaySave(r, f, row) ==
    /\ Free(r, {f})
    /\ f \notin folders \/ row.parent # parent[f] => Free(r, {row.parent} \cap Folders)
    /\ f \notin folders \/ row.tree_root # tree_root[f] => Free(r, {row.tree_root})

\* FolderSerializer.validate_parent
ValidParent(f, p, root) ==
    /\ f # p
    /\ p \notin Subtree(f, root)

\* The folders that Folder.save looks up are there.
Present(r) ==
    /\ {req[r].parent, Copy(r).parent} \ {NoFolder} \subseteq folders
    /\ req[r].kind = "put" => req[r].folder \in folders

\* The checks, and what Folder.save reads before it writes: the new parent's
\* fields, the organization it leaves, the folders of the subtree.
ReadMove(r) ==
    LET f == req[r].folder
        p == req[r].parent
        row == Copy(r)
    IN
    /\ req[r].stage = "read" /\ req[r].kind \in {"put", "patch"}
    /\ Present(r) /\ ValidParent(f, p, row.tree_root) /\ row.parent # p
    /\ req' = [req EXCEPT
          ![r].stage = "save",
          ![r].subtree = IF row.cached_has_children THEN Subtree(f, row.tree_root) ELSE {f},
          ![r].new_root = tree_root[p], ![r].new_owner = owner[p],
          ![r].old_owner = owner[row.parent]]
    /\ past' = [past EXCEPT !.unlocked = @ \/ req[r].kind = "patch"
                                           \/ req[r].parent_root # tree_root[p]]
    /\ UNCHANGED <<folderVars, linkVars, countVars, orgVars, lock, made>>

\* A PATCH of the name alone is checked less.
Refuse(r) ==
    /\ req[r].stage = "read" /\ req[r].kind \in {"put", "patch"}
    /\ ~Present(r) \/ ~ValidParent(req[r].folder, req[r].parent, Copy(r).tree_root)
    /\ End(r)
    /\ UNCHANGED <<folderVars, linkVars, countVars, orgVars, made, past>>

\* Folder.save of a folder whose parent has not changed: a PATCH of its name.
SaveFolder(r) ==
    LET f == req[r].folder
        row == Copy(r)
    IN
    /\ req[r].stage = "read" /\ req[r].kind \in {"put", "patch"}
    /\ Present(r) /\ req[r].parent = row.parent
    /\ MaySave(r, f, row)
    /\ SaveRow(f, row)
    /\ past' = [past EXCEPT !.unlocked = @ \/ Undoes(f, row)]
    /\ End(r)
    /\ UNCHANGED <<linkVars, countVars, orgVars, made>>

\* A column after the update of the folders fs.
Updated(column, fs, v) == [g \in Folders |-> IF g \in fs THEN v ELSE column[g]]

\* Folder.save of a folder whose parent has changed: its row, then its subtree's.
MoveFolder(r) ==
    LET f == req[r].folder
        p == req[r].parent
        row == Copy(r)
        old == row.parent
        sub == req[r].subtree \cap (folders \cup {f})
        par == [parent EXCEPT ![f] = p]
        moved == {l \in Links : place[l] \cap sub # {}}
    IN
    /\ req[r].stage = "save" /\ req[r].kind \in {"put", "patch"}
    /\ p \in folders /\ (req[r].kind = "put" => f \in folders)
    /\ Free(r, sub \cup {f, p, old})
    /\ folders' = folders \cup {f}
    /\ parent' = par
    /\ tree_root' = Updated([tree_root EXCEPT ![f] = row.tree_root], sub, req[r].new_root)
    /\ owner' = Updated([owner EXCEPT ![f] = row.owner], sub, req[r].new_owner)
    /\ cached_path' = [g \in Folders |-> IF g \in sub THEN Path(par, g)
                                         ELSE IF g = f THEN row.cached_path
                                         ELSE cached_path[g]]
    /\ cached_has_children' =
          [cached_has_children EXCEPT ![f] = row.cached_has_children, ![p] = TRUE,
                                      ![old] = Children(parent, old) \ {f} # {}]
    /\ organization' = [l \in Links |-> IF l \in moved \cap Live THEN OrgOf(req[r].new_owner)
                                        ELSE organization[l]]
    /\ Adjust(link_count, Cardinality(LinksIn(sub)),
              OrgOf(req[r].old_owner), OrgOf(req[r].new_owner),
              SponsorOf(row.owner), SponsorOf(req[r].new_owner))
    /\ End(r)
    /\ UNCHANGED <<spent, place, status, orgVars, made, past>>

\* The row of the folder or of its new parent is gone: DoesNotExist or
\* IntegrityError.
SaveFails(r) ==
    /\ req[r].stage = "save"
    /\ \/ /\ req[r].kind \in {"create_folder", "put", "patch", "create_link", "move_link"}
          /\ req[r].parent \notin folders
       \/ /\ req[r].kind \in {"put", "delete_folder", "fix_path"}
          /\ req[r].folder \notin folders
    /\ End(r)
    /\ UNCHANGED <<folderVars, linkVars, countVars, orgVars, made, past>>

\* Folder.delete, with everything below the folder.  Links are left behind.
DeleteFolder(r) ==
    LET f == req[r].folder
        gone == Below(f, folders)
        p == parent[f]
    IN
    /\ req[r].stage = "save" /\ req[r].kind = "delete_folder"
    /\ f \in folders /\ Free(r, gone \cup {p})
    /\ folders' = folders \ gone
    /\ place' = [l \in Links |-> place[l] \ gone]
    /\ parent' = [g \in Folders |-> IF g \in gone THEN NoFolder ELSE parent[g]]
    /\ cached_has_children' = [cached_has_children EXCEPT ![p] = Children(parent, p) \ gone # {}]
    /\ past' = [past EXCEPT !.swept = @ \/ gone # {f} \/ LinksIn(gone) # {}]
    /\ End(r)
    /\ UNCHANGED <<spent, tree_root, owner, cached_path, organization, status, countVars,
                   orgVars, made>>

\* Mutant: it leaves none.
FiledTwice(old, p) == old \cup {p}

\* The link leaves the folders the user can reach for the new one.
Refiled(old, p) == {p}

\* POST's serializer.save puts the link into the user's root folder and
\* link_created counts it; move_to_folder_for_user does the rest.
SaveLink(r) ==
    LET l == req[r].link
        p == req[r].parent
        new == req[r].parent_owner
    IN
    /\ req[r].stage = "save" /\ req[r].kind \in {"create_link", "move_link"}
    /\ p \in folders
    /\ place' = [place EXCEPT ![l] = Refiled(@, p)]
    /\ organization' = [organization EXCEPT ![l] = OrgOf(new)]
    /\ status' = [status EXCEPT ![l] = IF @ = "none" THEN "live" ELSE @]
    /\ Adjust(IF req[r].kind = "create_link" THEN OneMoreOfUser ELSE link_count,
              1, req[r].link_org, OrgOf(new), SponsoredBy(l), SponsorOf(new))
    /\ past' = [past EXCEPT !.stale = @ \/ req[r].link_org # organization[l]
                                        \/ new # owner[p]
                                        \/ (req[r].kind = "move_link" /\ status[l] # "live")]
    /\ End(r)
    /\ UNCHANGED <<folderVars, orgVars, made>>

\* DELETE of a link: it is read and counted under its own lock.
DeleteLink(l) ==
    /\ status[l] = "live" /\ made < MaxRequests
    /\ made' = made + 1
    /\ status' = [status EXCEPT ![l] = "deleted"]
    /\ Adjust(OneLessOfUser, 1, organization[l], Personal, SponsoredBy(l), Personal)
    /\ UNCHANGED <<folderVars, place, organization, orgVars, lock, req, past>>

----------------------------------------------------------------------------
(* PostgreSQL ends a deadlock by aborting one of its transactions.         *)

\* The rows a request will need next.
Needs(r) ==
    CASE req[r].stage = "lock" -> {Head(req[r].todo)}
      [] req[r].stage = "save" /\ req[r].kind \in {"put", "patch"} ->
           (req[r].subtree \cup {req[r].folder, req[r].parent, Copy(r).parent}) \cap folders
      [] OTHER -> {}

WaitsFor(r, q) == q # r /\ \E f \in Needs(r) : lock[f] = q

Abort(r) ==
    /\ \E q \in Requests : WaitsFor(r, q) /\ WaitsFor(q, r)
    /\ End(r)
    /\ UNCHANGED <<folderVars, linkVars, countVars, orgVars, made, past>>

----------------------------------------------------------------------------

Begin(r) ==
    \/ \E f \in Folders, p \in folders : LoadCreateFolder(r, f, p) \/ LoadPut(r, f, p)
    \/ \E f \in folders, p \in folders \cup {NoFolder} : LoadPatch(r, f, p)
    \/ \E f \in folders : LoadDeleteFolder(r, f)
    \/ \E l \in Links, p \in folders : LoadCreateLink(r, l, p) \/ LoadMoveLink(r, l, p)

Working(r) ==
    \/ Open(r) \/ Lock(r) \/ LockFails(r) \/ ReadMove(r) \/ Refuse(r)
    \/ SaveFolder(r) \/ CreateFolder(r) \/ MoveFolder(r) \/ SaveFails(r) \/ DeleteFolder(r)
    \/ SaveLink(r) \/ Abort(r)

Next ==
    \/ \E r \in Requests : Begin(r) \/ Working(r)
    \/ \E l \in Links : DeleteLink(l)

Spec == Init /\ [][Next]_vars

----------------------------------------------------------------------------
(* Properties.                                                             *)

Top(f) == Path(parent, f)[1]

\* Folders form trees, and what each inherits is what its tree says: as long as no
\* folder was moved by PATCH, or into a tree that its destination had left or
\* joined since load_parent read it, and none was saved, by a PATCH or with its
\* organization's name, over what others had changed since it was loaded (the locks
\* of FolderDetailView.put and post; past.unlocked).
TreesConsistent ==
    ~past.unlocked =>
        \A f \in folders :
            /\ Top(f) \in Roots
            /\ tree_root[f] = Top(f)
            /\ owner[f] = owner[Top(f)]
            /\ cached_path[f] = Path(parent, f)
            /\ cached_has_children[f] = (Children(parent, f) # {})

\* Fields and counts stay of their types, no count falls below zero, and the trees
\* are consistent.
LibraryInv == TypeOK /\ TreesConsistent

OwnedBy(o) == {l \in Live : \E f \in place[l] : owner[f] = o}

Count(ls) == Cardinality(ls)

\* The cached counts of the user, of organizations and of registrars are those the
\* reconcile_*_link_counts tasks would find, through moves and deletions of links,
\* folders and organizations, changes of registrar and aborted transactions: as long
\* as no request wrote a count, an owner or a registrar that it had loaded before
\* another one changed it.  A count so overwritten is exact again once a task that
\* nothing overlapped has run.
CountsExact ==
    /\ "users" \notin past.rows => link_count[Personal] = Count(Live)
    /\ ~past.unlocked /\ ~past.stale /\ ~past.swept =>
         /\ "organizations" \notin past.rows =>
              \A o \in Orgs : ~user_deleted[o] => link_count[o] = Count(OwnedBy(o))
         /\ "registrars" \notin past.rows =>
              /\ \A g \in Sponsors : link_count[g] = Count(OwnedBy(g))
              /\ \A g \in Registrars :
                   registrar_count[g] =
                     Count(UNION {OwnedBy(o) : o \in {p \in Orgs : RegistrarOf(p) = g}})

\* A live link is in exactly one folder, and belongs to that folder's organization.
LinksPlaced ==
    ~past.swept =>
        \A l \in Live :
            \E f \in folders :
                /\ place[l] = {f}
                /\ ~past.unlocked /\ ~past.stale => organization[l] = OrgOf(owner[f])

=============================================================================
