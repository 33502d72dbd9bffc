---------------------------- MODULE LibraryAdmin ----------------------------
(***************************************************************************)
(* Library with the pages and tasks that write the rows of its owners.     *)
(*                                                                         *)
(* The forms for an organization, a registrar and a profile save every     *)
(* column of the row they loaded, the cached counts among them, whatever   *)
(* _transfer has done since.  The tasks reconcile_*_link_counts count the  *)
(* links, compare with the rows, and write those that differ.  The task    *)
(* fix_cached_folder_path writes a path it has computed.  None takes a lock. *)
(***************************************************************************)
EXTENDS Library

\* What a request has loaded of the counts of some rows.
Of(owners) == [o \in Owners |-> IF o \in owners THEN link_count[o] ELSE 0]
OfRegistrars(gs) == [g \in Registrars |-> IF g \in gs THEN registrar_count[g] ELSE 0]

\* The row of a registrar has both counts.
SponsorRow(g) == {g} \cap Sponsors

----------------------------------------------------------------------------
(* Forms.                                                                  *)

\* manage_single_organization; only staff's form has a registrar to choose.
LoadEditOrganization(r, o, g) ==
    /\ ~user_deleted[o]
    /\ Load(r, [stage |-> "save", kind |-> "edit_organization", row |-> o,
                counts |-> Of({o}), from |-> registrar[o], to |-> g])

\* manage_single_organization_delete
LoadDeleteOrganization(r, o) ==
    /\ ~user_deleted[o]
    /\ Load(r, [stage |-> "read", kind |-> "delete_organization", row |-> o,
                counts |-> Of({o}), from |-> registrar[o], to |-> registrar[o]])

\* manage_single_registrar
LoadEditRegistrar(r, g) ==
    Load(r, [stage |-> "save", kind |-> "edit_registrar", row |-> g,
             counts |-> Of(SponsorRow(g)), registrar_counts |-> OfRegistrars({g})])

\* settings_profile, and every other page that saves a user.
LoadEditUser(r) ==
    Load(r, [stage |-> "save", kind |-> "edit_user", row |-> Personal,
             counts |-> Of({Personal})])

LinksOf(o) == {l \in Live : organization[l] = o}

\* target_org.links.count() == 0
MayDelete(o) == LinksOf(o) = {}

CountLinks(r) ==
    /\ req[r].stage = "read" /\ req[r].kind = "delete_organization"
    /\ req' = IF MayDelete(req[r].row) THEN [req EXCEPT ![r].stage = "save"]
              ELSE [req EXCEPT ![r] = NoReq]
    /\ UNCHANGED <<folderVars, linkVars, countVars, orgVars, lock, made, past>>

Written(r, owners) == [o \in Owners |-> IF o \in owners THEN req[r].counts[o] ELSE link_count[o]]
WrittenOfRegistrars(r, gs) ==
    [g \in Registrars |-> IF g \in gs THEN req[r].registrar_counts[g] ELSE registrar_count[g]]

\* Mutant: the new registrar is not told of the links it gains.
NoRegistrarChange(old, new, n) == registrar_count

\* org_registrar_changed, on the count that the same save has just written.
RegistrarChanged(old, new, n) == Transfer(registrar_count, old, new, n)

\* Organization.save has found that the name has changed and loads the shared folder.
ReadShared(r) ==
    /\ req[r].stage = "save" /\ req[r].kind = "edit_organization"
    /\ req[r].folder = NoFolder
    /\ \E f \in Roots \cap folders :
          /\ owner[f] = req[r].row
          /\ req' = [req EXCEPT ![r].folder = f, ![r].copy = RowOf(f)]
    /\ UNCHANGED <<folderVars, linkVars, countVars, orgVars, lock, made, past>>

\* Organization.save: all columns, user_deleted among them, and all of the shared
\* folder's to rename it.
SaveOrganization(r) ==
    LET o == req[r].row
        renaming == req[r].folder # NoFolder
        deleting == req[r].kind = "delete_organization"
        overtaken == \/ req[r].counts[o] # link_count[o] \/ req[r].from # registrar[o]
                     \/ user_deleted[o]
    IN
    /\ req[r].stage = "save"
    /\ req[r].kind \in {"edit_organization", "delete_organization"}
    /\ registrar' = [registrar EXCEPT ![o] = req[r].to]
    /\ user_deleted' = [user_deleted EXCEPT ![o] = deleting]
    /\ link_count' = Written(r, {o})
    /\ registrar_count' = RegistrarChanged(req[r].from, req[r].to, req[r].counts[o])
    /\ IF renaming THEN MaySave(r, req[r].folder, req[r].copy)
                        /\ SaveRow(req[r].folder, req[r].copy)
                   ELSE UNCHANGED folderVars
    /\ past' = [past EXCEPT
          !.unlocked = @ \/ (renaming /\ Undoes(req[r].folder, req[r].copy)),
          !.rows = @
          \cup (IF overtaken THEN {"organizations", "registrars"} ELSE {})
          \cup (IF \/ deleting /\ LinksOf(o) # {}
                   \/ req[r].from # req[r].to /\ "organizations" \in past.rows
                THEN {"registrars"} ELSE {})]
    /\ End(r)
    /\ UNCHANGED <<linkVars, made>>

SaveRegistrar(r) ==
    LET g == req[r].row
        owners == SponsorRow(g)
    IN
    /\ req[r].stage = "save" /\ req[r].kind = "edit_registrar"
    /\ link_count' = Written(r, owners)
    /\ registrar_count' = WrittenOfRegistrars(r, {g})
    /\ past' = [past EXCEPT !.rows = @ \cup
          (IF link_count' = link_count /\ registrar_count' = registrar_count
           THEN {} ELSE {"registrars"})]
    /\ End(r)
    /\ UNCHANGED <<folderVars, linkVars, orgVars, made>>

SaveUser(r) ==
    /\ req[r].stage = "save" /\ req[r].kind = "edit_user"
    /\ link_count' = Written(r, {Personal})
    /\ past' = [past EXCEPT !.rows = @ \cup (IF link_count' = link_count THEN {} ELSE {"users"})]
    /\ End(r)
    /\ UNCHANGED <<folderVars, linkVars, registrar_count, orgVars, made>>

----------------------------------------------------------------------------
(* reconcile_user_link_counts, reconcile_organization_link_counts and       *)
(* reconcile_registrar_link_counts.                                         *)

\* The rows of a table with a link_count, or a sponsored_link_count.
RowsOf(table) ==
    CASE table = "users" -> {Personal}
      [] table = "organizations" -> {o \in Orgs : ~user_deleted[o]}
      [] table = "registrars" -> Sponsors

CountedOfRegistrar(g) ==
    Count({l \in Live : organization[l] \in {o \in Orgs : registrar[o] = g}})

Counted(table) ==
    [o \in Owners |->
        IF table = "users" /\ o = Personal THEN Count(Live)
        ELSE IF table = "organizations" /\ o \in Orgs THEN Count(LinksOf(o))
        ELSE IF table = "registrars" /\ o \in Sponsors
        THEN Count({l \in Live : \E f \in place[l] : owner[f] = o})
        ELSE 0]
CountedOfRegistrars(table) ==
    [g \in Registrars |-> IF table = "registrars" THEN CountedOfRegistrar(g) ELSE 0]

LoadReconcile(r, table) ==
    Load(r, [stage |-> "read", kind |-> "reconcile", row |-> table,
             counts |-> Counted(table), registrar_counts |-> CountedOfRegistrars(table)])

\* A registrar is among the rows when either of its counts differs.
Compare(r) ==
    LET table == req[r].row
        rows == {o \in RowsOf(table) : link_count[o] # req[r].counts[o]}
                  \cup {g \in Registrars :
                          /\ table = "registrars"
                          /\ registrar_count[g] # req[r].registrar_counts[g]}
    IN
    /\ req[r].stage = "read" /\ req[r].kind = "reconcile"
    /\ req' = [req EXCEPT ![r].stage = "save", ![r].rows = rows]
    /\ UNCHANGED <<folderVars, linkVars, countVars, orgVars, lock, made, past>>

\* bulk_update.  It has repaired the table if no link and no row that it left alone
\* has changed since; organizations that are deleted count for registrars here only.
Reconcile(r) ==
    LET table == req[r].row
        gs == req[r].rows \cap Registrars
        quiet == /\ Counted(table) = req[r].counts
                 /\ CountedOfRegistrars(table) = req[r].registrar_counts
                 /\ \A o \in RowsOf(table) \ req[r].rows : link_count[o] = req[r].counts[o]
                 /\ table = "registrars" =>
                      /\ \A g \in Registrars \ gs : registrar_count[g] = req[r].registrar_counts[g]
                      /\ \A o \in Orgs : user_deleted[o] => LinksOf(o) = {}
    IN
    /\ req[r].stage = "save" /\ req[r].kind = "reconcile"
    /\ link_count' = Written(r, req[r].rows \cap RowsOf(table))
    /\ registrar_count' = WrittenOfRegistrars(r, gs)
    /\ past' = [past EXCEPT !.rows = IF quiet THEN @ \ {table} ELSE @ \cup {table}]
    /\ End(r)
    /\ UNCHANGED <<folderVars, linkVars, orgVars, made>>

----------------------------------------------------------------------------
(* fix_cached_folder_path                                                  *)

LoadFixPath(r, f) ==
    /\ f \in folders
    /\ Load(r, [stage |-> "read", kind |-> "fix_path", folder |-> f,
                path |-> cached_path[f], new_root |-> tree_root[f]])

\* get_path looks among the folders of the tree_root that was loaded; if the folder
\* is not there, the task looks at all of them, and writes tree_root as well.
ComputePath(r) ==
    LET f == req[r].folder
        path == Path(parent, f)
        there == \A i \in DOMAIN path : tree_root[path[i]] = req[r].new_root
    IN
    /\ req[r].stage = "read" /\ req[r].kind = "fix_path"
    /\ req' = [req EXCEPT ![r] =
          IF f \notin folders \/ parent[path[1]] # NoFolder \/ (there /\ path = @.path)
          THEN NoReq
          ELSE [@ EXCEPT !.stage = "save", !.path = path,
                         !.new_root = IF there THEN NoFolder ELSE path[1]]]
    /\ UNCHANGED <<folderVars, linkVars, countVars, orgVars, lock, made, past>>

\* save(update_fields=...)
SavePath(r) ==
    LET f == req[r].folder
        root == req[r].new_root
    IN
    /\ req[r].stage = "save" /\ req[r].kind = "fix_path"
    /\ f \in folders /\ Free(r, {f})
    /\ cached_path' = [cached_path EXCEPT ![f] = req[r].path]
    /\ tree_root' = IF root = NoFolder THEN tree_root ELSE [tree_root EXCEPT ![f] = root]
    /\ past' = [past EXCEPT !.unlocked = @ \/ Path(parent, f) # req[r].path]
    /\ End(r)
    /\ UNCHANGED <<folders, spent, parent, owner, cached_has_children, linkVars, countVars,
                   orgVars, made>>

----------------------------------------------------------------------------

BeginAdmin(r) ==
    \/ \E o \in Orgs : LoadDeleteOrganization(r, o)
    \/ \E o \in Orgs, g \in Registrars : LoadEditOrganization(r, o, g)
    \/ \E g \in Registrars : LoadEditRegistrar(r, g)
    \/ LoadEditUser(r)
    \/ \E table \in Tables : LoadReconcile(r, table)
    \/ \E f \in folders : LoadFixPath(r, f)

Administering(r) ==
    \/ CountLinks(r) \/ ReadShared(r) \/ SaveOrganization(r) \/ SaveRegistrar(r) \/ SaveUser(r)
    \/ Compare(r) \/ Reconcile(r) \/ ComputePath(r) \/ SavePath(r)

AdminNext == Next \/ \E r \in Requests : BeginAdmin(r) \/ Administering(r)

AdminSpec == Init /\ [][AdminNext]_vars

=============================================================================
