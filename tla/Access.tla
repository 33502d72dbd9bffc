------------------------------- MODULE Access -------------------------------
(***************************************************************************)
(* What an account may see and change.  The same rule is written several   *)
(* times over: as a query for lists, as a predicate for single objects,    *)
(* as a choice of a form, in an order of cases (staff, registrar, member)  *)
(* that differs from one to the next.  The rules are operators on an       *)
(* account and on a world of organizations; the accounts they are checked  *)
(* for are those Memberships can reach.                                    *)
(***************************************************************************)
EXTENDS Memberships

CONSTANT OtherOrgs    \* organizations the modelled account does not join

ASSUME AccessAssumption == OtherOrgs \cap (Orgs \cup {NoOrg}) = {}

AllOrgs == Orgs \cup OtherOrgs

Account == [staff: BOOLEAN, registrar: Registrars \cup {NoRegistrar},
            orgs: SUBSET AllOrgs, sponsors: SUBSET Registrars]

\* A world: which organizations are not user_deleted, and the registrar of each.
Worlds(live) == [live: {live}, registrar: [AllOrgs -> Registrars]]

\* What a folder has of its tree: owned_by, for the account in question, or an
\* organization; and the sponsor of a sponsored folder.
FolderFields ==
    [mine: BOOLEAN, org: {NoOrg}, sponsor: Registrars \cup {NoRegistrar}]
      \cup [mine: {FALSE}, org: AllOrgs, sponsor: {NoRegistrar}]

----------------------------------------------------------------------------
(* Kinds of accounts.  user.organizations leaves deleted organizations out. *)

organizations(u, w) == u.orgs \cap w.live
is_organization_user(u, w) == organizations(u, w) # {}
is_registrar_user(u) == u.registrar # NoRegistrar

allow_staff_or_registrar(u) == u.staff \/ is_registrar_user(u)
allow_staff_registrar_or_org_user(u, w) ==
    allow_staff_or_registrar(u) \/ is_organization_user(u, w)

RegistrarOrgs(r, w) == {o \in w.live : w.registrar[o] = r}

get_orgs(u, w) ==
    IF is_organization_user(u, w) THEN organizations(u, w)
    ELSE IF is_registrar_user(u) THEN RegistrarOrgs(u.registrar, w)
    ELSE IF u.staff THEN w.live ELSE {}

----------------------------------------------------------------------------
(* Folders and the links in them.                                           *)

\* Mutant: a user without a registrar matches the folders without a sponsor.
FolderQueryOfNone(u, w, f) ==
    \/ u.staff \/ f.mine
    \/ f.org \in get_orgs(u, w)
    \/ f.sponsor = u.registrar

\* FolderQuerySet.user_access_filter
FolderQuery(u, w, f) ==
    \/ u.staff \/ f.mine
    \/ f.org \in get_orgs(u, w)
    \/ is_registrar_user(u) /\ f.sponsor = u.registrar

\* Folder.accessible_to; the registrar of a deleted organization is still found.
FolderAccessible(u, w, f) ==
    \/ u.staff \/ f.mine
    \/ f.sponsor # NoRegistrar /\ f.sponsor = u.registrar
    \/ /\ f.sponsor = NoRegistrar /\ f.org # NoOrg
       /\ IF is_registrar_user(u) THEN w.registrar[f.org] = u.registrar
          ELSE f.org \in organizations(u, w)

\* LinkQuerySet.user_access_filter, of a link in f.
LinkQuery(u, w, f) == u.staff \/ f.mine \/ f.org \in get_orgs(u, w)

can_edit(u, w, f) == u.staff \/ FolderQuery(u, w, f)

\* /folders/:id/archives, where the folder is request.parent, and /archives.
load_links(u, w, f) == FolderAccessible(u, w, f) \/ LinkQuery(u, w, f)

\* get_folder_from_request of POST and PATCH.
get_folder_from_request(u, w, f) == FolderQuery(u, w, f)

\* The folders that the field of a serializer takes: parent, target_folder.
scope_folder_relationship(u, w, f) == FolderQuery(u, w, f)

\* get_object_for_user, for a folder and for a link in it.
OpensFolder(u, w, f) == FolderAccessible(u, w, f)
OpensLink(u, w, f) == can_edit(u, w, f)

\* A link of folder f: public, or private for a reason. Link.save gives a private
\* link the reason "user" when it has none.
Reasons == {"user", "meta", "meta_perma", "domain", "takedown", "failure", "flagged"}
LinkFields == [is_private: {FALSE}, private_reason: {"none"}]
                \cup [is_private: {TRUE}, private_reason: Reasons]

can_view(u, w, f, l) == ~l.is_private \/ can_edit(u, w, f)

\* The button of a link's page; no link has the other reason it allows.
can_toggle_private(u, w, f, l) ==
    /\ can_edit(u, w, f)
    /\ l.is_private /\ ~u.staff => l.private_reason = "user"

\* PATCH of is_private: AuthenticatedLinkSerializer.validate.
change_privacy(u, w, f, l) ==
    /\ OpensLink(u, w, f)
    /\ u.staff \/ l.private_reason \in {"none", "user", "meta"}

\* The downloads, from a link's page and from /archives/:guid/download.
stream_archive_if_permissible(u, w, f, l) == can_view(u, w, f, l)
AuthenticatedLinkDownload(u, w, f, l) ==
    OpensLink(u, w, f) /\ stream_archive_if_permissible(u, w, f, l)

\* GET /folders lists the shared folders of get_orgs besides the user's own.
top_level_folders(u, w) ==
    {f \in FolderFields : f.mine \/ f.org \in get_orgs(u, w)}

----------------------------------------------------------------------------
(* Organizations.                                                           *)

\* OrganizationQuerySet.user_access_filter
OrganizationQuery(u, w) ==
    IF is_organization_user(u, w) THEN organizations(u, w)
    ELSE IF is_registrar_user(u) THEN RegistrarOrgs(u.registrar, w)
    ELSE IF u.staff THEN w.live ELSE {}

\* Organization.accessible_to
OrganizationAccessible(u, w, o) ==
    \/ u.staff
    \/ IF is_registrar_user(u) THEN w.registrar[o] = u.registrar ELSE o \in u.orgs

can_edit_organization(u, w, o) ==
    \/ u.staff
    \/ IF is_registrar_user(u) THEN w.registrar[o] = u.registrar
       ELSE o \in organizations(u, w)

\* The list of organizations, and the page of one, to edit or to delete it.
manage_organization(u, w) ==
    IF allow_staff_registrar_or_org_user(u, w) THEN OrganizationQuery(u, w) ELSE {}
manage_single_organization(u, w, o) ==
    allow_staff_registrar_or_org_user(u, w) /\ o \in w.live /\ can_edit_organization(u, w, o)

\* The organizations the form offers to add a new user to, those the form for
\* many users offers, and those offered for t, who has an account.
FormOrganizations(u, w) ==
    IF is_registrar_user(u) THEN RegistrarOrgs(u.registrar, w)
    ELSE IF is_organization_user(u, w) THEN organizations(u, w) ELSE w.live
BulkFormOrganizations(u, w) ==
    IF is_registrar_user(u) THEN RegistrarOrgs(u.registrar, w)
    ELSE IF is_organization_user(u, w) THEN organizations(u, w) ELSE w.live
OrganizationsToAdd(u, w, t) ==
    (IF is_registrar_user(u) THEN RegistrarOrgs(u.registrar, w)
     ELSE IF is_organization_user(u, w) THEN organizations(u, w) ELSE w.live) \ t.orgs

\* The affiliations an account sees of its own, to edit or to leave.
settings_affiliations(u, w) ==
    IF is_registrar_user(u) \/ is_organization_user(u, w) THEN organizations(u, w) ELSE {}
MayLeave(u, w, o) ==
    is_organization_user(u, w) /\ o \in OrganizationQuery(u, w)

settings_organizations_change_privacy(u, w, o) ==
    allow_staff_registrar_or_org_user(u, w) /\ o \in OrganizationQuery(u, w)

----------------------------------------------------------------------------
(* Pages.  A view tests its user, the mixins of the forms do, and the menu  *)
(* decides what to offer; each has a table of its own.                      *)

Groups == {"organization_user", "registrar_user", "sponsored_user", "admin_user", "user"}

\* user_passes_test_or_403, before the list of a group.
ListTest(u, w, group) ==
    CASE group = "organization_user" -> allow_staff_registrar_or_org_user(u, w)
      [] group \in {"registrar_user", "sponsored_user"} -> allow_staff_or_registrar(u)
      [] OTHER -> u.staff

\* RequireOrgOrRegOrAdminUser, RequireRegOrAdminUser and RequireAdminUser, of the
\* forms a list leads to.
AddTest(u, w, group) ==
    CASE group = "organization_user" -> allow_staff_registrar_or_org_user(u, w)
      [] group \in {"registrar_user", "sponsored_user"} -> allow_staff_or_registrar(u)
      [] OTHER -> u.staff

\* build_user_management_ui: the sidebar, beside every list.
Sidebar(u, w) ==
    IF ~allow_staff_registrar_or_org_user(u, w) THEN {}
    ELSE {"organization_user"}
         \cup (IF u.staff THEN {"admin_user", "user"} ELSE {})
         \cup (IF allow_staff_or_registrar(u) THEN {"registrar_user", "sponsored_user"} ELSE {})

----------------------------------------------------------------------------
(* Other accounts: v looks at t.                                            *)

\* Mutant: separate filters match different organizations.
visible_orgs_or_deleted(v, w) ==
    IF v.staff THEN AllOrgs
    ELSE IF is_registrar_user(v) THEN {o \in AllOrgs : w.registrar[o] = v.registrar}
    ELSE v.orgs

visible_orgs(v, w) ==
    IF v.staff THEN w.live
    ELSE IF is_registrar_user(v) THEN RegistrarOrgs(v.registrar, w)
    ELSE organizations(v, w)

\* list_users_in_group, and the export of the list.
list_users_in_group(v, t, w, group) ==
    \/ /\ group = "organization_user" /\ allow_staff_registrar_or_org_user(v, w)
       /\ t.orgs \cap visible_orgs(v, w) # {}
    \/ /\ group = "registrar_user" /\ allow_staff_or_registrar(v)
       /\ is_registrar_user(t) /\ (v.staff \/ t.registrar = v.registrar)

list_sponsored_users(v, t) ==
    /\ allow_staff_or_registrar(v)
    /\ IF is_registrar_user(v) THEN v.registrar \in t.sponsors ELSE t.sponsors # {}

\* The affiliations and sponsorships the page of an account shows.
ShownOrgs(v, t, w) ==
    IF is_registrar_user(v) THEN t.orgs \cap RegistrarOrgs(v.registrar, w)
    ELSE IF is_organization_user(v, w) THEN t.orgs \cap organizations(v, w)
    ELSE t.orgs
ShownSponsors(v, t, w) ==
    IF is_registrar_user(v) THEN t.sponsors \cap {v.registrar}
    ELSE IF is_organization_user(v, w) THEN {} ELSE t.sponsors

edit_user_in_group(v, t, w) ==
    \/ ~is_registrar_user(v) /\ ~is_organization_user(v, w)
    \/ ShownOrgs(v, t, w) \cup ShownSponsors(v, t, w) # {}

\* The same page under the urls of each kind of account.
manage_single_user(v, t, w, group) ==
    /\ CASE group = "organization_user" -> allow_staff_registrar_or_org_user(v, w)
         [] group = "sponsored_user" -> allow_staff_or_registrar(v)
         [] OTHER -> v.staff
    /\ edit_user_in_group(v, t, w)

\* The rows of t in the exports of the lists, one for each organization or sponsor.
manage_organization_user_export_user_list(v, t, w) ==
    IF list_users_in_group(v, t, w, "organization_user") THEN t.orgs \cap visible_orgs(v, w)
    ELSE {}
manage_sponsored_user_export_user_list(v, t) ==
    IF ~list_sponsored_users(v, t) THEN {}
    ELSE IF is_registrar_user(v) THEN t.sponsors \cap {v.registrar} ELSE t.sponsors

manage_single_organization_export_user_list(v, t, w, o) ==
    manage_single_organization(v, w, o) /\ o \in t.orgs

shares_scope_with_user(v, t, w) ==
    IF is_organization_user(v, w) THEN organizations(v, w) \cap organizations(t, w) # {}
    ELSE IF is_registrar_user(v)
    THEN \/ v.registrar = t.registrar \/ v.registrar \in t.sponsors
         \/ t.orgs \cap RegistrarOrgs(v.registrar, w) # {}
    ELSE v.staff

\* The views that change or remove an affiliation, or change a sponsorship or
\* show its links, or take an account from its registrar.
MayChangeAffiliation(v, t, w, o) ==
    /\ o \in w.live
    /\ allow_staff_registrar_or_org_user(v, w)
    /\ can_edit_organization(v, w, o) /\ shares_scope_with_user(v, t, w)
MayChangeSponsorship(v, t, r) ==
    /\ allow_staff_or_registrar(v)
    /\ is_registrar_user(v) => (v.registrar \in t.sponsors /\ v.registrar = r)
MayRemoveFromRegistrar(v, t) == is_registrar_user(v) /\ v.registrar = t.registrar

resend_activation(v, t, w) ==
    allow_staff_registrar_or_org_user(v, w) /\ shares_scope_with_user(v, t, w)

\* build_user_management_ui: actions that lists offer to those who are not staff.
can_view_sponsored_user_links(v, group) == ~v.staff /\ group = "sponsored_user"
can_edit_remove_as_registrar(v) == is_registrar_user(v)

----------------------------------------------------------------------------
(* Properties.  Which accounts keep each is a constant; the modelled account *)
(* must be one of them, whatever organizations were deleted, and whatever    *)
(* memberships in deleted ones it has kept (organizations.clear and remove   *)
(* do not reach those).                                                      *)

Case == [live: SUBSET AllOrgs, account: Account]

Guises ==
    {[live |-> live,
      account |-> [staff |-> row.staff, registrar |-> row.registrar,
                   orgs |-> (Members \cap live) \cup (kept \ live),
                   sponsors |-> {r \in Registrars : sponsor[r].status # "none"}]]
     : live \in SUBSET AllOrgs, kept \in SUBSET AllOrgs}

\* The rules for folders and organizations agree on u.
Agree(u, w) ==
    /\ \A f \in FolderFields :
         /\ FolderQuery(u, w, f) => FolderAccessible(u, w, f)
         /\ f.org \in w.live \cup {NoOrg} =>
              /\ OpensFolder(u, w, f) =>
                   get_folder_from_request(u, w, f) /\ scope_folder_relationship(u, w, f)
              /\ load_links(u, w, f) => OpensLink(u, w, f)
         /\ \A l \in LinkFields :
              /\ LinkQuery(u, w, f) =>
                   can_view(u, w, f, l) /\ AuthenticatedLinkDownload(u, w, f, l)
              /\ can_toggle_private(u, w, f, l) => change_privacy(u, w, f, l)
              /\ can_toggle_private(u, w, f, l) =>
                   stream_archive_if_permissible(u, w, f, l)
    /\ \A f \in top_level_folders(u, w) : OpensFolder(u, w, f)
    /\ \A o \in w.live :
         /\ o \in manage_organization(u, w) <=> manage_single_organization(u, w, o)
         /\ o \in OrganizationQuery(u, w) <=> OrganizationAccessible(u, w, o)
         /\ AddTest(u, w, "organization_user") =>
              /\ o \in FormOrganizations(u, w) <=> can_edit_organization(u, w, o)
              /\ o \in BulkFormOrganizations(u, w) <=> can_edit_organization(u, w, o)
         /\ o \in settings_affiliations(u, w) =>
              MayLeave(u, w, o) /\ manage_single_organization(u, w, o)
         /\ manage_single_organization(u, w, o) =>
              settings_organizations_change_privacy(u, w, o)
    /\ \A group \in Groups :
         /\ group \in Sidebar(u, w) => ListTest(u, w, group)
         /\ ListTest(u, w, group) => group \in Sidebar(u, w) /\ AddTest(u, w, group)

\* What v is shown of t it can open, and what it may change it is shown.
ShownWorks(v, t, w) ==
    /\ list_users_in_group(v, t, w, "organization_user") =>
         manage_single_user(v, t, w, "organization_user")
    /\ list_sponsored_users(v, t) => manage_single_user(v, t, w, "sponsored_user")
    /\ (list_users_in_group(v, t, w, "organization_user") \/ list_sponsored_users(v, t)) =>
         /\ \A o \in ShownOrgs(v, t, w) \cap w.live : MayChangeAffiliation(v, t, w, o)
         /\ \A r \in ShownSponsors(v, t, w) : MayChangeSponsorship(v, t, r)
         /\ resend_activation(v, t, w)
    /\ list_users_in_group(v, t, w, "registrar_user") => resend_activation(v, t, w)
    /\ manage_organization_user_export_user_list(v, t, w) \subseteq ShownOrgs(v, t, w)
    /\ list_users_in_group(v, t, w, "organization_user") =>
         /\ ShownOrgs(v, t, w) \cap w.live \subseteq manage_organization_user_export_user_list(v, t, w)
         /\ (FormOrganizations(v, w) \ OrganizationsToAdd(v, w, t)) \subseteq ShownOrgs(v, t, w)
    /\ list_sponsored_users(v, t) =>
         manage_sponsored_user_export_user_list(v, t) = ShownSponsors(v, t, w)
    /\ \A o \in t.orgs :
         (MayChangeAffiliation(v, t, w, o)
            \/ manage_single_organization_export_user_list(v, t, w, o)) =>
         list_users_in_group(v, t, w, "organization_user")
    /\ can_view_sponsored_user_links(v, "sponsored_user") /\ list_sponsored_users(v, t) =>
         MayChangeSponsorship(v, t, v.registrar)
    /\ can_edit_remove_as_registrar(v) /\ list_users_in_group(v, t, w, "registrar_user") =>
         MayRemoveFromRegistrar(v, t)

\* Accounts of one kind, which may have kept memberships in deleted organizations.
OneKind(u, live) ==
    /\ u.staff => ~is_registrar_user(u)
    /\ allow_staff_or_registrar(u) => u.orgs \cap live = {}

Agreeing ==
    {[live |-> c.live, account |-> c.account] :
       c \in {x \in Case : \A w \in Worlds(x.live) : Agree(x.account, w)}}

Others(live) == {a \in Account : OneKind(a, live)}
Working ==
    {[live |-> c.live, account |-> c.account] :
       c \in {x \in Case : \A w \in Worlds(x.live), other \in Others(x.live) :
                ShownWorks(x.account, other, w) /\ ShownWorks(other, x.account, w)}}

\* Every account the views and tasks make is of one kind, so that the rules for
\* its folders, links and organizations agree: what a query lists opens, what
\* opens can be chosen in a form, and the reverse; except for the folders of
\* deleted organizations, which registrars' users still open.  An account that
\* overlapping requests or an approval made two kinds is excused.
AccessRulesAgree ==
    past.elevated \/ past.row \/ Guises \subseteq Agreeing

\* The accounts a list shows to staff, registrars and members can be opened by
\* them, with the actions the page offers, and those they may change are listed;
\* whether the modelled account looks or is looked at.
ListedOpens ==
    past.elevated \/ past.row \/ Guises \subseteq Working

=============================================================================
