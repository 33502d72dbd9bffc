---------------------------- MODULE Memberships ----------------------------
(***************************************************************************)
(* What one account belongs to: staff, a registrar, organizations and      *)
(* sponsoring registrars, as the user-management views, the sign-up views  *)
(* and the nightly expiry tasks change it.                                 *)
(*                                                                         *)
(* Each view loads the row of the user, decides on that copy, and writes   *)
(* every column of it back with save(); affiliations and sponsorships are  *)
(* rows of their own, written before or after it, and no transaction spans *)
(* a view.                                                                 *)
(***************************************************************************)
EXTENDS Integers, FiniteSets, FiniteSetsExt

CONSTANTS
    Requests,
    Orgs,
    Registrars,
    Approved,      \* registrars that are approved from the start
    NoRegistrar,
    NoOrg,
    MaxRequests    \* bound: requests that are served

ASSUME MembershipsAssumption ==
    /\ IsFiniteSet(Registrars) /\ NoRegistrar \notin Registrars /\ NoOrg \notin Orgs
    /\ Approved \subseteq Registrars /\ MaxRequests \in Nat

VARIABLES
    row,       \* the user's row
    orgs,      \* the user's affiliations, by organization
    sponsor,   \* the user's sponsorships, by registrar
    folder,    \* the sponsored folder of each registrar
    approved,  \* approved registrars
    request,   \* what each web worker does
    served,    \* for the bound
    past       \* history: what excuses a broken promise

tables == <<row, orgs, sponsor, folder, approved>>
vars == <<tables, request, served, past>>

----------------------------------------------------------------------------

\* sponsored_root is the number of a root folder, or 0.
Roots == Nat
User == [exists: BOOLEAN, confirmed: BOOLEAN, active: BOOLEAN, staff: BOOLEAN,
         registrar: Registrars \cup {NoRegistrar},
         pending: Registrars \cup {NoRegistrar}, sponsored_root: Roots]
NoUser == [exists |-> FALSE, confirmed |-> FALSE, active |-> FALSE, staff |-> FALSE,
           registrar |-> NoRegistrar, pending |-> NoRegistrar, sponsored_root |-> 0]
NewUser == [NoUser EXCEPT !.exists = TRUE]

\* expires_at of an affiliation or sponsorship: none, to come, or gone by.
Due == {"never", "later", "past"}
Affiliation == Due \cup {"none"}
Sponsorship == [status: {"none", "active", "inactive"}, due: Due]
NoSponsorship == [status |-> "none", due |-> "never"]

\* A sponsored folder and the root it is under, 0 while there is none.
Folder == [root: Roots, read_only: BOOLEAN]
NoFolder == [root |-> 0, read_only |-> FALSE]

\* A request that writes a user's row writes copy, a new row if new, and then
\* goes on to another table.
Request == [at: {"idle", "members", "row", "approve", "join", "redate", "sponsor",
                 "affiliation", "sponsorship", "delete"},
            then: {"idle", "join", "sponsor"}, new: BOOLEAN,
            org: Orgs \cup {NoOrg}, registrar: Registrars \cup {NoRegistrar},
            copy: User, known: Sponsorship, edit: Sponsorship, stale: BOOLEAN]
Idle == [at |-> "idle", then |-> "idle", new |-> FALSE, org |-> NoOrg,
         registrar |-> NoRegistrar, copy |-> NoUser, known |-> NoSponsorship,
         edit |-> NoSponsorship, stale |-> FALSE]

Members == {o \in Orgs : orgs[o] # "none"}

\* is_active and is_confirmed: what logging in asks for.
MayLogIn(u) == u.exists /\ u.active /\ u.confirmed

\* AddUserToOrganization.target_user_valid, and the users the bulk form takes.
MayJoin(u) == ~u.staff /\ u.registrar = NoRegistrar

----------------------------------------------------------------------------

\* Reachable accounts: none yet, one nobody has confirmed, or a confirmed one
\* of each kind, perhaps sponsored by an approved registrar.
Init ==
    /\ \E kind \in {"nobody", "new", "plain", "member", "registrar", "staff"} :
       \E r \in Approved, o \in Orgs, sponsored \in BOOLEAN :
         /\ row = CASE kind = "nobody" -> NoUser
                    [] kind = "new" -> NewUser
                    [] OTHER -> [NewUser EXCEPT
                         !.confirmed = TRUE, !.active = TRUE, !.staff = (kind = "staff"),
                         !.registrar = IF kind = "registrar" THEN r ELSE NoRegistrar,
                         !.sponsored_root = IF sponsored THEN 1 ELSE 0]
         /\ kind \in {"nobody", "new"} => ~sponsored
         /\ orgs = [org \in Orgs |-> IF kind = "member" /\ org = o THEN "never" ELSE "none"]
         /\ sponsor = [q \in Registrars |-> IF sponsored /\ q = r
                         THEN [status |-> "active", due |-> "later"] ELSE NoSponsorship]
         /\ folder = [q \in Registrars |-> IF sponsored /\ q = r
                         THEN [root |-> 1, read_only |-> FALSE] ELSE NoFolder]
    /\ approved = Approved
    /\ request = [q \in Requests |-> Idle]
    /\ served = 0
    /\ past = [row |-> FALSE, sponsor |-> FALSE, elevated |-> FALSE, suspended |-> FALSE]

\* What the requests know is stale once a table has changed.
Overtaken ==
    [p \in Requests |->
      IF request[p].at # "idle" /\ tables' # tables
      THEN [request[p] EXCEPT !.stale = TRUE] ELSE request[p]]
Step(q, next) == request' = [Overtaken EXCEPT ![q] = next]

\* History: a request wrote to the user's row or affiliations, or to a
\* sponsorship, when something had changed since it looked.
Wrote(q, table) ==
    past' = [past EXCEPT ![table] = @ \/ request[q].stale]

\* A request is served: a view has loaded what it needs and checked it, and
\* has next to do.
Serve(q, next) ==
    /\ request[q].at = "idle" /\ served < MaxRequests
    /\ served' = served + 1
    /\ request' = [request EXCEPT ![q] = next]
    /\ UNCHANGED <<tables, past>>

\* The user a form changes, or the new one it creates.
Target == IF row.exists THEN row ELSE NewUser
Save(u) == [Idle EXCEPT !.at = "row", !.new = ~row.exists, !.copy = u]

\* Dates a form takes.
FormDates == {"never", "later"}
Term(due) == [status |-> "active", due |-> due]

----------------------------------------------------------------------------
(* Adding an account to a group.  The form saves the user before it         *)
(* creates the affiliation.                                                 *)

AddUserToOrganization(q, o) ==
    /\ MayJoin(Target) /\ o \notin Members
    /\ \E due \in FormDates :
         Serve(q, [Save(Target) EXCEPT !.then = "join", !.org = o, !.edit = Term(due)])

\* MultipleUsersFormWithOrganization.save: an affiliation found gets the date,
\* others are created, after their users.
AddMultipleUsersToOrganization(q, o) ==
    /\ MayJoin(Target)
    /\ \E due \in FormDates :
         LET joining == [Idle EXCEPT !.at = "join", !.org = o, !.edit = Term(due)] IN
         Serve(q, IF o \in Members THEN [joining EXCEPT !.at = "redate"]
                  ELSE IF row.exists THEN joining
                  ELSE [Save(Target) EXCEPT !.then = "join", !.org = o, !.edit = Term(due)])

\* The checks made of a registrar's own users are left out: staff may do it all.
AddUserToRegistrar(q, r) ==
    /\ ~Target.staff /\ r \in approved
    /\ LET saving == Save([Target EXCEPT !.registrar = r]) IN
       Serve(q, IF row.exists THEN [saving EXCEPT !.at = "members"] ELSE saving)

AddSponsoredUserToRegistrar(q, r) ==
    /\ r \in approved /\ sponsor[r].status = "none"
    /\ \E due \in FormDates :
         Serve(q, [Save(Target) EXCEPT
                     !.then = "sponsor", !.registrar = r, !.edit = Term(due)])

\* Mutant: an admin stays with the registrar.
AddUserToAdminKeepsRegistrar(q) ==
    LET saving == Save([Target EXCEPT !.staff = TRUE]) IN
    Serve(q, IF row.exists THEN [saving EXCEPT !.at = "members"] ELSE saving)

AddUserToAdmin(q) ==
    LET saving == Save([Target EXCEPT !.staff = TRUE, !.registrar = NoRegistrar]) IN
    Serve(q, IF row.exists THEN [saving EXCEPT !.at = "members"] ELSE saving)

----------------------------------------------------------------------------
(* Signing up.  Each request for a registrar creates one; the model has     *)
(* those not yet approved from the start.                                   *)

\* As AddRegularUser does.
sign_up(q) == ~row.exists /\ Serve(q, Save(NewUser))

\* A note on the account, or a new one.
sign_up_courts(q) == Serve(q, Save(Target))

\* Someone with an account must log in first.
sign_up_libraries(q, r) ==
    /\ r \notin approved
    /\ row.exists => MayLogIn(row)
    /\ Serve(q, Save([Target EXCEPT !.pending = r]))

\* Only an account that is there is noted as the registrar's.
sign_up_orgs(q, r) ==
    /\ r \notin approved
    /\ Serve(q, Save(IF row.exists THEN [row EXCEPT !.pending = r] ELSE NewUser))

\* The registrar's user is the one that is pending or is its already; staff
\* name one when there is none, and may deny the request.
approve_pending_registrar(q, r) ==
    \/ /\ row.exists /\ r \in {row.pending, row.registrar}
       /\ Serve(q, [Save([row EXCEPT !.registrar = r, !.pending = NoRegistrar])
                      EXCEPT !.at = "approve", !.registrar = r])
    \/ /\ row.exists /\ r \notin {row.pending, row.registrar}
       /\ Serve(q, Save([row EXCEPT !.pending = r]))

Deny(r) ==
    /\ r \in approved /\ served < MaxRequests
    /\ served' = served + 1
    /\ approved' = approved \ {r}
    /\ UNCHANGED <<row, orgs, sponsor, folder, past>>
    /\ request' = Overtaken

\* The link in an email: the first password confirms the account.
SetPassword(q) ==
    /\ row.exists
    /\ Serve(q, Save(IF row.confirmed THEN row
                     ELSE [row EXCEPT !.active = TRUE, !.confirmed = TRUE]))

\* settings_profile and delete_account, which notes the request only.
settings_profile(q) == MayLogIn(row) /\ Serve(q, Save(row))

----------------------------------------------------------------------------
(* Changing what an account belongs to.                                     *)

organization_user_leave_organization(q, o) ==
    /\ MayLogIn(row) /\ o \in Members
    /\ Serve(q, [Save(row) EXCEPT !.at = "members", !.org = o])

\* Mutant: an account that is not active is deleted.
delete_inactive_user_in_group(q) ==
    /\ row.exists
    /\ Serve(q, [Save([row EXCEPT !.active = FALSE, !.registrar = NoRegistrar])
                   EXCEPT !.at = IF row.active THEN "members" ELSE "delete"])

\* A confirmed account is deactivated, another deleted.
delete_user_in_group(q) ==
    /\ row.exists
    /\ Serve(q, [Save([row EXCEPT !.active = FALSE, !.registrar = NoRegistrar])
                   EXCEPT !.at = IF row.confirmed THEN "members" ELSE "delete"])

reactive_user_in_group(q) ==
    row.exists /\ Serve(q, Save([row EXCEPT !.active = TRUE]))

manage_single_registrar_user_remove(q) ==
    /\ row.registrar # NoRegistrar
    /\ Serve(q, Save([row EXCEPT !.registrar = NoRegistrar]))

manage_single_admin_user_remove(q) ==
    row.exists /\ Serve(q, Save([row EXCEPT !.staff = FALSE]))

EditSponsorship(q, r, edit) ==
    Serve(q, [Idle EXCEPT !.at = "sponsorship", !.registrar = r,
                          !.known = sponsor[r], !.edit = edit])

toggle_status(q, r) ==
    /\ sponsor[r].status # "none"
    /\ \E status \in {"active", "inactive"} :
         EditSponsorship(q, r, [sponsor[r] EXCEPT !.status = status])

manage_single_sponsored_user_expiration_date(q, r) ==
    /\ sponsor[r].status # "none"
    /\ \E due \in FormDates : EditSponsorship(q, r, [sponsor[r] EXCEPT !.due = due])

manage_single_organization_user_expiration_date(q, o) ==
    /\ o \in Members
    /\ \E due \in FormDates :
         Serve(q, [Idle EXCEPT !.at = "affiliation", !.org = o, !.edit = Term(due)])

\* affiliation.delete(), right after it is loaded.
manage_single_organization_user_remove(o) ==
    /\ orgs[o] # "none" /\ served < MaxRequests
    /\ served' = served + 1
    /\ orgs' = [orgs EXCEPT ![o] = "none"]
    /\ UNCHANGED <<row, sponsor, folder, approved, past>>
    /\ request' = Overtaken

----------------------------------------------------------------------------
(* What the views write, one row or one transaction at a time.              *)

\* organizations.clear(), or organizations.remove(org).
WriteMembers(q) ==
    LET me == request[q] IN
    /\ me.at = "members"
    /\ orgs' = [o \in Orgs |-> IF me.org \in {NoOrg, o} THEN "none" ELSE orgs[o]]
    /\ UNCHANGED <<row, sponsor, folder, approved, served>>
    /\ Step(q, [me EXCEPT !.at = "row"])
    /\ Wrote(q, "row")

\* save() of the user: every column of the copy, into a row that must be
\* there unless the view creates it.
WriteRow(q) ==
    LET me == request[q]
        fails == row.exists = me.new
    IN
    /\ me.at = "row"
    /\ row' = IF fails THEN row ELSE me.copy
    /\ UNCHANGED <<orgs, sponsor, folder, approved, served>>
    /\ Step(q, IF fails \/ me.then = "idle" THEN Idle ELSE [me EXCEPT !.at = me.then])
    /\ past' = [past EXCEPT !.row = @ \/ (me.stale /\ ~fails)]

\* The registrar and its user are saved in one transaction.
Approve(q) ==
    LET me == request[q] IN
    /\ me.at = "approve"
    /\ IF row.exists
       THEN /\ row' = me.copy
            /\ approved' = approved \cup {me.registrar}
       ELSE UNCHANGED <<row, approved>>
    /\ UNCHANGED <<orgs, sponsor, folder, served>>
    /\ Step(q, Idle)
    /\ past' = [past EXCEPT
         !.row = @ \/ (me.stale /\ row.exists),
         !.elevated = @ \/ me.copy.staff \/ Members # {}]

\* The affiliation is created; one that is there makes the form fail.
Join(q) ==
    LET me == request[q] IN
    /\ me.at = "join"
    /\ orgs' = IF row.exists /\ me.org \notin Members
               THEN [orgs EXCEPT ![me.org] = me.edit.due] ELSE orgs
    /\ UNCHANGED <<row, sponsor, folder, approved, served>>
    /\ Step(q, Idle)
    /\ Wrote(q, "row")

\* preexisting_affiliations.update()
Redate(q) ==
    LET me == request[q] IN
    /\ me.at = "redate"
    /\ orgs' = IF me.org \in Members THEN [orgs EXCEPT ![me.org] = me.edit.due] ELSE orgs
    /\ UNCHANGED <<row, sponsor, folder, approved, served>>
    /\ Step(q, Idle)
    /\ Wrote(q, "row")

\* Mutant: every sponsorship makes a root of its own.
FreshRoot(u) == 1 + Max({folder[p].root : p \in Registrars})

\* The root create_sponsored_folder puts the folder under.
SponsoredRoot(u) ==
    IF u.sponsored_root # 0 THEN u.sponsored_root
    ELSE 1 + Max({folder[p].root : p \in Registrars})

\* Sponsorship.save of a new sponsorship, in one transaction: it and, when the
\* registrar has no folder, create_sponsored_folder, which saves the copy of
\* the user a second time when that has no root.
Sponsor(q) ==
    LET me == request[q]
        r == me.registrar
        root == SponsoredRoot(me.copy)
    IN
    /\ me.at = "sponsor"
    /\ IF row.exists /\ sponsor[r].status = "none"
       THEN /\ sponsor' = [sponsor EXCEPT ![r] = me.edit]
            /\ folder' = [folder EXCEPT ![r] = [root |-> root, read_only |-> FALSE]]
            /\ row' = IF me.copy.sponsored_root # 0 THEN row
                      ELSE [me.copy EXCEPT !.sponsored_root = root]
       ELSE UNCHANGED <<row, sponsor, folder>>
    /\ UNCHANGED <<orgs, approved, served>>
    /\ Step(q, Idle)
    /\ Wrote(q, "row")

\* save() of an affiliation that was loaded: every column, and a new row when
\* the loaded one is gone.
WriteAffiliation(q) ==
    LET me == request[q] IN
    /\ me.at = "affiliation"
    /\ orgs' = IF row.exists THEN [orgs EXCEPT ![me.org] = me.edit.due] ELSE orgs
    /\ UNCHANGED <<row, sponsor, folder, approved, served>>
    /\ Step(q, Idle)
    /\ Wrote(q, "row")

\* Mutant: folders are locked and never unlocked.
OnlyLocks(known, edit, read_only) == read_only \/ edit = "inactive"

\* read_only of the folders follows the status when the copy's has changed.
ReadOnlyAfter(known, edit, read_only) ==
    IF known = edit THEN read_only ELSE edit = "inactive"

\* save() of a sponsorship that was loaded: every column, and the folders.
WriteSponsorship(q) ==
    LET me == request[q]
        r == me.registrar
    IN
    /\ me.at = "sponsorship"
    /\ IF sponsor[r].status # "none"
       THEN /\ sponsor' = [sponsor EXCEPT ![r] = me.edit]
            /\ folder' = [folder EXCEPT ![r].read_only =
                            ReadOnlyAfter(me.known.status, me.edit.status, @)]
       ELSE UNCHANGED <<sponsor, folder>>
    /\ UNCHANGED <<row, orgs, approved, served>>
    /\ Step(q, Idle)
    /\ Wrote(q, "sponsor")

\* An account its copy says nobody has confirmed is deleted, with all it owns.
Delete(q) ==
    /\ request[q].at = "delete"
    /\ row' = NoUser
    /\ orgs' = [o \in Orgs |-> "none"]
    /\ sponsor' = [r \in Registrars |-> NoSponsorship]
    /\ folder' = [r \in Registrars |-> NoFolder]
    /\ UNCHANGED <<approved, served>>
    /\ Step(q, Idle)
    /\ Wrote(q, "row")

----------------------------------------------------------------------------

\* Dates go by.
DayPasses ==
    /\ orgs' = [o \in Orgs |-> IF orgs[o] = "later" THEN "past" ELSE orgs[o]]
    /\ sponsor' = [r \in Registrars |->
                     IF sponsor[r].due = "later" THEN [sponsor[r] EXCEPT !.due = "past"]
                     ELSE sponsor[r]]
    /\ UNCHANGED <<row, folder, approved, served, past>>
    /\ tables' # tables
    /\ request' = Overtaken

\* Mutant: the dates still to come are taken.
ExpiresLater(due) == due = "later"

\* Affiliations and sponsorships whose date is gone by.
Expired(due) == due = "past"

remove_expired_organization_user_affiliations ==
    /\ \E o \in Orgs : Expired(orgs[o])
    /\ orgs' = [o \in Orgs |-> IF Expired(orgs[o]) THEN "none" ELSE orgs[o]]
    /\ UNCHANGED <<row, sponsor, folder, approved, served, past>>
    /\ request' = Overtaken

\* queryset.update: Sponsorship.save is not called, and no folder changes.
deactivate_expired_sponsored_users ==
    LET gone == {r \in Registrars : sponsor[r].status = "active" /\ Expired(sponsor[r].due)} IN
    /\ gone # {}
    /\ sponsor' = [r \in Registrars |->
                     IF r \in gone THEN [sponsor[r] EXCEPT !.status = "inactive"] ELSE sponsor[r]]
    /\ past' = [past EXCEPT !.suspended = TRUE]
    /\ UNCHANGED <<row, orgs, folder, approved, served>>
    /\ request' = Overtaken

----------------------------------------------------------------------------

View(q) ==
    \/ \E o \in Orgs :
         \/ AddUserToOrganization(q, o) \/ AddMultipleUsersToOrganization(q, o)
         \/ organization_user_leave_organization(q, o)
         \/ manage_single_organization_user_expiration_date(q, o)
    \/ \E r \in Registrars :
         \/ AddUserToRegistrar(q, r) \/ AddSponsoredUserToRegistrar(q, r)
         \/ sign_up_libraries(q, r) \/ sign_up_orgs(q, r)
         \/ approve_pending_registrar(q, r)
         \/ toggle_status(q, r) \/ manage_single_sponsored_user_expiration_date(q, r)
    \/ AddUserToAdmin(q) \/ sign_up(q) \/ sign_up_courts(q) \/ SetPassword(q)
    \/ settings_profile(q) \/ delete_user_in_group(q) \/ reactive_user_in_group(q)
    \/ manage_single_registrar_user_remove(q) \/ manage_single_admin_user_remove(q)

Write(q) ==
    \/ WriteMembers(q) \/ WriteRow(q) \/ Approve(q) \/ Join(q) \/ Redate(q) \/ Sponsor(q)
    \/ WriteAffiliation(q) \/ WriteSponsorship(q) \/ Delete(q)

Next ==
    \/ \E q \in Requests : View(q) \/ Write(q)
    \/ \E o \in Orgs : manage_single_organization_user_remove(o)
    \/ \E r \in Registrars : Deny(r)
    \/ DayPasses
    \/ remove_expired_organization_user_affiliations
    \/ deactivate_expired_sponsored_users

Spec == Init /\ [][Next]_vars

\* The tasks run every night.
FairSpec ==
    /\ Spec
    /\ WF_vars(remove_expired_organization_user_affiliations)
    /\ WF_vars(deactivate_expired_sponsored_users)

----------------------------------------------------------------------------

Past == [row: BOOLEAN, sponsor: BOOLEAN, elevated: BOOLEAN, suspended: BOOLEAN]

\* Types; an account that is not there has no affiliation or sponsorship.
TypeOK ==
    /\ row \in User
    /\ ~row.exists => /\ row = NoUser /\ Members = {}
                      /\ \A r \in Registrars : sponsor[r] = NoSponsorship
    /\ orgs \in [Orgs -> Affiliation]
    /\ sponsor \in [Registrars -> Sponsorship]
    /\ folder \in [Registrars -> Folder]
    /\ approved \subseteq Registrars
    /\ request \in [Requests -> Request]
    /\ served \in 0..MaxRequests
    /\ past \in Past

\* No row is staff and a registrar's, whatever requests overlap: each writes a
\* whole row that was checked as a whole.  Approving the registrar an admin
\* asked for is the exception.
StaffOrRegistrar ==
    past.elevated \/ ~(row.staff /\ row.registrar # NoRegistrar)

\* A registrar's user is in no organization ("This should not be set if org is
\* set!", LinkUser.registrar), nor is staff, unless two requests overlapped or
\* a member's registrar was approved.
RegistrarOrMember ==
    past.elevated \/ past.row \/
    ~(Members # {} /\ (row.staff \/ row.registrar # NoRegistrar))

\* Rows stay of their types, and an account is of one kind: staff's, a registrar's
\* or a member of organizations.
MembershipInv == TypeOK /\ StaffOrRegistrar /\ RegistrarOrMember

\* Every sponsorship has its folder, in one transaction with it; while no row
\* was written from a stale copy, the folder is under the root the user sees.
SponsorshipHasFolder ==
    \A r \in Registrars : sponsor[r].status # "none" =>
      /\ folder[r].root # 0
      /\ past.row \/ folder[r].root = row.sponsored_root

\* A folder is read-only when its sponsorship is deactivated (Folder.read_only),
\* unless the nightly task did it or two views of the sponsorship overlapped.
ReadOnlyIsInactive ==
    past.suspended \/ past.sponsor \/
    \A r \in Registrars :
      folder[r].read_only <=> sponsor[r].status = "inactive"

\* An account that was confirmed stays, unless its deletion overlapped with
\* another request.
ConfirmedStays ==
    [][row.confirmed /\ ~past'.row => row'.exists]_vars

\* What is expired ends, or gets another date.
ExpiredEnds ==
    /\ \A o \in Orgs : orgs[o] = "past" ~> orgs[o] # "past"
    /\ \A r \in Registrars :
         sponsor[r] = [status |-> "active", due |-> "past"]
           ~> sponsor[r] # [status |-> "active", due |-> "past"]

=============================================================================
