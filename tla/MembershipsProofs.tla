------------------------- MODULE MembershipsProofs -------------------------
(***************************************************************************)
(* Theorems about Memberships, for any organizations and registrars and    *)
(* any number of requests.                                                 *)
(*                                                                         *)
(* What a request has decided on holds of the tables until one of them     *)
(* changes, which makes the request stale.  A write of a request that is   *)
(* not stale therefore does what its view checked.                         *)
(***************************************************************************)
EXTENDS Access, Expiry, FiniteSetTheorems, WellFoundedInduction, TLAPS

----------------------------------------------------------------------------
(* The inductive invariant.                                                *)

\* Staff or a registrar's user.
Elevated(u) == u.staff \/ u.registrar # NoRegistrar

Writing == {"members", "row", "approve", "sponsor"}

\* What a request has, stale or not.
Decided(me) ==
    /\ me.at \in Writing => me.copy.exists
    /\ me.at \in Writing \ {"approve"} /\ ~past.elevated
          => ~(me.copy.staff /\ me.copy.registrar # NoRegistrar)
    /\ me.at \in {"members", "approve"} => me.then = "idle"
    /\ me.at \in {"approve", "sponsor", "sponsorship"} \/ me.then = "sponsor"
          => me.registrar \in Registrars
    /\ me.at = "sponsor" \/ me.then = "sponsor" => me.edit.status = "active"

\* What holds of the tables for a request that is not stale.
Fresh(me) ==
    /\ me.at \in {"members", "row", "approve"} /\ row.exists
          => me.copy.sponsored_root = row.sponsored_root
    /\ me.at = "members" /\ Elevated(me.copy) => Elevated(row) \/ me.org = NoOrg
    /\ me.at = "row" /\ Elevated(me.copy) => Elevated(row) \/ Members = {}
    /\ me.at = "row" /\ me.then = "join" => MayJoin(me.copy)
    /\ me.at \in {"join", "redate"} => MayJoin(row)
    /\ me.at = "sponsor" => row = me.copy
    /\ me.at = "affiliation" => me.org \in Members
    /\ me.at = "sponsorship" => me.known = sponsor[me.registrar]
    /\ me.at = "delete" => ~row.confirmed

RequestInv(me) == Decided(me) /\ (me.stale \/ Fresh(me))

\* The numbers of root folders have a bound, so that the next one is a number too.
RootsBounded == \E b \in Nat : \A r \in Registrars : folder[r].root <= b

Inv ==
    /\ MembershipInv
    /\ RootsBounded
    /\ SponsorshipHasFolder
    /\ ReadOnlyIsInactive
    /\ \A q \in Requests : RequestInv(request[q])

----------------------------------------------------------------------------
(* Types of what requests carry.                                           *)

LEMMA UserTyped ==
    /\ NoUser \in User /\ NewUser \in User /\ NewUser.exists
    /\ ~NoUser.exists /\ ~NoUser.staff /\ ~NoUser.confirmed /\ NoUser.registrar = NoRegistrar
    /\ ~NewUser.staff /\ NewUser.registrar = NoRegistrar
  BY DEF NoUser, NewUser, User, Roots

LEMMA TermTyped ==
    ASSUME NEW due \in FormDates
    PROVE  Term(due) \in Sponsorship /\ Term(due).status = "active"
  BY DEF Term, FormDates, Sponsorship, Due

LEMMA IdleTyped ==
    /\ NoSponsorship \in Sponsorship /\ NoSponsorship.status = "none"
    /\ NoFolder \in Folder /\ NoFolder.root = 0 /\ ~NoFolder.read_only
    /\ Idle \in Request
    /\ Idle.at = "idle" /\ Idle.then = "idle" /\ ~Idle.stale
  BY UserTyped DEF NoSponsorship, Sponsorship, Due, NoFolder, Folder, Roots, Idle, Request

LEMMA SaveTyped ==
    ASSUME NEW u \in User, row.exists \in BOOLEAN
    PROVE  /\ Save(u) \in Request
           /\ Save(u).at = "row" /\ Save(u).then = "idle" /\ Save(u).new = ~row.exists
           /\ Save(u).org = NoOrg /\ Save(u).registrar = NoRegistrar
           /\ Save(u).copy = u /\ ~Save(u).stale
  BY IdleTyped DEF Save, Idle, Request

----------------------------------------------------------------------------
(* The next root.                                                          *)

\* A bounded set of numbers that is not empty has a greatest one.
LEMMA Greatest ==
    ASSUME NEW S \in SUBSET Nat, S # {}, NEW b \in Nat, \A x \in S : x <= b
    PROVE  Max(S) \in S /\ \A x \in S : x <= Max(S)
  <1> DEFINE Bounds == {n \in Nat : \A x \in S : x <= n}
  <1>1. PICK n \in Bounds : \A m \in Bounds : ~(<<m, n>> \in OpToRel(<, Nat))
    <2>1. Bounds \subseteq Nat /\ b \in Bounds
      OBVIOUS
    <2> HIDE DEF Bounds
    <2> QED
      BY <2>1, NatLessThanWellFounded, WFMin
  <1>2. \A m \in Bounds : ~(m < n)
    BY <1>1 DEF OpToRel
  <1>3. n \in S
    <2> SUFFICES ASSUME n \notin S PROVE FALSE
      OBVIOUS
    <2>1. \A x \in S : x < n
      OBVIOUS
    <2>2. n > 0
      <3>1. PICK x \in S : TRUE
        OBVIOUS
      <3> QED
        BY <2>1, <3>1
    <2>3. n - 1 \in Bounds
      BY <2>1, <2>2
    <2> QED
      BY <1>2, <2>3
  <1>4. \E x \in S : \A y \in S : x >= y
    BY <1>3
  <1>5. Max(S) \in S /\ \A y \in S : Max(S) >= y
    BY <1>4 DEF Max
  <1> QED
    BY <1>5

\* The root a folder gets is a number other than 0, that a user has already or that
\* no folder is under.
LEMMA NextRoot ==
    ASSUME TypeOK, RootsBounded, NEW u \in User, NEW r \in Registrars
    PROVE  /\ SponsoredRoot(u) \in Nat /\ SponsoredRoot(u) # 0
           /\ u.sponsored_root # 0 => SponsoredRoot(u) = u.sponsored_root
  <1> DEFINE S == {folder[p].root : p \in Registrars}
  <1>1. \A p \in Registrars : folder[p].root \in Nat
    BY DEF TypeOK, Folder, Roots
  <1>2. Max(S) \in Nat
    <2>1. S \in SUBSET Nat /\ S # {}
      BY <1>1
    <2>2. PICK b \in Nat : \A x \in S : x <= b
      BY DEF RootsBounded
    <2> HIDE DEF S
    <2> QED
      BY <2>1, <2>2, Greatest
  <1>3. u.sponsored_root \in Nat
    BY DEF User, Roots
  <1> HIDE DEF S
  <1> QED
    BY <1>2, <1>3 DEF SponsoredRoot, S

----------------------------------------------------------------------------
(* Requests while something else happens.                                  *)

\* A request that another step has overtaken, or has left alone.
LEMMA OvertakenTyped ==
    ASSUME NEW me \in Request, RequestInv(me), past.elevated => past'.elevated
    PROVE  LET old == [me EXCEPT !.stale = TRUE] IN
           /\ old \in Request /\ old.stale
           /\ Decided(old)' /\ RequestInv(old)'
  <1> DEFINE old == [me EXCEPT !.stale = TRUE]
  <1>1. /\ old \in Request /\ old.stale
        /\ old.at = me.at /\ old.then = me.then /\ old.copy = me.copy
        /\ old.registrar = me.registrar /\ old.edit = me.edit
    BY DEF Request
  <1> HIDE DEF old
  <1>2. Decided(me)'
    BY DEF RequestInv, Decided
  <1>3. Decided(old)'
    BY <1>1, <1>2 DEF Decided
  <1> QED
    BY <1>1, <1>3 DEF old, RequestInv

LEMMA IdleInv == RequestInv(Idle) /\ RequestInv(Idle)'
  BY IdleTyped DEF RequestInv, Decided, Fresh, Writing

LEMMA OvertakenInv ==
    ASSUME Inv, NEW p \in Requests, past.elevated => past'.elevated,
           request'[p] = Overtaken[p]
    PROVE  request'[p] \in Request /\ RequestInv(request[p])'
  <1>1. request[p] \in Request /\ RequestInv(request[p])
    BY DEF Inv, MembershipInv, TypeOK
  <1>2. CASE request[p].at # "idle" /\ tables' # tables
    <2>1. request'[p] = [request[p] EXCEPT !.stale = TRUE]
      BY <1>2 DEF Overtaken
    <2> QED
      BY <1>1, <2>1, OvertakenTyped
  <1>3. CASE request[p].at = "idle"
    <2>1. request'[p] = request[p]
      BY <1>3 DEF Overtaken
    <2> QED
      BY <1>1, <1>3, <2>1 DEF RequestInv, Decided, Fresh, Writing
  <1>4. CASE tables' = tables
    <2>1. request'[p] = request[p]
      BY <1>4 DEF Overtaken
    <2> QED
      BY <1>1, <1>4, <2>1 DEF RequestInv, Decided, Fresh, Writing, tables, Members
  <1> QED
    BY <1>2, <1>3, <1>4

\* A view that has made its decision.
LEMMA ServeStep ==
    ASSUME Inv, NEW q \in Requests, NEW next \in Request, Serve(q, next), RequestInv(next)
    PROVE  Inv'
  <1> USE DEF Serve, tables
  <1>1. request' \in [Requests -> Request] /\ served' \in 0..MaxRequests
    BY MembershipsAssumption DEF Inv, MembershipInv, TypeOK
  <1>2. MembershipInv'
    BY <1>1 DEF Inv, MembershipInv, TypeOK, StaffOrRegistrar, RegistrarOrMember, Members
  <1>3. RootsBounded' /\ SponsorshipHasFolder' /\ ReadOnlyIsInactive'
    BY DEF Inv, RootsBounded, SponsorshipHasFolder, ReadOnlyIsInactive
  <1>4. RequestInv(next)'
    BY DEF RequestInv, Decided, Fresh, Members
  <1>5. ASSUME NEW p \in Requests, p # q PROVE RequestInv(request[p])'
    BY <1>5 DEF Inv, RequestInv, Decided, Fresh, Members
  <1>6. request'[q] = next
    BY DEF Inv, MembershipInv, TypeOK
  <1> QED
    BY <1>2, <1>3, <1>4, <1>5, <1>6 DEF Inv

----------------------------------------------------------------------------
(* Views: what each has decided on when it starts to write.                *)

\* The copy a form changes is the row, or a new user.
LEMMA TargetTyped ==
    ASSUME Inv
    PROVE  /\ row \in User /\ row.exists \in BOOLEAN
           /\ Target \in User /\ Target.exists
           /\ row.exists => Target = row
           /\ ~row.exists => Members = {} /\ ~Elevated(Target) /\ ~Elevated(row)
           /\ Elevated(Target) => Elevated(row)
           /\ Target.staff /\ Target.registrar # NoRegistrar => past.elevated
           /\ row.staff /\ row.registrar # NoRegistrar => past.elevated
  BY UserTyped DEF Inv, MembershipInv, TypeOK, StaffOrRegistrar, Target, Elevated, User

\* A view that saves a copy of the user, and perhaps joins or is sponsored after.
LEMMA SaveDecided ==
    ASSUME Inv, NEW u \in User, u.exists,
           row.exists => u.sponsored_root = row.sponsored_root,
           u.staff /\ u.registrar # NoRegistrar => past.elevated
    PROVE  /\ Save(u) \in Request
           /\ (Elevated(u) => Elevated(row) \/ Members = {}) => RequestInv(Save(u))
           /\ LET cleared == [Save(u) EXCEPT !.at = "members"] IN
              cleared \in Request /\ RequestInv(cleared)
           /\ \A r \in Registrars :
                 LET approving == [Save(u) EXCEPT !.at = "approve", !.registrar = r] IN
                 approving \in Request /\ RequestInv(approving)
           /\ \A o \in Orgs :
                 LET leaving == [Save(u) EXCEPT !.at = "members", !.org = o] IN
                 leaving \in Request /\ ((Elevated(u) => Elevated(row)) => RequestInv(leaving))
  <1>1. /\ Save(u) \in Request
        /\ Save(u).at = "row" /\ Save(u).then = "idle" /\ Save(u).org = NoOrg
        /\ Save(u).copy = u
    BY TargetTyped, SaveTyped
  <1>2. (Elevated(u) => Elevated(row) \/ Members = {}) => RequestInv(Save(u))
    BY <1>1 DEF RequestInv, Decided, Fresh, Writing
  <1> DEFINE cleared == [Save(u) EXCEPT !.at = "members"]
  <1>3. cleared \in Request /\ RequestInv(cleared)
    <2>1. /\ cleared \in Request /\ cleared.at = "members" /\ cleared.then = "idle"
          /\ cleared.org = NoOrg /\ cleared.copy = u
      BY <1>1 DEF Request
    <2> HIDE DEF cleared
    <2> QED
      BY <2>1 DEF RequestInv, Decided, Fresh, Writing
  <1>4. ASSUME NEW r \in Registrars
        PROVE  LET approving == [Save(u) EXCEPT !.at = "approve", !.registrar = r] IN
               approving \in Request /\ RequestInv(approving)
    <2> DEFINE approving == [Save(u) EXCEPT !.at = "approve", !.registrar = r]
    <2>1. /\ approving \in Request /\ approving.at = "approve" /\ approving.then = "idle"
          /\ approving.registrar = r /\ approving.copy = u
      BY <1>1 DEF Request
    <2> HIDE DEF approving
    <2>2. RequestInv(approving)
      BY <2>1 DEF RequestInv, Decided, Fresh, Writing
    <2> QED
      BY <2>1, <2>2 DEF approving
  <1>5. ASSUME NEW o \in Orgs
        PROVE  LET leaving == [Save(u) EXCEPT !.at = "members", !.org = o] IN
               leaving \in Request /\ ((Elevated(u) => Elevated(row)) => RequestInv(leaving))
    <2> DEFINE leaving == [Save(u) EXCEPT !.at = "members", !.org = o]
    <2>1. /\ leaving \in Request /\ leaving.at = "members" /\ leaving.then = "idle"
          /\ leaving.copy = u
      BY <1>1 DEF Request
    <2> HIDE DEF leaving
    <2>2. (Elevated(u) => Elevated(row)) => RequestInv(leaving)
      BY <2>1 DEF RequestInv, Decided, Fresh, Writing
    <2> QED
      BY <2>1, <2>2 DEF leaving
  <1> QED
    BY <1>1, <1>2, <1>3, <1>4, <1>5

\* A view that goes on to create an affiliation or a sponsorship.
LEMMA ThenDecided ==
    ASSUME Inv, NEW due \in FormDates
    PROVE  /\ \A o \in Orgs :
                 LET joining == [Save(Target) EXCEPT !.then = "join", !.org = o,
                                                     !.edit = Term(due)] IN
                 joining \in Request /\ (MayJoin(Target) => RequestInv(joining))
           /\ \A r \in Registrars :
                 LET sponsoring == [Save(Target) EXCEPT !.then = "sponsor", !.registrar = r,
                                                        !.edit = Term(due)] IN
                 sponsoring \in Request /\ RequestInv(sponsoring)
  <1>1. /\ Save(Target) \in Request
        /\ Save(Target).at = "row" /\ Save(Target).copy = Target
    BY TargetTyped, SaveTyped
  <1>2. Term(due) \in Sponsorship /\ Term(due).status = "active"
    BY TermTyped
  <1>3. ASSUME NEW o \in Orgs
        PROVE  LET joining == [Save(Target) EXCEPT !.then = "join", !.org = o,
                                                   !.edit = Term(due)] IN
               joining \in Request /\ (MayJoin(Target) => RequestInv(joining))
    <2> DEFINE joining == [Save(Target) EXCEPT !.then = "join", !.org = o, !.edit = Term(due)]
    <2>1. /\ joining \in Request /\ joining.at = "row" /\ joining.then = "join"
          /\ joining.copy = Target
      BY <1>1, <1>2 DEF Request
    <2> HIDE DEF joining
    <2>2. MayJoin(Target) => RequestInv(joining)
      BY <2>1, TargetTyped DEF RequestInv, Decided, Fresh, Writing
    <2> QED
      BY <2>1, <2>2 DEF joining
  <1>4. ASSUME NEW r \in Registrars
        PROVE  LET sponsoring == [Save(Target) EXCEPT !.then = "sponsor", !.registrar = r,
                                                      !.edit = Term(due)] IN
               sponsoring \in Request /\ RequestInv(sponsoring)
    <2> DEFINE sponsoring == [Save(Target) EXCEPT !.then = "sponsor", !.registrar = r,
                                                  !.edit = Term(due)]
    <2>1. /\ sponsoring \in Request /\ sponsoring.at = "row" /\ sponsoring.then = "sponsor"
          /\ sponsoring.copy = Target /\ sponsoring.registrar = r
          /\ sponsoring.edit = Term(due)
      BY <1>1, <1>2 DEF Request
    <2> HIDE DEF sponsoring
    <2>2. RequestInv(sponsoring)
      BY <1>2, <2>1, TargetTyped DEF RequestInv, Decided, Fresh, Writing
    <2> QED
      BY <2>1, <2>2 DEF sponsoring
  <1> QED
    BY <1>3, <1>4

\* A view that writes an affiliation or a sponsorship and not the user.
LEMMA EditDecided ==
    ASSUME Inv
    PROVE  /\ \A o \in Orgs, e \in Sponsorship, at \in {"join", "redate", "affiliation"} :
                 LET editing == [Idle EXCEPT !.at = at, !.org = o, !.edit = e] IN
                 /\ editing \in Request
                 /\ (IF at = "affiliation" THEN o \in Members ELSE MayJoin(row))
                       => RequestInv(editing)
           /\ \A r \in Registrars, e \in Sponsorship :
                 LET editing == [Idle EXCEPT !.at = "sponsorship", !.registrar = r,
                                             !.known = sponsor[r], !.edit = e] IN
                 editing \in Request /\ RequestInv(editing)
  <1>1. ASSUME NEW o \in Orgs, NEW e \in Sponsorship, NEW at \in {"join", "redate", "affiliation"}
        PROVE  LET editing == [Idle EXCEPT !.at = at, !.org = o, !.edit = e] IN
               /\ editing \in Request
               /\ (IF at = "affiliation" THEN o \in Members ELSE MayJoin(row))
                     => RequestInv(editing)
    <2> DEFINE editing == [Idle EXCEPT !.at = at, !.org = o, !.edit = e]
    <2>1. /\ editing \in Request /\ editing.at = at /\ editing.then = "idle"
          /\ editing.org = o
      BY IdleTyped DEF Request
    <2> HIDE DEF editing
    <2>2. (IF at = "affiliation" THEN o \in Members ELSE MayJoin(row)) => RequestInv(editing)
      BY <2>1 DEF RequestInv, Decided, Fresh, Writing
    <2> QED
      BY <2>1, <2>2 DEF editing
  <1>2. ASSUME NEW r \in Registrars, NEW e \in Sponsorship
        PROVE  LET editing == [Idle EXCEPT !.at = "sponsorship", !.registrar = r,
                                           !.known = sponsor[r], !.edit = e] IN
               editing \in Request /\ RequestInv(editing)
    <2> DEFINE editing == [Idle EXCEPT !.at = "sponsorship", !.registrar = r,
                                       !.known = sponsor[r], !.edit = e]
    <2>1. sponsor[r] \in Sponsorship
      BY DEF Inv, MembershipInv, TypeOK
    <2>2. /\ editing \in Request /\ editing.at = "sponsorship" /\ editing.then = "idle"
          /\ editing.registrar = r /\ editing.known = sponsor[r]
      BY <2>1, IdleTyped DEF Request
    <2> HIDE DEF editing
    <2>3. RequestInv(editing)
      BY <2>2 DEF RequestInv, Decided, Fresh, Writing
    <2> QED
      BY <2>2, <2>3 DEF editing
  <1> QED
    BY <1>1, <1>2

\* Adding an account to a group.
LEMMA AddStep ==
    ASSUME Inv, NEW q \in Requests,
           \/ \E o \in Orgs : AddUserToOrganization(q, o) \/ AddMultipleUsersToOrganization(q, o)
           \/ \E r \in Registrars : AddUserToRegistrar(q, r) \/ AddSponsoredUserToRegistrar(q, r)
           \/ AddUserToAdmin(q)
    PROVE  Inv'
  <1>1. ASSUME NEW o \in Orgs, AddUserToOrganization(q, o) PROVE Inv'
    <2>1. PICK due \in FormDates :
             Serve(q, [Save(Target) EXCEPT !.then = "join", !.org = o, !.edit = Term(due)])
      BY <1>1 DEF AddUserToOrganization
    <2>2. MayJoin(Target)
      BY <1>1 DEF AddUserToOrganization
    <2> QED
      BY <2>1, <2>2, ThenDecided, ServeStep
  <1>2. ASSUME NEW o \in Orgs, AddMultipleUsersToOrganization(q, o) PROVE Inv'
    <2>1. MayJoin(Target)
      BY <1>2 DEF AddMultipleUsersToOrganization
    <2> DEFINE joining(due) == [Idle EXCEPT !.at = "join", !.org = o, !.edit = Term(due)]
    <2>2. PICK due \in FormDates :
             Serve(q, IF o \in Members THEN [joining(due) EXCEPT !.at = "redate"]
                      ELSE IF row.exists THEN joining(due)
                      ELSE [Save(Target) EXCEPT !.then = "join", !.org = o, !.edit = Term(due)])
      BY <1>2 DEF AddMultipleUsersToOrganization
    <2>3. Term(due) \in Sponsorship
      BY TermTyped
    <2>4. CASE o \in Members
      <3>1. [joining(due) EXCEPT !.at = "redate"]
               = [Idle EXCEPT !.at = "redate", !.org = o, !.edit = Term(due)]
        BY DEF Idle
      <3>2. MayJoin(row)
        BY <2>1, <2>4, TargetTyped DEF Members
      <3>3. Serve(q, [Idle EXCEPT !.at = "redate", !.org = o, !.edit = Term(due)])
        BY <2>2, <2>4, <3>1
      <3> QED
        BY <2>3, <3>2, <3>3, EditDecided, ServeStep
    <2>5. CASE o \notin Members /\ row.exists
      <3>1. Serve(q, [Idle EXCEPT !.at = "join", !.org = o, !.edit = Term(due)]) /\ MayJoin(row)
        BY <2>1, <2>2, <2>5, TargetTyped
      <3> QED
        BY <2>3, <3>1, EditDecided, ServeStep
    <2>6. CASE o \notin Members /\ ~row.exists
      <3>1. Serve(q, [Save(Target) EXCEPT !.then = "join", !.org = o, !.edit = Term(due)])
        BY <2>2, <2>6
      <3> QED
        BY <2>1, <3>1, ThenDecided, ServeStep
    <2> QED
      BY <2>4, <2>5, <2>6
  <1>3. ASSUME NEW r \in Registrars, AddUserToRegistrar(q, r) PROVE Inv'
    <2> DEFINE u == [Target EXCEPT !.registrar = r]
    <2>1. /\ u \in User /\ u.exists /\ u.sponsored_root = Target.sponsored_root /\ ~u.staff
      BY <1>3, TargetTyped DEF AddUserToRegistrar, User
    <2>2. /\ row.exists => u.sponsored_root = row.sponsored_root
          /\ ~row.exists => Members = {}
      BY <2>1, TargetTyped
    <2>3. Serve(q, IF row.exists THEN [Save(u) EXCEPT !.at = "members"] ELSE Save(u))
      BY <1>3 DEF AddUserToRegistrar
    <2> HIDE DEF u
    <2>4. CASE row.exists
      BY <2>1, <2>2, <2>3, <2>4, SaveDecided, ServeStep
    <2>5. CASE ~row.exists
      BY <2>1, <2>2, <2>3, <2>5, SaveDecided, ServeStep
    <2> QED
      BY <2>4, <2>5
  <1>4. ASSUME NEW r \in Registrars, AddSponsoredUserToRegistrar(q, r) PROVE Inv'
    <2>1. PICK due \in FormDates :
             Serve(q, [Save(Target) EXCEPT !.then = "sponsor", !.registrar = r,
                                           !.edit = Term(due)])
      BY <1>4 DEF AddSponsoredUserToRegistrar
    <2> QED
      BY <2>1, ThenDecided, ServeStep
  <1>5. CASE AddUserToAdmin(q)
    <2> DEFINE u == [Target EXCEPT !.staff = TRUE, !.registrar = NoRegistrar]
    <2>1. /\ u \in User /\ u.exists /\ u.sponsored_root = Target.sponsored_root
          /\ u.registrar = NoRegistrar
      BY TargetTyped DEF User
    <2>2. /\ row.exists => u.sponsored_root = row.sponsored_root
          /\ ~row.exists => Members = {}
      BY <2>1, TargetTyped
    <2>3. Serve(q, IF row.exists THEN [Save(u) EXCEPT !.at = "members"] ELSE Save(u))
      BY <1>5 DEF AddUserToAdmin
    <2> HIDE DEF u
    <2>4. CASE row.exists
      BY <2>1, <2>2, <2>3, <2>4, SaveDecided, ServeStep
    <2>5. CASE ~row.exists
      BY <2>1, <2>2, <2>3, <2>5, SaveDecided, ServeStep
    <2> QED
      BY <2>4, <2>5
  <1> QED
    BY <1>1, <1>2, <1>3, <1>4, <1>5

\* A view that saves the user, who belongs to no more than before.
LEMMA SaveStep ==
    ASSUME Inv, NEW q \in Requests, NEW u \in User, Serve(q, Save(u)), u.exists,
           row.exists => u.sponsored_root = row.sponsored_root,
           Elevated(u) => Elevated(row),
           u.staff /\ u.registrar # NoRegistrar => past.elevated
    PROVE  Inv'
  BY SaveDecided, ServeStep

\* Signing up, and what follows it.
LEMMA SignUpStep ==
    ASSUME Inv, NEW q \in Requests,
           \/ sign_up(q) \/ sign_up_courts(q) \/ SetPassword(q) \/ settings_profile(q)
           \/ \E r \in Registrars :
                 \/ sign_up_libraries(q, r) \/ sign_up_orgs(q, r)
                 \/ approve_pending_registrar(q, r)
    PROVE  Inv'
  <1>1. CASE sign_up(q)
    BY <1>1, UserTyped, SaveStep DEF sign_up, Elevated
  <1>2. CASE sign_up_courts(q)
    BY <1>2, TargetTyped, SaveStep DEF sign_up_courts
  <1>3. CASE SetPassword(q)
    <2> DEFINE u == IF row.confirmed THEN row
                    ELSE [row EXCEPT !.active = TRUE, !.confirmed = TRUE]
    <2>1. /\ u \in User /\ u.exists /\ u.sponsored_root = row.sponsored_root
          /\ u.staff = row.staff /\ u.registrar = row.registrar
      BY <1>3, TargetTyped DEF SetPassword, User
    <2>2. Serve(q, Save(u))
      BY <1>3 DEF SetPassword
    <2> HIDE DEF u
    <2> QED
      BY <2>1, <2>2, TargetTyped, SaveStep DEF Elevated
  <1>4. CASE settings_profile(q)
    BY <1>4, TargetTyped, SaveStep DEF settings_profile, MayLogIn
  <1>5. ASSUME NEW r \in Registrars, sign_up_libraries(q, r) PROVE Inv'
    <2> DEFINE u == [Target EXCEPT !.pending = r]
    <2>1. /\ u \in User /\ u.exists /\ u.sponsored_root = Target.sponsored_root
          /\ u.staff = Target.staff /\ u.registrar = Target.registrar
      BY TargetTyped DEF User
    <2>2. Serve(q, Save(u))
      BY <1>5 DEF sign_up_libraries
    <2> HIDE DEF u
    <2> QED
      BY <2>1, <2>2, TargetTyped, SaveStep DEF Elevated
  <1>6. ASSUME NEW r \in Registrars, sign_up_orgs(q, r) PROVE Inv'
    <2> DEFINE u == IF row.exists THEN [row EXCEPT !.pending = r] ELSE NewUser
    <2>1. /\ u \in User /\ u.exists
          /\ row.exists => u.sponsored_root = row.sponsored_root
          /\ u.staff => row.staff
          /\ u.registrar # NoRegistrar => u.registrar = row.registrar
      BY TargetTyped, UserTyped DEF User
    <2>2. Serve(q, Save(u))
      BY <1>6 DEF sign_up_orgs
    <2> HIDE DEF u
    <2> QED
      BY <2>1, <2>2, TargetTyped, SaveStep DEF Elevated
  <1>7. ASSUME NEW r \in Registrars, approve_pending_registrar(q, r) PROVE Inv'
    <2>1. CASE /\ row.exists
               /\ Serve(q, [Save([row EXCEPT !.registrar = r, !.pending = NoRegistrar])
                              EXCEPT !.at = "approve", !.registrar = r])
      <3> DEFINE u == [row EXCEPT !.registrar = r, !.pending = NoRegistrar]
      <3>1. u \in User /\ u.exists /\ u.sponsored_root = row.sponsored_root
        BY <2>1, TargetTyped DEF User
      <3> HIDE DEF u
      <3>2. Save(u) \in Request /\ Save(u).copy = u /\ Save(u).then = "idle"
        BY <3>1, SaveTyped, TargetTyped
      <3> DEFINE next == [Save(u) EXCEPT !.at = "approve", !.registrar = r]
      <3>3. /\ next \in Request /\ next.at = "approve" /\ next.then = "idle"
            /\ next.registrar = r /\ next.copy = u
        BY <3>2 DEF Request
      <3>4. Serve(q, next)
        BY <2>1 DEF u
      <3> HIDE DEF next
      <3>5. RequestInv(next)
        BY <3>1, <3>3 DEF RequestInv, Decided, Fresh, Writing
      <3> QED
        BY <3>3, <3>4, <3>5, ServeStep
    <2>2. CASE row.exists /\ Serve(q, Save([row EXCEPT !.pending = r]))
      <3> DEFINE u == [row EXCEPT !.pending = r]
      <3>1. /\ u \in User /\ u.exists /\ u.sponsored_root = row.sponsored_root
            /\ u.staff = row.staff /\ u.registrar = row.registrar
        BY <2>2, TargetTyped DEF User
      <3>2. Serve(q, Save(u))
        BY <2>2
      <3> HIDE DEF u
      <3> QED
        BY <3>1, <3>2, TargetTyped, SaveStep DEF Elevated
    <2> QED
      BY <1>7, <2>1, <2>2 DEF approve_pending_registrar
  <1> QED
    BY <1>1, <1>2, <1>3, <1>4, <1>5, <1>6, <1>7

\* Changing what an account belongs to.
LEMMA ChangeStep ==
    ASSUME Inv, NEW q \in Requests,
           \/ \E o \in Orgs :
                 \/ organization_user_leave_organization(q, o)
                 \/ manage_single_organization_user_expiration_date(q, o)
           \/ \E r \in Registrars :
                 toggle_status(q, r) \/ manage_single_sponsored_user_expiration_date(q, r)
           \/ delete_user_in_group(q) \/ reactive_user_in_group(q)
           \/ manage_single_registrar_user_remove(q) \/ manage_single_admin_user_remove(q)
    PROVE  Inv'
  <1>1. ASSUME NEW o \in Orgs, organization_user_leave_organization(q, o) PROVE Inv'
    <2>1. /\ row.exists
          /\ Serve(q, [Save(row) EXCEPT !.at = "members", !.org = o])
      BY <1>1 DEF organization_user_leave_organization, MayLogIn
    <2>2. /\ [Save(row) EXCEPT !.at = "members", !.org = o] \in Request
          /\ RequestInv([Save(row) EXCEPT !.at = "members", !.org = o])
      BY <2>1, TargetTyped, SaveDecided
    <2> QED
      BY <2>1, <2>2, ServeStep
  <1>2. ASSUME NEW o \in Orgs, manage_single_organization_user_expiration_date(q, o) PROVE Inv'
    BY <1>2, EditDecided, TermTyped, ServeStep
    DEF manage_single_organization_user_expiration_date
  <1>3. ASSUME NEW r \in Registrars, toggle_status(q, r) PROVE Inv'
    <2>1. PICK status \in {"active", "inactive"} :
             EditSponsorship(q, r, [sponsor[r] EXCEPT !.status = status])
      BY <1>3 DEF toggle_status
    <2>2. [sponsor[r] EXCEPT !.status = status] \in Sponsorship
      BY DEF Inv, MembershipInv, TypeOK, Sponsorship
    <2> QED
      BY <2>1, <2>2, EditDecided, ServeStep DEF EditSponsorship
  <1>4. ASSUME NEW r \in Registrars, manage_single_sponsored_user_expiration_date(q, r) PROVE Inv'
    <2>1. PICK due \in FormDates : EditSponsorship(q, r, [sponsor[r] EXCEPT !.due = due])
      BY <1>4 DEF manage_single_sponsored_user_expiration_date
    <2>2. [sponsor[r] EXCEPT !.due = due] \in Sponsorship
      BY DEF Inv, MembershipInv, TypeOK, Sponsorship, FormDates, Due
    <2> QED
      BY <2>1, <2>2, EditDecided, ServeStep DEF EditSponsorship
  <1>5. CASE delete_user_in_group(q)
    <2> DEFINE u == [row EXCEPT !.active = FALSE, !.registrar = NoRegistrar]
    <2>1. /\ u \in User /\ u.exists /\ u.sponsored_root = row.sponsored_root
          /\ u.registrar = NoRegistrar
      BY <1>5, TargetTyped DEF delete_user_in_group, User
    <2>2. Serve(q, [Save(u) EXCEPT !.at = IF row.confirmed THEN "members" ELSE "delete"])
      BY <1>5 DEF delete_user_in_group
    <2> HIDE DEF u
    <2>3. CASE row.confirmed
      BY <2>1, <2>2, <2>3, TargetTyped, SaveDecided, ServeStep
    <2>4. CASE ~row.confirmed
      <3> DEFINE next == [Save(u) EXCEPT !.at = "delete"]
      <3>1. Save(u) \in Request /\ Save(u).then = "idle"
        BY <2>1, SaveTyped, TargetTyped
      <3>2. next \in Request /\ next.at = "delete" /\ next.then = "idle"
        BY <3>1 DEF Request
      <3>3. Serve(q, next)
        BY <2>2, <2>4
      <3> HIDE DEF next
      <3>4. RequestInv(next)
        BY <2>4, <3>2 DEF RequestInv, Decided, Fresh, Writing
      <3> QED
        BY <3>2, <3>3, <3>4, ServeStep
    <2> QED
      BY <2>3, <2>4
  <1>6. CASE reactive_user_in_group(q)
    <2> DEFINE u == [row EXCEPT !.active = TRUE]
    <2>1. /\ u \in User /\ u.exists /\ u.sponsored_root = row.sponsored_root
          /\ u.staff = row.staff /\ u.registrar = row.registrar
      BY <1>6, TargetTyped DEF reactive_user_in_group, User
    <2>2. Serve(q, Save(u))
      BY <1>6 DEF reactive_user_in_group
    <2> HIDE DEF u
    <2> QED
      BY <2>1, <2>2, TargetTyped, SaveStep DEF Elevated
  <1>7. CASE manage_single_registrar_user_remove(q)
    <2> DEFINE u == [row EXCEPT !.registrar = NoRegistrar]
    <2>0. row.exists
      BY <1>7, UserTyped DEF manage_single_registrar_user_remove, Inv, MembershipInv, TypeOK
    <2>1. /\ u \in User /\ u.exists /\ u.sponsored_root = row.sponsored_root
          /\ u.staff = row.staff /\ u.registrar = NoRegistrar
      BY <2>0, TargetTyped DEF User
    <2>2. Serve(q, Save(u))
      BY <1>7 DEF manage_single_registrar_user_remove
    <2> HIDE DEF u
    <2> QED
      BY <2>1, <2>2, TargetTyped, SaveStep DEF Elevated
  <1>8. CASE manage_single_admin_user_remove(q)
    <2> DEFINE u == [row EXCEPT !.staff = FALSE]
    <2>1. /\ u \in User /\ u.exists /\ u.sponsored_root = row.sponsored_root
          /\ ~u.staff /\ u.registrar = row.registrar
      BY <1>8, TargetTyped DEF manage_single_admin_user_remove, User
    <2>2. Serve(q, Save(u))
      BY <1>8 DEF manage_single_admin_user_remove
    <2> HIDE DEF u
    <2> QED
      BY <2>1, <2>2, TargetTyped, SaveStep DEF Elevated
  <1> QED
    BY <1>1, <1>2, <1>3, <1>4, <1>5, <1>6, <1>7, <1>8

LEMMA ViewStep ==
    ASSUME Inv, NEW q \in Requests, View(q)
    PROVE  Inv'
  BY AddStep, SignUpStep, ChangeStep DEF View

----------------------------------------------------------------------------
(* Writes.                                                                 *)

\* What the history says only grows, and a request that was overtaken says so.
LEMMA WroteKept ==
    ASSUME Inv, NEW q \in Requests, Wrote(q, "row") \/ Wrote(q, "sponsor")
    PROVE  /\ past' \in Past
           /\ past'.elevated = past.elevated /\ past'.suspended = past.suspended
           /\ past.row => past'.row
           /\ past.sponsor => past'.sponsor
           /\ Wrote(q, "row") /\ ~past'.row => ~request[q].stale /\ Fresh(request[q])
           /\ Wrote(q, "sponsor") /\ ~past'.sponsor => ~request[q].stale /\ Fresh(request[q])
  <1>1. past \in Past /\ request[q] \in Request /\ RequestInv(request[q])
    BY DEF Inv, MembershipInv, TypeOK
  <1>2. request[q].stale \in BOOLEAN
    BY <1>1 DEF Request
  <1> QED
    BY <1>1, <1>2 DEF Wrote, Past, RequestInv

\* The requests after a write.
LEMMA StepInv ==
    ASSUME Inv, NEW q \in Requests, NEW next \in Request, Step(q, next), RequestInv(next)',
           past.elevated => past'.elevated
    PROVE  /\ request' \in [Requests -> Request]
           /\ (\A p \in Requests : RequestInv(request[p]))'
  <1>1. request' = [Overtaken EXCEPT ![q] = next]
    BY DEF Step
  <1>2. ASSUME NEW p \in Requests PROVE request'[p] \in Request /\ RequestInv(request[p])'
    <2>1. CASE p = q
      BY <1>1, <2>1 DEF Overtaken
    <2>2. CASE p # q
      <3>1. request'[p] = Overtaken[p]
        BY <1>1, <2>2 DEF Overtaken
      <3> QED
        BY <3>1, OvertakenInv
    <2> QED
      BY <2>1, <2>2
  <1>3. request' = [p \in Requests |-> request'[p]]
    BY <1>1 DEF Overtaken
  <1> QED
    BY <1>2, <1>3

\* The parts of the invariant, for proofs about writes.
LEMMA Parts ==
    ASSUME Inv, NEW q \in Requests
    PROVE  /\ TypeOK /\ StaffOrRegistrar /\ RegistrarOrMember
           /\ row \in User /\ row.exists \in BOOLEAN
           /\ ~row.exists => Members = {} /\ \A r \in Registrars : sponsor[r].status = "none"
           /\ request[q] \in Request /\ request[q].copy \in User
           /\ Decided(request[q]) /\ (request[q].stale \/ Fresh(request[q]))
           /\ past \in Past
  BY IdleTyped DEF Inv, MembershipInv, TypeOK, User, Request, RequestInv

\* A request that goes on to another table.
LEMMA GoesOn ==
    ASSUME NEW me \in Request, NEW at \in {"row", "join", "sponsor"}
    PROVE  \E next \in Request :
             /\ next = [me EXCEPT !.at = at]
             /\ next.at = at /\ next.then = me.then
             /\ next.copy = me.copy /\ next.stale = me.stale
             /\ next.registrar = me.registrar /\ next.edit = me.edit
  <1> DEFINE next == [me EXCEPT !.at = at]
  <1>1. next \in Request
    BY DEF Request
  <1>2. /\ next.at = at /\ next.then = me.then
        /\ next.copy = me.copy /\ next.stale = me.stale
        /\ next.registrar = me.registrar /\ next.edit = me.edit
    BY DEF Request
  <1> QED
    BY <1>1, <1>2

LEMMA WriteMembersStep ==
    ASSUME Inv, NEW q \in Requests, WriteMembers(q)
    PROVE  Inv'
  <1> DEFINE me == request[q]
  <1>1. /\ me.at = "members" /\ Wrote(q, "row") /\ Step(q, [me EXCEPT !.at = "row"])
        /\ orgs' = [o \in Orgs |-> IF me.org \in {NoOrg, o} THEN "none" ELSE orgs[o]]
        /\ UNCHANGED <<row, sponsor, folder, approved, served>>
    BY DEF WriteMembers
  <1>2. PICK next \in Request :
           /\ next = [me EXCEPT !.at = "row"]
           /\ next.at = "row" /\ next.then = "idle" /\ next.copy = me.copy
           /\ next.stale = me.stale /\ next.registrar = me.registrar /\ next.edit = me.edit
    BY <1>1, Parts DEF Request, Decided
  <1>3. Members' \subseteq Members /\ (me.org = NoOrg => Members' = {})
    BY <1>1 DEF Members
  <1>4. RequestInv(next)'
    <2>1. Decided(next)'
      BY <1>1, <1>2, Parts, WroteKept DEF Decided, Writing
    <2>2. Fresh(me) => Fresh(next)'
      BY <1>1, <1>2, <1>3 DEF Fresh
    <2> QED
      BY <1>2, <2>1, <2>2, Parts DEF RequestInv
  <1>5. /\ request' \in [Requests -> Request]
        /\ (\A p \in Requests : RequestInv(request[p]))'
    BY <1>1, <1>2, <1>4, StepInv, WroteKept
  <1>6. orgs' \in [Orgs -> Affiliation]
    BY <1>1, Parts DEF TypeOK, Affiliation
  <1>7. TypeOK'
    BY <1>1, <1>3, <1>5, <1>6, Parts, WroteKept DEF TypeOK
  <1>8. StaffOrRegistrar' /\ RegistrarOrMember'
    BY <1>1, <1>3, Parts, WroteKept DEF StaffOrRegistrar, RegistrarOrMember
  <1>9. RootsBounded' /\ SponsorshipHasFolder' /\ ReadOnlyIsInactive'
    BY <1>1, WroteKept DEF Inv, RootsBounded, SponsorshipHasFolder, ReadOnlyIsInactive
  <1> QED
    BY <1>5, <1>7, <1>8, <1>9 DEF Inv, MembershipInv

LEMMA WriteRowStep ==
    ASSUME Inv, NEW q \in Requests, WriteRow(q)
    PROVE  Inv'
  <1> DEFINE me == request[q]
             fails == row.exists = me.new
  <1>1. /\ me.at = "row"
        /\ Step(q, IF fails \/ me.then = "idle" THEN Idle ELSE [me EXCEPT !.at = me.then])
        /\ row' = IF fails THEN row ELSE me.copy
        /\ past' = [past EXCEPT !.row = @ \/ (me.stale /\ ~fails)]
        /\ UNCHANGED <<orgs, sponsor, folder, approved, served>>
    BY DEF WriteRow
  <1>2. /\ me.copy.exists /\ me.stale \in BOOLEAN
        /\ ~me.stale => Fresh(me)
    BY <1>1, Parts DEF Decided, Writing, Request
  <1>3. /\ past' \in Past
        /\ past'.elevated = past.elevated /\ past'.suspended = past.suspended
        /\ past'.sponsor = past.sponsor
        /\ past.row => past'.row
        /\ ~past'.row => fails \/ ~me.stale
    BY <1>1, <1>2, Parts DEF Past
  <1>4. /\ request' \in [Requests -> Request]
        /\ (\A p \in Requests : RequestInv(request[p]))'
    <2>1. CASE fails \/ me.then = "idle"
      BY <1>1, <1>3, <2>1, IdleTyped, IdleInv, StepInv
    <2>2. CASE ~fails /\ me.then # "idle"
      <3>1. me.then \in {"join", "sponsor"}
        BY <2>2, Parts DEF Request
      <3>2. PICK next \in Request :
               /\ next = [me EXCEPT !.at = me.then]
               /\ next.at = me.then /\ next.then = me.then
               /\ next.copy = me.copy /\ next.stale = me.stale
               /\ next.registrar = me.registrar /\ next.edit = me.edit
        <4>1. me \in Request /\ me.then \in {"row", "join", "sponsor"}
          BY <3>1, Parts
        <4> HIDE DEF me
        <4> QED
          BY <4>1, GoesOn
      <3>3. Decided(next)'
        BY <1>1, <1>2, <1>3, <3>1, <3>2, Parts DEF Decided, Writing
      <3>4. row' = me.copy
        BY <1>1, <2>2
      <3>5. Fresh(me) => Fresh(next)'
        BY <1>1, <3>1, <3>2, <3>4 DEF Fresh
      <3>6. RequestInv(next)'
        BY <1>2, <3>2, <3>3, <3>5 DEF RequestInv
      <3>7. Step(q, next)
        BY <1>1, <2>2, <3>2
      <3> QED
        BY <1>3, <3>6, <3>7, StepInv
    <2> QED
      BY <2>1, <2>2
  <1>5. TypeOK'
    <2>1. row' \in User
      BY <1>1, Parts
    <2>2. ~row'.exists => fails
      BY <1>1, <1>2
    <2> QED
      BY <1>1, <1>3, <1>4, <2>1, <2>2, Parts DEF TypeOK, Members
  <1>6. StaffOrRegistrar'
    BY <1>1, <1>3, Parts DEF StaffOrRegistrar, Decided, Writing
  <1>7. RegistrarOrMember'
    BY <1>1, <1>2, <1>3, Parts DEF RegistrarOrMember, Fresh, Elevated, Members
  <1>8. SponsorshipHasFolder'
    <2> SUFFICES ASSUME NEW r \in Registrars, sponsor[r].status # "none", ~past'.row
                 PROVE  folder[r].root = row'.sponsored_root
      BY <1>1 DEF Inv, SponsorshipHasFolder
    <2>1. row.exists /\ folder[r].root = row.sponsored_root
      BY <1>3, Parts DEF Inv, SponsorshipHasFolder
    <2> QED
      BY <1>1, <1>2, <1>3, <2>1 DEF Fresh
  <1>9. RootsBounded' /\ ReadOnlyIsInactive'
    BY <1>1, <1>3 DEF Inv, RootsBounded, ReadOnlyIsInactive
  <1> QED
    BY <1>4, <1>5, <1>6, <1>7, <1>8, <1>9 DEF Inv, MembershipInv

LEMMA ApproveStep ==
    ASSUME Inv, NEW q \in Requests, Approve(q)
    PROVE  Inv'
  <1> DEFINE me == request[q]
  <1>1. /\ me.at = "approve" /\ Step(q, Idle)
        /\ IF row.exists
           THEN row' = me.copy /\ approved' = approved \cup {me.registrar}
           ELSE UNCHANGED <<row, approved>>
        /\ past' = [past EXCEPT !.row = @ \/ (me.stale /\ row.exists),
                                !.elevated = @ \/ me.copy.staff \/ Members # {}]
        /\ UNCHANGED <<orgs, sponsor, folder, served>>
    BY DEF Approve
  <1>2. /\ me.copy.exists /\ me.stale \in BOOLEAN /\ me.copy.staff \in BOOLEAN
        /\ me.registrar \in Registrars
        /\ ~me.stale => Fresh(me)
    BY <1>1, Parts DEF Decided, Writing, Request, User
  <1>3. /\ past' \in Past
        /\ past'.suspended = past.suspended /\ past'.sponsor = past.sponsor
        /\ past.row => past'.row
        /\ past.elevated => past'.elevated
        /\ ~past'.row => ~row.exists \/ ~me.stale
        /\ ~past'.elevated => ~me.copy.staff /\ Members = {}
    BY <1>1, <1>2, Parts DEF Past
  <1>4. /\ request' \in [Requests -> Request]
        /\ (\A p \in Requests : RequestInv(request[p]))'
    BY <1>1, <1>3, IdleTyped, IdleInv, StepInv
  <1>5. TypeOK'
    BY <1>1, <1>2, <1>3, <1>4, Parts DEF TypeOK, Members
  <1>6. StaffOrRegistrar' /\ RegistrarOrMember'
    BY <1>1, <1>3, Parts DEF StaffOrRegistrar, RegistrarOrMember, Members
  <1>7. SponsorshipHasFolder'
    <2> SUFFICES ASSUME NEW r \in Registrars, sponsor[r].status # "none", ~past'.row
                 PROVE  folder[r].root = row'.sponsored_root
      BY <1>1 DEF Inv, SponsorshipHasFolder
    <2>1. row.exists /\ folder[r].root = row.sponsored_root
      BY <1>3, Parts DEF Inv, SponsorshipHasFolder
    <2> QED
      BY <1>1, <1>2, <1>3, <2>1 DEF Fresh
  <1>8. RootsBounded' /\ ReadOnlyIsInactive'
    BY <1>1, <1>3 DEF Inv, RootsBounded, ReadOnlyIsInactive
  <1> QED
    BY <1>4, <1>5, <1>6, <1>7, <1>8 DEF Inv, MembershipInv

\* A write of one affiliation, with an account that is there and, as far as the
\* request knows, belongs to nothing else.
LEMMA AffiliationStep ==
    ASSUME Inv, NEW q \in Requests, Wrote(q, "row"), Step(q, Idle),
           UNCHANGED <<row, sponsor, folder, approved, served>>,
           orgs' \in [Orgs -> Affiliation],
           ~row.exists => Members' = {},
           ~past'.row => Members' \subseteq Members \/ MayJoin(row)
    PROVE  Inv'
  <1>1. /\ request' \in [Requests -> Request]
        /\ (\A p \in Requests : RequestInv(request[p]))'
    BY IdleTyped, IdleInv, StepInv, WroteKept
  <1>2. TypeOK'
    BY <1>1, Parts, WroteKept DEF TypeOK
  <1>3. StaffOrRegistrar' /\ RegistrarOrMember'
    BY Parts, WroteKept DEF StaffOrRegistrar, RegistrarOrMember, MayJoin
  <1>4. RootsBounded' /\ SponsorshipHasFolder' /\ ReadOnlyIsInactive'
    BY WroteKept DEF Inv, RootsBounded, SponsorshipHasFolder, ReadOnlyIsInactive
  <1> QED
    BY <1>1, <1>2, <1>3, <1>4 DEF Inv, MembershipInv

LEMMA WriteAffiliationsStep ==
    ASSUME Inv, NEW q \in Requests, Join(q) \/ Redate(q) \/ WriteAffiliation(q)
    PROVE  Inv'
  <1> DEFINE me == request[q]
  <1>1. /\ Step(q, Idle) /\ Wrote(q, "row")
        /\ UNCHANGED <<row, sponsor, folder, approved, served>>
    BY DEF Join, Redate, WriteAffiliation
  <1>2. orgs \in [Orgs -> Affiliation] /\ me.edit.due \in Due
    BY Parts DEF TypeOK, Request, Sponsorship
  <1>3. \/ orgs' = orgs
        \/ orgs' = [orgs EXCEPT ![me.org] = me.edit.due] /\ row.exists
    BY Parts DEF Join, Redate, WriteAffiliation
  <1>4. orgs' \in [Orgs -> Affiliation]
    BY <1>2, <1>3 DEF Affiliation
  <1>5. Members' \subseteq Members \cup {me.org}
    BY <1>2, <1>3 DEF Members
  <1>6. ~row.exists => Members' = {}
    BY <1>3, Parts DEF Members
  <1>7. ~past'.row => Members' \subseteq Members \/ MayJoin(row)
    <2> SUFFICES ASSUME ~past'.row PROVE Members' \subseteq Members \/ MayJoin(row)
      OBVIOUS
    <2>1. Fresh(me)
      BY <1>1, WroteKept
    <2> QED
      BY <1>5, <2>1 DEF Fresh, Join, Redate, WriteAffiliation
  <1> QED
    BY <1>1, <1>4, <1>6, <1>7, AffiliationStep

LEMMA SponsorStep ==
    ASSUME Inv, NEW q \in Requests, Sponsor(q)
    PROVE  Inv'
  <1> PICK me \in Request : me = request[q]
    BY Parts
  <1> PICK r \in Registrars : r = me.registrar
    BY Parts DEF Sponsor, Decided
  <1> PICK root \in Nat : root = SponsoredRoot(me.copy) /\ root # 0
    BY Parts, NextRoot DEF Inv
  <1>1. /\ me.at = "sponsor" /\ Step(q, Idle) /\ Wrote(q, "row")
        /\ UNCHANGED <<orgs, approved, served>>
    BY DEF Sponsor
  <1>2. /\ me.copy \in User /\ me.copy.exists
        /\ me.edit \in Sponsorship /\ me.edit.status = "active"
        /\ me.copy.sponsored_root # 0 => root = me.copy.sponsored_root
        /\ ~past.elevated => ~(me.copy.staff /\ me.copy.registrar # NoRegistrar)
    <2>1. me.copy \in User /\ me.edit \in Sponsorship /\ Decided(me)
      BY Parts DEF Request
    <2> QED
      BY <1>1, <2>1, NextRoot, Parts DEF Inv, Decided, Writing
  <1>3. ~past'.row => row = me.copy
    BY <1>1, WroteKept DEF Fresh
  <1>4. /\ request' \in [Requests -> Request]
        /\ (\A p \in Requests : RequestInv(request[p]))'
    BY <1>1, IdleTyped, IdleInv, StepInv, WroteKept
  <1>5. CASE ~(row.exists /\ sponsor[r].status = "none")
    <2>1. UNCHANGED <<row, sponsor, folder>>
      BY <1>5 DEF Sponsor
    <2>2. MembershipInv'
      BY <1>1, <1>4, <2>1, Parts, WroteKept
      DEF MembershipInv, TypeOK, StaffOrRegistrar, RegistrarOrMember, Members
    <2>3. RootsBounded' /\ SponsorshipHasFolder' /\ ReadOnlyIsInactive'
      BY <1>1, <2>1, WroteKept DEF Inv, RootsBounded, SponsorshipHasFolder, ReadOnlyIsInactive
    <2> QED
      BY <1>4, <2>2, <2>3 DEF Inv
  <1>6. CASE row.exists /\ sponsor[r].status = "none"
    <2>1. /\ sponsor' = [sponsor EXCEPT ![r] = me.edit]
          /\ folder' = [folder EXCEPT ![r] = [root |-> root, read_only |-> FALSE]]
          /\ row' = IF me.copy.sponsored_root # 0 THEN row
                    ELSE [me.copy EXCEPT !.sponsored_root = root]
      BY <1>6 DEF Sponsor
    <2>2. /\ row' \in User /\ row'.exists
          /\ \/ row' = row
             \/ row'.staff = me.copy.staff /\ row'.registrar = me.copy.registrar
          /\ me.copy.sponsored_root = 0 => row'.sponsored_root = root
      BY <1>2, <1>6, <2>1, Parts DEF User, Roots
    <2>3. sponsor' \in [Registrars -> Sponsorship] /\ folder' \in [Registrars -> Folder]
      BY <1>2, <2>1, Parts DEF TypeOK, Folder, Roots
    <2>4. TypeOK'
      BY <1>1, <1>4, <2>2, <2>3, Parts, WroteKept DEF TypeOK
    <2>5. StaffOrRegistrar'
      BY <1>1, <1>2, <2>2, Parts, WroteKept DEF StaffOrRegistrar
    <2>6. RegistrarOrMember'
      BY <1>1, <1>3, <2>2, Parts, WroteKept DEF RegistrarOrMember, Members
    <2>7. RootsBounded'
      <3>1. PICK b \in Nat : \A p \in Registrars : folder[p].root <= b
        BY DEF Inv, RootsBounded
      <3>2. \A p \in Registrars : folder[p].root \in Nat
        BY Parts DEF TypeOK, Folder, Roots
      <3>3. ASSUME NEW p \in Registrars PROVE folder'[p].root <= b + root
        <4>1. folder'[p].root \in {folder[p].root, root}
          BY <2>1, Parts DEF TypeOK
        <4> QED
          BY <3>1, <3>2, <4>1
      <3>4. b + root \in Nat
        BY <3>1
      <3> QED
        BY <3>3, <3>4 DEF RootsBounded
    <2>8. SponsorshipHasFolder'
      <3> SUFFICES ASSUME NEW p \in Registrars, sponsor'[p].status # "none"
                   PROVE  /\ folder'[p].root # 0
                          /\ past'.row \/ folder'[p].root = row'.sponsored_root
        BY DEF SponsorshipHasFolder
      <3>1. CASE p = r
        <4>1. folder'[p].root = root
          BY <2>1, <3>1, Parts DEF TypeOK
        <4> QED
          BY <1>2, <1>3, <2>1, <2>2, <4>1
      <3>2. CASE p # r
        <4>1. folder'[p] = folder[p] /\ sponsor'[p] = sponsor[p]
          BY <2>1, <3>2, Parts DEF TypeOK
        <4>2. /\ folder[p].root # 0
              /\ past.row \/ folder[p].root = row.sponsored_root
          BY <4>1 DEF Inv, SponsorshipHasFolder
        <4> QED
          BY <1>1, <1>3, <2>1, <4>1, <4>2, WroteKept
      <3> QED
        BY <3>1, <3>2
    <2>9. ReadOnlyIsInactive'
      <3> SUFFICES ASSUME ~past'.suspended, ~past'.sponsor, NEW p \in Registrars
                   PROVE  folder'[p].read_only <=> sponsor'[p].status = "inactive"
        BY DEF ReadOnlyIsInactive
      <3>1. folder[p].read_only <=> sponsor[p].status = "inactive"
        BY <1>1, WroteKept DEF Inv, ReadOnlyIsInactive
      <3> QED
        BY <1>2, <2>1, <3>1, Parts DEF TypeOK
    <2> QED
      BY <1>4, <2>4, <2>5, <2>6, <2>7, <2>8, <2>9 DEF Inv, MembershipInv
  <1> QED
    BY <1>5, <1>6

LEMMA WriteSponsorshipStep ==
    ASSUME Inv, NEW q \in Requests, WriteSponsorship(q)
    PROVE  Inv'
  <1> PICK me \in Request : me = request[q]
    BY Parts
  <1> PICK r \in Registrars : r = me.registrar
    BY Parts DEF WriteSponsorship, Decided
  <1>1. /\ me.at = "sponsorship" /\ Step(q, Idle) /\ Wrote(q, "sponsor")
        /\ UNCHANGED <<row, orgs, approved, served>>
        /\ IF sponsor[r].status # "none"
           THEN /\ sponsor' = [sponsor EXCEPT ![r] = me.edit]
                /\ folder' = [folder EXCEPT ![r].read_only =
                                ReadOnlyAfter(me.known.status, me.edit.status, @)]
           ELSE UNCHANGED <<sponsor, folder>>
    BY DEF WriteSponsorship
  <1>2. /\ me.edit \in Sponsorship
        /\ sponsor \in [Registrars -> Sponsorship] /\ folder \in [Registrars -> Folder]
    BY Parts DEF TypeOK, Request
  <1>3. /\ request' \in [Requests -> Request]
        /\ (\A p \in Requests : RequestInv(request[p]))'
    BY <1>1, IdleTyped, IdleInv, StepInv, WroteKept
  <1>4. ASSUME NEW p \in Registrars
        PROVE  /\ folder'[p] \in Folder /\ folder'[p].root = folder[p].root
               /\ sponsor'[p] \in Sponsorship
               /\ sponsor[p].status = "none" => sponsor'[p] = sponsor[p]
    <2>1. CASE p = r /\ sponsor[r].status # "none"
      <3>1. ReadOnlyAfter(me.known.status, me.edit.status, folder[r].read_only) \in BOOLEAN
        BY <1>2 DEF ReadOnlyAfter, Folder
      <3>2. folder'[p] = [folder[p] EXCEPT !.read_only =
                            ReadOnlyAfter(me.known.status, me.edit.status, @)]
        BY <1>1, <1>2, <2>1
      <3> QED
        BY <1>1, <1>2, <2>1, <3>1, <3>2 DEF Folder
    <2>2. CASE ~(p = r /\ sponsor[r].status # "none")
      BY <1>1, <1>2, <2>2
    <2> QED
      BY <2>1, <2>2
  <1>5. folder' \in [Registrars -> Folder] /\ sponsor' \in [Registrars -> Sponsorship]
    BY <1>1, <1>2, <1>4
  <1>6. TypeOK'
    BY <1>1, <1>3, <1>4, <1>5, IdleTyped, Parts, WroteKept DEF TypeOK, Members
  <1>7. StaffOrRegistrar' /\ RegistrarOrMember'
    BY <1>1, Parts, WroteKept DEF StaffOrRegistrar, RegistrarOrMember, Members
  <1>8. RootsBounded' /\ SponsorshipHasFolder'
    BY <1>1, <1>4, WroteKept DEF Inv, RootsBounded, SponsorshipHasFolder
  <1>9. ReadOnlyIsInactive'
    <2> SUFFICES ASSUME ~past'.suspended, ~past'.sponsor, NEW p \in Registrars
                 PROVE  folder'[p].read_only <=> sponsor'[p].status = "inactive"
      BY DEF ReadOnlyIsInactive
    <2>1. folder[p].read_only <=> sponsor[p].status = "inactive"
      BY <1>1, WroteKept DEF Inv, ReadOnlyIsInactive
    <2>2. me.known = sponsor[r]
      BY <1>1, WroteKept DEF Fresh
    <2>3. CASE p = r /\ sponsor[r].status # "none"
      <3>1. sponsor'[p] = me.edit
        BY <1>1, <1>2, <2>3
      <3>2. folder'[p].read_only =
              ReadOnlyAfter(me.known.status, me.edit.status, folder[p].read_only)
        BY <1>1, <1>2, <2>3 DEF Folder
      <3> QED
        BY <2>1, <2>2, <2>3, <3>1, <3>2 DEF ReadOnlyAfter
    <2>4. CASE ~(p = r /\ sponsor[r].status # "none")
      BY <1>1, <1>2, <2>1, <2>4
    <2> QED
      BY <2>3, <2>4
  <1> QED
    BY <1>3, <1>6, <1>7, <1>8, <1>9 DEF Inv, MembershipInv

LEMMA DeleteStep ==
    ASSUME Inv, NEW q \in Requests, Delete(q)
    PROVE  Inv'
  <1>1. /\ Step(q, Idle) /\ Wrote(q, "row")
        /\ row' = NoUser
        /\ orgs' = [o \in Orgs |-> "none"]
        /\ sponsor' = [r \in Registrars |-> NoSponsorship]
        /\ folder' = [r \in Registrars |-> NoFolder]
        /\ UNCHANGED <<approved, served>>
    BY DEF Delete
  <1>2. /\ request' \in [Requests -> Request]
        /\ (\A p \in Requests : RequestInv(request[p]))'
    BY <1>1, IdleTyped, IdleInv, StepInv, WroteKept
  <1>3. Members' = {} /\ orgs' \in [Orgs -> Affiliation]
    BY <1>1 DEF Members, Affiliation
  <1>4. TypeOK'
    BY <1>1, <1>2, <1>3, UserTyped, IdleTyped, Parts, WroteKept DEF TypeOK
  <1>5. StaffOrRegistrar' /\ RegistrarOrMember'
    BY <1>1, <1>3, UserTyped DEF StaffOrRegistrar, RegistrarOrMember
  <1>6. RootsBounded' /\ SponsorshipHasFolder' /\ ReadOnlyIsInactive'
    BY <1>1, IdleTyped DEF RootsBounded, SponsorshipHasFolder, ReadOnlyIsInactive
  <1> QED
    BY <1>2, <1>4, <1>5, <1>6 DEF Inv, MembershipInv

LEMMA WriteStep ==
    ASSUME Inv, NEW q \in Requests, Write(q)
    PROVE  Inv'
  BY WriteMembersStep, WriteRowStep, ApproveStep, WriteAffiliationsStep, SponsorStep,
     WriteSponsorshipStep, DeleteStep DEF Write

----------------------------------------------------------------------------
(* What happens beside the requests.                                       *)

\* A step beside the requests that leaves the row and the folders alone, adds no
\* member and changes the standing of no sponsorship but to suspend it.
LEMMA BesideStep ==
    ASSUME Inv, request' = Overtaken,
           UNCHANGED <<row, folder>>, served' \in 0..MaxRequests,
           approved' \subseteq Registrars,
           orgs' \in [Orgs -> Affiliation], Members' \subseteq Members,
           sponsor' \in [Registrars -> Sponsorship],
           \A r \in Registrars :
             /\ sponsor[r].status = "none" => sponsor'[r].status = "none"
             /\ sponsor[r] = NoSponsorship => sponsor'[r] = NoSponsorship
             /\ sponsor'[r].status = sponsor[r].status \/ past'.suspended,
           past' \in Past, past.suspended => past'.suspended,
           past'.row = past.row, past'.sponsor = past.sponsor, past'.elevated = past.elevated
    PROVE  Inv'
  <1>1. ASSUME NEW p \in Requests
        PROVE  request'[p] \in Request /\ RequestInv(request[p])'
    <2>1. request'[p] = Overtaken[p]
      OBVIOUS
    <2> QED
      BY <2>1, OvertakenInv
  <1>2. request' \in [Requests -> Request]
    BY <1>1 DEF Overtaken
  <1>3. TypeOK /\ StaffOrRegistrar /\ RegistrarOrMember
    BY DEF Inv, MembershipInv
  <1>4. TypeOK'
    BY <1>2, <1>3 DEF TypeOK
  <1>5. StaffOrRegistrar' /\ RegistrarOrMember'
    BY <1>3 DEF StaffOrRegistrar, RegistrarOrMember
  <1>6. RootsBounded' /\ SponsorshipHasFolder' /\ ReadOnlyIsInactive'
    BY DEF Inv, RootsBounded, SponsorshipHasFolder, ReadOnlyIsInactive
  <1> QED
    BY <1>1, <1>4, <1>5, <1>6 DEF Inv, MembershipInv

LEMMA DenyStep ==
    ASSUME Inv, NEW r \in Registrars, Deny(r)
    PROVE  Inv'
  <1>1. TypeOK
    BY DEF Inv, MembershipInv
  <1>2. served' \in 0..MaxRequests
    BY <1>1, MembershipsAssumption DEF TypeOK, Deny
  <1> QED
    BY <1>1, <1>2, BesideStep DEF TypeOK, Deny, Members

LEMMA RemoveStep ==
    ASSUME Inv, NEW o \in Orgs, manage_single_organization_user_remove(o)
    PROVE  Inv'
  <1>1. TypeOK
    BY DEF Inv, MembershipInv
  <1>2. served' \in 0..MaxRequests
    BY <1>1, MembershipsAssumption DEF TypeOK, manage_single_organization_user_remove
  <1>3. orgs' \in [Orgs -> Affiliation] /\ Members' \subseteq Members
    BY <1>1 DEF TypeOK, manage_single_organization_user_remove, Members, Affiliation
  <1> QED
    BY <1>1, <1>2, <1>3, BesideStep DEF TypeOK, manage_single_organization_user_remove

LEMMA DayPassesStep ==
    ASSUME Inv, DayPasses
    PROVE  Inv'
  <1>1. TypeOK
    BY DEF Inv, MembershipInv
  <1>2. orgs' \in [Orgs -> Affiliation] /\ Members' \subseteq Members
    BY <1>1 DEF TypeOK, DayPasses, Members, Affiliation, Due
  <1>3. ASSUME NEW r \in Registrars
        PROVE  /\ sponsor'[r] \in Sponsorship /\ sponsor'[r].status = sponsor[r].status
               /\ sponsor[r] = NoSponsorship => sponsor'[r] = NoSponsorship
    BY <1>1 DEF TypeOK, DayPasses, Sponsorship, Due, NoSponsorship
  <1>4. sponsor' \in [Registrars -> Sponsorship]
    BY <1>3 DEF DayPasses
  <1> QED
    BY <1>1, <1>2, <1>3, <1>4, BesideStep DEF TypeOK, DayPasses

LEMMA ExpireAffiliationsStep ==
    ASSUME Inv, remove_expired_organization_user_affiliations
    PROVE  Inv'
  <1>1. TypeOK
    BY DEF Inv, MembershipInv
  <1>2. orgs' \in [Orgs -> Affiliation] /\ Members' \subseteq Members
    BY <1>1 DEF TypeOK, remove_expired_organization_user_affiliations, Members, Affiliation
  <1> QED
    BY <1>1, <1>2, BesideStep DEF TypeOK, remove_expired_organization_user_affiliations

LEMMA ExpireSponsorshipsStep ==
    ASSUME Inv, deactivate_expired_sponsored_users
    PROVE  Inv'
  <1>1. TypeOK
    BY DEF Inv, MembershipInv
  <1>2. /\ past' \in Past /\ past'.suspended
        /\ past'.row = past.row /\ past'.sponsor = past.sponsor
        /\ past'.elevated = past.elevated
    BY <1>1 DEF TypeOK, deactivate_expired_sponsored_users, Past
  <1>3. ASSUME NEW r \in Registrars
        PROVE  /\ sponsor'[r] \in Sponsorship
               /\ sponsor[r].status = "none" => sponsor'[r] = sponsor[r]
    BY <1>1 DEF TypeOK, deactivate_expired_sponsored_users, Sponsorship
  <1>4. sponsor' \in [Registrars -> Sponsorship]
    BY <1>3 DEF deactivate_expired_sponsored_users
  <1>5. Members' \subseteq Members
    BY DEF deactivate_expired_sponsored_users, Members
  <1> QED
    BY <1>1, <1>2, <1>3, <1>4, <1>5, IdleTyped, BesideStep
    DEF TypeOK, deactivate_expired_sponsored_users

----------------------------------------------------------------------------
(* The theorems.                                                           *)

LEMMA InvInit == Init => Inv
  <1> SUFFICES ASSUME Init PROVE Inv
    OBVIOUS
  <1>1. PICK kind \in {"nobody", "new", "plain", "member", "registrar", "staff"},
             r \in Approved, o \in Orgs, sponsored \in BOOLEAN :
           /\ row = CASE kind = "nobody" -> NoUser
                      [] kind = "new" -> NewUser
                      [] OTHER -> [NewUser EXCEPT
                           !.confirmed = TRUE, !.active = TRUE, !.staff = (kind = "staff"),
                           !.registrar = IF kind = "registrar" THEN r ELSE NoRegistrar,
                           !.sponsored_root = IF sponsored THEN 1 ELSE 0]
           /\ kind \in {"nobody", "new"} => ~sponsored
           /\ orgs = [org \in Orgs |-> IF kind = "member" /\ org = o THEN "never" ELSE "none"]
           /\ sponsor = [q \in Registrars |-> IF sponsored /\ q = r
                           THEN [status |-> "active", due |-> "later"] ELSE NoSponsorship]
           /\ folder = [q \in Registrars |-> IF sponsored /\ q = r
                           THEN [root |-> 1, read_only |-> FALSE] ELSE NoFolder]
    BY DEF Init
  <1>2. r \in Registrars
    BY MembershipsAssumption
  <1>3. /\ row \in User
        /\ kind = "nobody" <=> ~row.exists
        /\ kind = "nobody" => row = NoUser
        /\ row.staff => kind = "staff"
        /\ row.registrar # NoRegistrar => kind = "registrar"
        /\ sponsored => row.sponsored_root = 1
    <2>1. CASE kind = "nobody"
      BY <1>1, <2>1, UserTyped
    <2>2. CASE kind = "new"
      BY <1>1, <2>2, UserTyped
    <2>3. CASE kind \in {"plain", "member", "registrar", "staff"}
      <3>1. row = [NewUser EXCEPT
                     !.confirmed = TRUE, !.active = TRUE, !.staff = (kind = "staff"),
                     !.registrar = IF kind = "registrar" THEN r ELSE NoRegistrar,
                     !.sponsored_root = IF sponsored THEN 1 ELSE 0]
        BY <1>1, <2>3
      <3> QED
        BY <1>2, <2>3, <3>1, UserTyped, ZenonT(60) DEF User, Roots
    <2> QED
      BY <2>1, <2>2, <2>3
  <1>4. /\ orgs \in [Orgs -> Affiliation]
        /\ Members # {} => kind = "member"
    BY <1>1 DEF Affiliation, Due, Members
  <1>5. /\ sponsor \in [Registrars -> Sponsorship]
        /\ folder \in [Registrars -> Folder]
        /\ ~sponsored => \A q \in Registrars : sponsor[q] = NoSponsorship
    BY <1>1, IdleTyped DEF Sponsorship, Due, Folder, Roots
  <1>6. \A q \in Registrars :
           /\ folder[q].root <= 1 /\ ~folder[q].read_only /\ sponsor[q].status # "inactive"
           /\ sponsor[q].status # "none" => sponsored /\ folder[q].root = 1
    BY <1>1, IdleTyped
  <1>7. TypeOK
    BY <1>1, <1>3, <1>4, <1>5, IdleTyped, MembershipsAssumption DEF Init, TypeOK, Past
  <1>8. StaffOrRegistrar /\ RegistrarOrMember
    BY <1>3, <1>4 DEF StaffOrRegistrar, RegistrarOrMember
  <1>9. RootsBounded /\ SponsorshipHasFolder /\ ReadOnlyIsInactive
    BY <1>3, <1>6 DEF RootsBounded, SponsorshipHasFolder, ReadOnlyIsInactive
  <1>10. \A q \in Requests : RequestInv(request[q])
    BY IdleInv DEF Init
  <1> QED
    BY <1>7, <1>8, <1>9, <1>10 DEF Inv, MembershipInv

LEMMA InvStep == Inv /\ [Next]_vars => Inv'
  <1> SUFFICES ASSUME Inv, [Next]_vars PROVE Inv'
    OBVIOUS
  <1>1. CASE UNCHANGED vars
    BY <1>1 DEF vars, tables, Inv, MembershipInv, TypeOK, StaffOrRegistrar, RegistrarOrMember,
                Members, RootsBounded, SponsorshipHasFolder, ReadOnlyIsInactive, RequestInv,
                Decided, Fresh
  <1>2. CASE Next
    BY <1>2, ViewStep, WriteStep, DenyStep, RemoveStep, DayPassesStep, ExpireAffiliationsStep,
       ExpireSponsorshipsStep DEF Next
  <1> QED
    BY <1>1, <1>2

\* What requests have decided on stays true of the tables, however they overlap.
THEOREM Invariant == Spec => []Inv
  <1> QED
    BY InvInit, InvStep, PTL DEF Spec

\* Rows keep their types; whatever views and tasks overlap, no account is staff's
\* and a registrar's (unless staff approve an admin's registrar), and none that a
\* stale copy has not been written to is a registrar's or staff and a member.
THEOREM AccountsAreOfOneKind == Spec => []MembershipInv
  <1>1. Inv => MembershipInv
    BY DEF Inv
  <1> QED
    BY <1>1, Invariant, PTL

\* Sponsorship.save and create_sponsored_folder leave no sponsorship without a
\* folder under a root, nor, but for stale copies, under another root than the user's.
THEOREM SponsorshipsHaveFolders == Spec => []SponsorshipHasFolder
  <1>1. Inv => SponsorshipHasFolder
    BY DEF Inv
  <1> QED
    BY <1>1, Invariant, PTL

\* Folders are locked and unlocked with their sponsorship, but for the nightly task
\* and views that overlap.
THEOREM FoldersFollowSponsorships == Spec => []ReadOnlyIsInactive
  <1>1. Inv => ReadOnlyIsInactive
    BY DEF Inv
  <1> QED
    BY <1>1, Invariant, PTL

\* delete_user_in_group checks the row it loaded.
LEMMA ConfirmedStep ==
    Inv /\ [Next]_vars => (row.confirmed /\ ~past'.row => row'.exists)
  <1> SUFFICES ASSUME Inv, [Next]_vars, row.confirmed, ~past'.row PROVE row'.exists
    OBVIOUS
  <1>1. row.exists
    BY UserTyped DEF Inv, MembershipInv, TypeOK
  <1>2. ASSUME row' = row PROVE row'.exists
    BY <1>1, <1>2
  <1>3. ASSUME NEW q \in Requests, WriteRow(q) PROVE row'.exists
    BY <1>1, <1>3, Parts DEF WriteRow, Decided, Writing
  <1>4. ASSUME NEW q \in Requests, Approve(q) PROVE row'.exists
    BY <1>1, <1>4, Parts DEF Approve, Decided, Writing
  <1>5. ASSUME NEW q \in Requests, Sponsor(q) PROVE row'.exists
    <2>1. request[q].copy.exists /\ request[q].copy \in User
      BY <1>5, Parts DEF Sponsor, Decided, Writing
    <2> QED
      BY <1>1, <1>5, <2>1 DEF Sponsor, User
  <1>6. ASSUME NEW q \in Requests, Delete(q) PROVE row'.exists
    BY <1>6, WroteKept DEF Delete, Fresh
  <1>7. CASE UNCHANGED vars
    BY <1>2, <1>7 DEF vars, tables
  <1>8. ASSUME NEW q \in Requests, View(q) PROVE row'.exists
    <2>1. row' = row
      BY <1>8 DEF View, AddUserToOrganization, AddMultipleUsersToOrganization,
           organization_user_leave_organization,
           manage_single_organization_user_expiration_date, AddUserToRegistrar,
           AddSponsoredUserToRegistrar, sign_up_libraries, sign_up_orgs,
           approve_pending_registrar, toggle_status, EditSponsorship,
           manage_single_sponsored_user_expiration_date, AddUserToAdmin, sign_up,
           sign_up_courts, SetPassword, settings_profile, delete_user_in_group,
           reactive_user_in_group, manage_single_registrar_user_remove,
           manage_single_admin_user_remove, Serve, tables
    <2> QED
      BY <1>2, <2>1
  <1>9. ASSUME NEW q \in Requests,
               \/ WriteMembers(q) \/ Join(q) \/ Redate(q)
               \/ WriteAffiliation(q) \/ WriteSponsorship(q)
        PROVE  row'.exists
    BY <1>2, <1>9 DEF WriteMembers, Join, Redate, WriteAffiliation, WriteSponsorship
  <1>10. ASSUME \/ \E o \in Orgs : manage_single_organization_user_remove(o)
                \/ \E r \in Registrars : Deny(r)
                \/ DayPasses
                \/ remove_expired_organization_user_affiliations
                \/ deactivate_expired_sponsored_users
         PROVE  row'.exists
    BY <1>2, <1>10 DEF manage_single_organization_user_remove, Deny, DayPasses,
         remove_expired_organization_user_affiliations, deactivate_expired_sponsored_users
  <1> QED
    BY <1>3, <1>4, <1>5, <1>6, <1>7, <1>8, <1>9, <1>10 DEF Next, Write

\* An account that is confirmed is not deleted by a request that nothing overtook, nor
\* written over by one without an account.
THEOREM ConfirmedAccountsStay == Spec => ConfirmedStays
  <1> QED
    BY Invariant, ConfirmedStep, PTL DEF Spec, ConfirmedStays

----------------------------------------------------------------------------
(* What accounts may see and change.                                       *)

\* The account as Access has it, whatever organizations were deleted, is of one kind.
LEMMA Kinds ==
    ASSUME Inv, ~past.elevated, ~past.row, NEW c \in Guises
    PROVE  /\ c = [live |-> c.live, account |-> c.account]
           /\ c \in Case /\ OneKind(c.account, c.live)
  <1>1. PICK live \in SUBSET AllOrgs, kept \in SUBSET AllOrgs :
           c = [live |-> live,
                account |-> [staff |-> row.staff, registrar |-> row.registrar,
                             orgs |-> (Members \cap live) \cup (kept \ live),
                             sponsors |-> {r \in Registrars : sponsor[r].status # "none"}]]
    BY DEF Guises
  <1>2. row.staff \in BOOLEAN /\ row.registrar \in Registrars \cup {NoRegistrar}
    BY DEF Inv, MembershipInv, TypeOK, User
  <1>3. c \in Case
    BY <1>1, <1>2 DEF Case, Account
  <1>4. OneKind(c.account, c.live)
    BY <1>1 DEF Inv, MembershipInv, StaffOrRegistrar, RegistrarOrMember, OneKind,
                is_registrar_user, allow_staff_or_registrar
  <1> QED
    BY <1>1, <1>3, <1>4

\* What organizations an account of one kind gets.
LEMMA OrgsOf ==
    ASSUME NEW live \in SUBSET AllOrgs, NEW u \in Account, OneKind(u, live),
           NEW w \in Worlds(live)
    PROVE  /\ w.live = live /\ NoOrg \notin AllOrgs
           /\ u.staff \in BOOLEAN
           /\ u.staff => ~is_registrar_user(u) /\ ~is_organization_user(u, w)
                         /\ get_orgs(u, w) = live
           /\ is_registrar_user(u) =>
                /\ ~u.staff /\ ~is_organization_user(u, w)
                /\ get_orgs(u, w) = RegistrarOrgs(u.registrar, w)
           /\ ~u.staff /\ ~is_registrar_user(u) => get_orgs(u, w) = organizations(u, w)
           /\ get_orgs(u, w) \subseteq live
           /\ OrganizationQuery(u, w) = get_orgs(u, w)
  <1>1. w.live = live /\ u.staff \in BOOLEAN
    BY DEF Worlds, Account
  <1>2. NoOrg \notin AllOrgs
    BY AccessAssumption, MembershipsAssumption DEF AllOrgs
  <1> QED
    BY <1>1, <1>2 DEF OneKind, is_registrar_user, is_organization_user, organizations,
       allow_staff_or_registrar, get_orgs, RegistrarOrgs, OrganizationQuery

LEMMA OneKindAgrees ==
    ASSUME NEW live \in SUBSET AllOrgs, NEW u \in Account, OneKind(u, live),
           NEW w \in Worlds(live)
    PROVE  Agree(u, w)
  <1>1. ASSUME NEW f \in FolderFields
        PROVE  /\ FolderQuery(u, w, f) => FolderAccessible(u, w, f)
               /\ f.org \in w.live \cup {NoOrg} /\ FolderAccessible(u, w, f)
                    => FolderQuery(u, w, f)
    <2>1. /\ f.mine \in BOOLEAN
          /\ f.sponsor = NoRegistrar \/ f.org = NoOrg
      BY DEF FolderFields
    <2> QED
      BY <2>1, OrgsOf DEF FolderQuery, FolderAccessible, RegistrarOrgs, organizations,
                         is_registrar_user
  <1>2. ASSUME NEW f \in FolderFields
        PROVE  LinkQuery(u, w, f) => FolderQuery(u, w, f)
    BY DEF LinkQuery, FolderQuery
  <1>3. ASSUME NEW f \in FolderFields, NEW l \in LinkFields
        PROVE  can_toggle_private(u, w, f, l) => u.staff \/ l.private_reason \in {"none", "user", "meta"}
    BY DEF can_toggle_private, LinkFields
  <1>4. ASSUME NEW f \in top_level_folders(u, w)
        PROVE  FolderAccessible(u, w, f)
    BY <1>1, <1>4 DEF top_level_folders, FolderQuery
  <1>5. ASSUME NEW o \in w.live
        PROVE  /\ o \in manage_organization(u, w) <=> manage_single_organization(u, w, o)
               /\ o \in OrganizationQuery(u, w) <=> OrganizationAccessible(u, w, o)
               /\ AddTest(u, w, "organization_user") =>
                    /\ o \in FormOrganizations(u, w) <=> can_edit_organization(u, w, o)
                    /\ o \in BulkFormOrganizations(u, w) <=> can_edit_organization(u, w, o)
               /\ o \in settings_affiliations(u, w) =>
                    MayLeave(u, w, o) /\ manage_single_organization(u, w, o)
               /\ manage_single_organization(u, w, o) =>
                    settings_organizations_change_privacy(u, w, o)
    <2>1. /\ o \in OrganizationQuery(u, w) <=> can_edit_organization(u, w, o)
          /\ o \in OrganizationQuery(u, w) <=> OrganizationAccessible(u, w, o)
      BY <1>5, OrgsOf DEF can_edit_organization, OrganizationAccessible, RegistrarOrgs,
                          organizations
    <2>2. allow_staff_registrar_or_org_user(u, w) =>
            /\ FormOrganizations(u, w) = OrganizationQuery(u, w)
            /\ BulkFormOrganizations(u, w) = OrganizationQuery(u, w)
      BY OrgsOf DEF FormOrganizations, BulkFormOrganizations,
                    allow_staff_registrar_or_org_user, allow_staff_or_registrar,
                    is_organization_user
    <2>3. o \in settings_affiliations(u, w) =>
            /\ is_organization_user(u, w) /\ o \in OrganizationQuery(u, w)
            /\ allow_staff_registrar_or_org_user(u, w)
      BY OrgsOf DEF settings_affiliations, is_organization_user,
                    allow_staff_registrar_or_org_user, allow_staff_or_registrar
    <2> QED
      BY <1>5, <2>1, <2>2, <2>3
      DEF manage_organization, manage_single_organization, AddTest, MayLeave,
          settings_organizations_change_privacy
  <1>6. ASSUME NEW group \in Groups
        PROVE  /\ group \in Sidebar(u, w) => ListTest(u, w, group)
               /\ ListTest(u, w, group) => group \in Sidebar(u, w) /\ AddTest(u, w, group)
    BY DEF Groups, Sidebar, ListTest, AddTest, allow_staff_registrar_or_org_user,
           allow_staff_or_registrar
  <1> QED
    BY <1>1, <1>2, <1>3, <1>4, <1>5, <1>6
    DEF Agree, OpensFolder, get_folder_from_request, scope_folder_relationship, load_links,
        OpensLink, can_edit, can_view, AuthenticatedLinkDownload, change_privacy,
        can_toggle_private, stream_archive_if_permissible

\* Whatever views and tasks overlap, what a list shows an account opens and what
\* opens can be chosen, unless the account was made of two kinds.
THEOREM RulesAlwaysAgree == Spec => []AccessRulesAgree
  <1>1. Inv => AccessRulesAgree
    <2> SUFFICES ASSUME Inv, ~past.elevated, ~past.row, NEW c \in Guises
                 PROVE  c \in Agreeing
      BY DEF AccessRulesAgree
    <2>1. /\ c = [live |-> c.live, account |-> c.account]
          /\ c \in Case /\ OneKind(c.account, c.live)
      BY Kinds
    <2>2. c.live \in SUBSET AllOrgs /\ c.account \in Account
      BY <2>1 DEF Case
    <2>3. \A w \in Worlds(c.live) : Agree(c.account, w)
      BY <2>1, <2>2, OneKindAgrees
    <2> QED
      BY <2>1, <2>3 DEF Agreeing
  <1> QED
    BY <1>1, Invariant, PTL

LEMMA OneKindWorks ==
    ASSUME NEW live \in SUBSET AllOrgs, NEW w \in Worlds(live),
           NEW v \in Account, OneKind(v, live), NEW t \in Account, OneKind(t, live)
    PROVE  ShownWorks(v, t, w)
  <1> DEFINE listed == list_users_in_group(v, t, w, "organization_user")
             sponsored == list_sponsored_users(v, t)
             registrars == list_users_in_group(v, t, w, "registrar_user")
  <1>0. /\ t.orgs \subseteq AllOrgs /\ t.sponsors \subseteq Registrars /\ v.staff \in BOOLEAN
        /\ NoRegistrar \notin Registrars /\ w.live = live
    BY OrgsOf, MembershipsAssumption DEF Account
  <1>1. /\ listed <=> /\ allow_staff_registrar_or_org_user(v, w)
                      /\ t.orgs \cap visible_orgs(v, w) # {}
        /\ registrars <=> /\ allow_staff_or_registrar(v)
                          /\ is_registrar_user(t) /\ (v.staff \/ t.registrar = v.registrar)
    BY DEF list_users_in_group
  <1>2. visible_orgs(v, w) = get_orgs(v, w) /\ visible_orgs(v, w) \subseteq live
    BY OrgsOf DEF visible_orgs
  <1>3. /\ v.staff => ShownOrgs(v, t, w) = t.orgs /\ ShownSponsors(v, t, w) = t.sponsors
        /\ is_registrar_user(v) =>
             /\ ShownOrgs(v, t, w) = t.orgs \cap get_orgs(v, w)
             /\ ShownSponsors(v, t, w) = t.sponsors \cap {v.registrar}
        /\ is_organization_user(v, w) =>
             ShownOrgs(v, t, w) = t.orgs \cap get_orgs(v, w) /\ ShownSponsors(v, t, w) = {}
    BY OrgsOf DEF ShownOrgs, ShownSponsors
  <1>4. /\ listed => manage_single_user(v, t, w, "organization_user")
        /\ sponsored => manage_single_user(v, t, w, "sponsored_user")
    BY <1>1, <1>2, <1>3, OrgsOf
    DEF manage_single_user, edit_user_in_group, list_sponsored_users,
        allow_staff_registrar_or_org_user, allow_staff_or_registrar
  <1>5. /\ listed \/ sponsored \/ registrars => shares_scope_with_user(v, t, w)
        /\ listed \/ sponsored \/ registrars => allow_staff_registrar_or_org_user(v, w)
    BY <1>1, <1>2, OrgsOf
    DEF shares_scope_with_user, list_sponsored_users, allow_staff_registrar_or_org_user,
        allow_staff_or_registrar, organizations, RegistrarOrgs
  <1>6. ASSUME listed \/ sponsored, NEW o \in ShownOrgs(v, t, w) \cap w.live
        PROVE  MayChangeAffiliation(v, t, w, o)
    BY <1>3, <1>5, <1>6, OrgsOf
    DEF MayChangeAffiliation, can_edit_organization, RegistrarOrgs, organizations,
        allow_staff_registrar_or_org_user, allow_staff_or_registrar
  <1>7. ASSUME listed \/ sponsored, NEW r \in ShownSponsors(v, t, w)
        PROVE  MayChangeSponsorship(v, t, r)
    BY <1>3, <1>5, <1>7 DEF MayChangeSponsorship, allow_staff_registrar_or_org_user,
                            allow_staff_or_registrar
  <1>8. /\ manage_organization_user_export_user_list(v, t, w) \subseteq ShownOrgs(v, t, w)
        /\ listed => ShownOrgs(v, t, w) \cap w.live
                       \subseteq manage_organization_user_export_user_list(v, t, w)
    BY <1>0, <1>1, <1>2, <1>3, OrgsOf
    DEF manage_organization_user_export_user_list, allow_staff_registrar_or_org_user,
        allow_staff_or_registrar
  <1>9. listed => FormOrganizations(v, w) \ OrganizationsToAdd(v, w, t) \subseteq ShownOrgs(v, t, w)
    BY <1>1, <1>3, OrgsOf
    DEF FormOrganizations, OrganizationsToAdd, allow_staff_registrar_or_org_user,
        allow_staff_or_registrar
  <1>10. sponsored =>
           manage_sponsored_user_export_user_list(v, t) = ShownSponsors(v, t, w)
    BY <1>3, OrgsOf
    DEF manage_sponsored_user_export_user_list, list_sponsored_users, allow_staff_or_registrar
  <1>11. ASSUME NEW o \in t.orgs,
                \/ MayChangeAffiliation(v, t, w, o)
                \/ manage_single_organization_export_user_list(v, t, w, o)
         PROVE  listed
    BY <1>1, <1>2, <1>11, OrgsOf
    DEF MayChangeAffiliation, manage_single_organization_export_user_list,
        manage_single_organization, can_edit_organization, RegistrarOrgs
  <1>12. /\ can_view_sponsored_user_links(v, "sponsored_user") /\ sponsored =>
              MayChangeSponsorship(v, t, v.registrar)
         /\ can_edit_remove_as_registrar(v) /\ registrars => MayRemoveFromRegistrar(v, t)
    BY <1>1, OrgsOf
    DEF can_view_sponsored_user_links, list_sponsored_users, allow_staff_or_registrar,
        MayChangeSponsorship, can_edit_remove_as_registrar, MayRemoveFromRegistrar
  <1> HIDE DEF listed, sponsored, registrars
  <1> QED
    BY <1>4, <1>5, <1>6, <1>7, <1>8, <1>9, <1>10, <1>11, <1>12
    DEF ShownWorks, resend_activation, listed, sponsored, registrars

\* Whatever views and tasks overlap, the accounts that lists show open for who sees
\* the list, with the actions offered there, unless the account was made of two kinds.
THEOREM ListedAlwaysOpens == Spec => []ListedOpens
  <1>1. Inv => ListedOpens
    <2> SUFFICES ASSUME Inv, ~past.elevated, ~past.row, NEW c \in Guises
                 PROVE  c \in Working
      BY DEF ListedOpens
    <2>1. /\ c = [live |-> c.live, account |-> c.account]
          /\ c \in Case /\ OneKind(c.account, c.live)
      BY Kinds
    <2>2. c.live \in SUBSET AllOrgs /\ c.account \in Account
      BY <2>1 DEF Case
    <2>3. ASSUME NEW w \in Worlds(c.live), NEW other \in Others(c.live)
          PROVE  ShownWorks(c.account, other, w) /\ ShownWorks(other, c.account, w)
      <3>1. other \in Account /\ OneKind(other, c.live)
        BY DEF Others
      <3> QED
        BY <2>1, <2>2, <3>1, OneKindWorks
    <2> QED
      BY <2>1, <2>3 DEF Working
  <1> QED
    BY <1>1, Invariant, PTL

----------------------------------------------------------------------------
(* The dates of the nightly tasks.                                         *)

\* The last warning is the 30th day before the end.
LEMMA FirstWarning == Max(warning_days) = 30
  <1>1. \E x \in warning_days : \A y \in warning_days : x >= y
    BY DEF warning_days
  <1>2. Max(warning_days) \in warning_days /\ \A y \in warning_days : Max(warning_days) >= y
    BY <1>1 DEF Max
  <1> QED
    BY <1>2 DEF warning_days

\* A time is of the day whose midnight it is not before.
LEMMA DayOf ==
    ASSUME NEW expires_at \in Times
    PROVE  /\ DateOf(expires_at) \in Days /\ expires_at \in Int
           /\ Midnight(DateOf(expires_at)) <= expires_at
           /\ expires_at < Midnight(DateOf(expires_at) + 1)
           /\ expires_at \in FormTimes => expires_at = Midnight(DateOf(expires_at))
  <1>1. \E day \in Days : expires_at \in {Midnight(day), Midnight(day) + 15}
    BY DEF Times, FormTimes
  <1>2. PICK day \in Days : expires_at \in {Midnight(day), Midnight(day) + 15}
    BY <1>1
  <1>3. day \in Int /\ DateOf(24 * day) = day /\ DateOf(24 * day + 15) = day
    BY DEF Days, LastDay, DateOf
  <1>4. DateOf(expires_at) = day
    BY <1>2, <1>3 DEF Midnight
  <1>5. expires_at \in FormTimes => \E other \in Days : expires_at = 24 * other
    BY DEF FormTimes, Midnight
  <1> QED
    BY <1>2, <1>3, <1>4, <1>5 DEF Midnight, Days, LastDay

\* The task that ends it runs on the day after.
LEMMA EndsTheDayAfter ==
    ASSUME NEW expires_at \in Times
    PROVE  EndsOn(expires_at) = ToldDate(expires_at)
  <1> DEFINE S == {today \in 0..(LastDay + 1) : EndedBy(expires_at, today)}
             told == DateOf(expires_at) + 1
  <1>1. told \in S /\ \A today \in S : told <= today
    BY DayOf DEF EndedBy, Midnight, Days, LastDay
  <1>2. Min(S) \in S /\ \A today \in S : Min(S) <= today
    BY <1>1 DEF Min
  <1>3. Min(S) = told
    <2>1. S \subseteq Int
      OBVIOUS
    <2> HIDE DEF S, told
    <2>2. Min(S) \in Int /\ told \in Int /\ Min(S) <= told /\ told <= Min(S)
      BY <1>1, <1>2, <2>1
    <2> QED
      BY <2>2
  <1> QED
    BY <1>3 DEF EndsOn, ToldDate

\* One warning of a day, on the night that is that many days before the date.
LEMMA WarnedOnce ==
    ASSUME NEW expires_at \in Times, NEW from \in Days, NEW day \in warning_days,
           from <= DateOf(expires_at) - day
    PROVE  /\ day # 30 =>
                Nights(warn_expiring_organization_users, day, from, expires_at)
                  = {DateOf(expires_at) - day}
           /\ day # 30 \/ expires_at \in FormTimes =>
                Nights(warn_expiring_sponsored_users, day, from, expires_at)
                  = {DateOf(expires_at) - day}
  <1> DEFINE date == DateOf(expires_at)
  <1>1. /\ date \in 0..45 /\ from \in 0..45 /\ day \in {7, 15, 30} /\ expires_at \in Int
        /\ 24 * date <= expires_at /\ expires_at < 24 * (date + 1)
        /\ expires_at \in FormTimes => expires_at = 24 * date
    BY DayOf DEF Days, LastDay, warning_days, Midnight
  <1> HIDE DEF date
  <1>2. ASSUME NEW today \in from..date
        PROVE  /\ day \in warn_expiring_organization_users(expires_at, today) <=>
                    expires_at < 24 * (today + 30) /\ date = today + day
               /\ day \in warn_expiring_sponsored_users(expires_at, today) <=>
                    expires_at <= 24 * (today + 30) /\ date = today + day
    BY FirstWarning DEF warn_expiring_organization_users, warn_expiring_sponsored_users,
                        Midnight, date
  <1>3. Nights(warn_expiring_organization_users, day, from, expires_at)
          = {today \in from..date : expires_at < 24 * (today + 30) /\ date = today + day}
    BY <1>2 DEF Nights, date
  <1>4. Nights(warn_expiring_sponsored_users, day, from, expires_at)
          = {today \in from..date : expires_at <= 24 * (today + 30) /\ date = today + day}
    BY <1>2 DEF Nights, date
  <1>5. from <= date - day
    BY DEF date
  <1>6. \A today \in from..date : date = today + day <=> today = date - day
    BY <1>1, <1>5
  <1>7. date - day \in from..date
    BY <1>1, <1>5
  <1>8. day # 30 => /\ expires_at < 24 * ((date - day) + 30)
                    /\ expires_at <= 24 * ((date - day) + 30)
    BY <1>1
  <1>9. expires_at \in FormTimes => expires_at <= 24 * ((date - day) + 30)
    BY <1>1
  <1> QED
    BY <1>3, <1>4, <1>6, <1>7, <1>8, <1>9 DEF date

\* Who has a date to come is warned on the days the tasks name, once each if the date
\* was set by then, and the affiliation or sponsorship ends on the day the warning says.
THEOREM TheEndIsAlwaysToldBefore == Spec => []WarnedOfTheEnd
  <1>1. MembersAreWarned
    <2>1. {7, 15} \subseteq warning_days \ {30}
      BY DEF warning_days
    <2> QED
      BY <2>1, WarnedOnce, EndsTheDayAfter DEF MembersAreWarned, OnceBefore
  <1>2. SponsoredAreWarned
    <2>1. {7, 15} \subseteq warning_days \ {30} /\ 30 \in warning_days
      BY DEF warning_days
    <2> QED
      BY <2>1, WarnedOnce, EndsTheDayAfter DEF SponsoredAreWarned, OnceBefore
  <1>3. WarnedOfTheEnd
    BY <1>1, <1>2 DEF WarnedOfTheEnd
  <1> QED
    BY <1>3, PTL

=============================================================================
