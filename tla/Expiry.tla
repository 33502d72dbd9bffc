------------------------------- MODULE Expiry -------------------------------
(***************************************************************************)
(* The dates of the nightly tasks that warn of the end of affiliations and *)
(* sponsorships and that end them.  Memberships tells dates to come from   *)
(* dates gone by only; here they are hours since the first midnight, in    *)
(* UTC as the settings have it.  A task that is given a date compares a    *)
(* time with that date's midnight.                                         *)
(***************************************************************************)
EXTENDS Memberships

\* Bound: days.
LastDay == 45
Days == 0..LastDay
Midnight(day) == 24 * day
DateOf(time) == time \div 24

\* The forms take dates; the admin takes any time of a day.
FormTimes == {Midnight(day) : day \in Days}
Times == FormTimes \cup {Midnight(day) + 15 : day \in Days}

warning_days == {7, 15, 30}

\* What a task of this day warns of: warnings are told apart by their days.
warn_expiring_sponsored_users(expires_at, today) ==
    IF expires_at <= Midnight(today + Max(warning_days))
    THEN {day \in warning_days : DateOf(expires_at) = today + day} ELSE {}

warn_expiring_organization_users(expires_at, today) ==
    IF expires_at < Midnight(today + Max(warning_days))
    THEN {day \in warning_days : DateOf(expires_at) = today + day} ELSE {}

\* The day a warning tells the user the affiliation or sponsorship ends.
ToldDate(expires_at) == DateOf(expires_at) + 1

\* Mutant: it ends with the last day it was given for.
EndedOnTheDay(expires_at, today) == expires_at <= Midnight(today)

\* deactivate_expired_sponsored_users, remove_expired_organization_user_affiliations
EndedBy(expires_at, today) == expires_at < Midnight(today)

EndsOn(expires_at) == Min({today \in 0..(LastDay + 1) : EndedBy(expires_at, today)})

\* The nights on which one who has this date from some day on is warned.
Nights(warns(_, _), day, from, expires_at) ==
    {today \in from..DateOf(expires_at) : day \in warns(expires_at, today)}

\* One that far from the end is warned once, on the day the warning says.
OnceBefore(warns(_, _), days, from, expires_at) ==
    \A day \in days :
      from <= DateOf(expires_at) - day =>
        Nights(warns, day, from, expires_at) = {DateOf(expires_at) - day}

MembersAreWarned ==
    \A expires_at \in Times, from \in Days :
      /\ OnceBefore(warn_expiring_organization_users, {7, 15}, from, expires_at)
      /\ EndsOn(expires_at) = ToldDate(expires_at)

SponsoredAreWarned ==
    \A expires_at \in Times, from \in Days :
      /\ OnceBefore(warn_expiring_sponsored_users, {7, 15}, from, expires_at)
      /\ expires_at \in FormTimes =>
           OnceBefore(warn_expiring_sponsored_users, {30}, from, expires_at)
      /\ EndsOn(expires_at) = ToldDate(expires_at)

\* A member with a date to come is warned 15 and 7 days before it, and a sponsored
\* user 30 days before as well if the date came from a form, if the date was set
\* by then.  The warning names the day on which the task then ends it.
WarnedOfTheEnd ==
    /\ (\E o \in Orgs : orgs[o] = "later") => MembersAreWarned
    /\ (\E r \in Registrars : sponsor[r] = [status |-> "active", due |-> "later"])
         => SponsoredAreWarned

=============================================================================
