------------------------------ MODULE ConsentValues ------------------------------
(***************************************************************************)
(* What fides-js computes from the notices of an experience, the consent   *)
(* that was saved and the sources of automated consent: the functions of   *)
(* lib/automated-consent.ts, lib/cookie.ts and lib/consent-utils.ts that   *)
(* have no state.  A consent map gives every notice key a value or leaves  *)
(* it out, which is "unset" here.                                          *)
(***************************************************************************)
EXTENDS Naturals

CONSTANTS
    Notices,      \* notice keys
    Mechanism,    \* notice -> its consent mechanism
    GpcNotices,   \* notices with has_gpc_flag
    Resurface     \* consent methods in resurface_behavior

Methods == {"none", "choice", "dismiss", "script", "gpc", "external_provider"}

ASSUME NoticesAssumption ==
    /\ Mechanism \in [Notices -> {"opt_in", "opt_out", "notice_only"}]
    /\ GpcNotices \subseteq Notices
    /\ Resurface \subseteq Methods \ {"none"}

Choice   == {"in", "out"}
Consents == [Notices -> Choice \cup {"unset"}]
Nothing  == [n \in Notices |-> "unset"]

\* The part of an experience that consent depends on: the notices it serves,
\* and those it names as not applicable to the region.
Offer == {o \in [notices : SUBSET Notices, nonApplicable : SUBSET Notices] :
            o.notices \cap o.nonApplicable = {}}

\* What the cookie of fides_consent keeps (fides_meta is its method here).
Cookie    == [consent : Consents, method : Methods, na : SUBSET Notices]
NewCookie == [consent |-> Nothing, method |-> "none", na |-> {}]

NoticeOnly(n) == Mechanism[n] = "notice_only"

\* The keys of a consent map, one map spread over another, a map cut to keys.
Keys(c)         == {n \in Notices : c[n] # "unset"}
Spread(base, c) == [n \in Notices |-> IF c[n] # "unset" THEN c[n] ELSE base[n]]
Only(c, S)      == [n \in Notices |-> IF n \in S THEN c[n] ELSE "unset"]

\* default_preference follows the mechanism; notice-only ones are acknowledged.
Default(n) == IF Mechanism[n] = "opt_in" THEN "out" ELSE "in"

----------------------------------------------------------------------------
(* Automated consent.  A context holds what getConsentContext found:        *)
(* the signal of the browser, what a fides_string names, and what another  *)
(* provider's cookie says, which is nothing when there is a Fides cookie.   *)

Context == [gpc : BOOLEAN, string : Consents, migrated : Consents]

\* Which sources speak for notice n.
FromMigration(n, ctx)  == ~NoticeOnly(n) /\ ctx.migrated[n] # "unset"
FromString(n, ctx)     == ~NoticeOnly(n) /\ ctx.string[n] # "unset"
\* A slip in FromGpc the runs must notice: any saved consent silences the signal for all notices.
FromGpcOnFirstVisit(n, ctx, saved) ==
    ~NoticeOnly(n) /\ ctx.gpc /\ n \in GpcNotices /\ Keys(saved) = {}
FromGpc(n, ctx, saved) == /\ ~NoticeOnly(n) /\ ctx.gpc /\ n \in GpcNotices
                          /\ saved[n] = "unset"

\* The value before any source is asked: only a saved "in" takes the place of
\* the default, since the code tests the value and not whether there is one.
WithoutSource(n, saved) == IF saved[n] = "in" THEN "in" ELSE Default(n)

AutomatedValue(n, saved, ctx) ==
    CASE NoticeOnly(n) -> "in"
      [] FromMigration(n, ctx) -> ctx.migrated[n]
      [] FromString(n, ctx) /\ ~FromMigration(n, ctx) -> ctx.string[n]
      [] FromGpc(n, ctx, saved) /\ ~FromString(n, ctx) /\ ~FromMigration(n, ctx) -> "out"
      [] OTHER -> WithoutSource(n, saved)

\* calculateAutomatedConsent: is there a source for any notice, the consent
\* of all of them then, and the method it is recorded with.
Applied(o, saved, ctx) ==
    \E n \in o.notices :
        FromMigration(n, ctx) \/ FromString(n, ctx) \/ FromGpc(n, ctx, saved)

Automated(o, saved, ctx) ==
    [n \in Notices |-> IF n \in o.notices THEN AutomatedValue(n, saved, ctx) ELSE "unset"]

\* A slip in AutomatedMethod the runs must notice: a name the rest of the code does not know.
AutomatedMethodUnnamed(o, ctx) == "automated"

AutomatedMethod(o, ctx) ==
    IF \E n \in o.notices : FromMigration(n, ctx) THEN "external_provider"
    ELSE IF \E n \in o.notices : FromString(n, ctx) THEN "script"
    ELSE "gpc"

----------------------------------------------------------------------------
(* Cookie and experience.                                                   *)

\* A slip in PreferencesFrom the runs must notice: tests the value instead of whether there is one.
PreferencesIfTrue(o, cookie) ==
    Only(cookie.consent, {n \in o.notices \ cookie.na : cookie.consent[n] = "in"})

\* updateExperienceFromCookieConsentNotices: current_preference of the notices
\* from the cookie, except those it lists as not applicable when it was saved.
PreferencesFrom(o, cookie) == Only(cookie.consent, o.notices \ cookie.na)

\* updateExperience: a client-side experience is left alone by an empty cookie.
UpdatedPreferences(o, cookie, prefs) ==
    IF Keys(cookie.consent) # {} THEN PreferencesFrom(o, cookie) ELSE prefs

\* A slip in StateOf the runs must notice: the default goes before the current preference.
StateOfDefaults(o, prefs) == [n \in Notices |-> IF n \in o.notices THEN Default(n) ELSE "unset"]

\* getConsentStateFromExperience: the current preference, else the default.
StateOf(o, prefs) ==
    [n \in Notices |-> IF n \notin o.notices THEN "unset"
                       ELSE IF prefs[n] # "unset" THEN prefs[n] ELSE Default(n)]

\* updateCookieFromExperience
CookieFromExperience(cookie, o, prefs) ==
    [cookie EXCEPT !.consent = StateOf(o, prefs), !.na = o.nonApplicable]

\* updateCookieFromNoticePreferences on the preferences updateConsent built.
CookieFromNoticePreferences(final, method, o) ==
    [consent |-> Only(final, o.notices), method |-> method, na |-> o.nonApplicable]

\* applyOverridesToConsent: what Fides.consent shows of a cookie.
Shown(cookie, nonApplicable) == Only(cookie.consent, Notices \ (cookie.na \ nonApplicable))

\* A slip in Valid the runs must notice: looks only at the keys.
ValidKeys(given, o) == Keys(given) \subseteq o.notices \cup o.nonApplicable

\* validateConsent: keys the experience knows, notice-only ones accepted.
Valid(given, o) ==
    /\ Keys(given) \subseteq o.notices \cup o.nonApplicable
    /\ \A n \in Keys(given) \cap o.nonApplicable : given[n] = "in"
    /\ \A n \in Keys(given) \cap o.notices : NoticeOnly(n) => given[n] = "in"

\* A slip in ShouldResurfaceBanner the runs must notice: without the special case of gpc.
ResurfacesIfUnset(o, method, saved) ==
    o.notices # {} /\ (method \in Resurface \/ \E n \in o.notices : saved[n] = "unset")

\* shouldResurfaceBanner of a banner_and_modal experience.
ShouldResurfaceBanner(o, method, saved) ==
    /\ o.notices # {}
    /\ \/ method = "gpc"
       \/ method \in Resurface
       \/ \E n \in o.notices : saved[n] = "unset"

\* getEnabledNoticeKeys
Enabled(o, consent) ==
    {n \in o.notices : \/ NoticeOnly(n)
                       \/ consent[n] = "in"
                       \/ consent[n] = "unset" /\ Default(n) = "in"}
==============================================================================
