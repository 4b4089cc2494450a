------------------------------ MODULE ConsentClient ------------------------------
(***************************************************************************)
(* fides-js on the pages of one site: Fides.init, Fides.updateConsent (by  *)
(* the overlay or by a script of the page), Fides.setIdentity, and the     *)
(* consent cookie all pages of the browser share.  Each step is what runs  *)
(* between two awaits that leave the page's task: the region, the          *)
(* experience, the compression of the cookie and the preferences API take  *)
(* their time, and other tabs run in between.                              *)
(***************************************************************************)
EXTENDS ConsentValues

CONSTANTS
    Pages,          \* tabs of the browser
    Slots,          \* calls a page may have in progress at once
    Offers,         \* experiences a page may be served
    Strings,        \* decoded notice consent strings of a fides_string
    Migrations,     \* consent read from another provider's cookie
    ScriptConsents, \* consent a script may pass to updateConsent
    Compressed,     \* TRUE: fidesCookieCompression is "gzip"
    MaxLoads,       \* bound: page loads
    MaxUpdates,     \* bound: calls of updateConsent
    MaxIdentities   \* bound: calls of setIdentity

ASSUME ConstantsAssumption ==
    /\ "nobody" \notin Pages
    /\ Offers \subseteq Offer
    /\ Strings \subseteq Consents
    /\ Migrations \subseteq Consents
    /\ ScriptConsents \subseteq Consents
    /\ Compressed \in BOOLEAN
    /\ {MaxLoads, MaxUpdates, MaxIdentities} \subseteq Nat

VARIABLES
    jar,         \* the cookie fides_consent in the browser
    server,      \* the preferences the API recorded last, per notice
    pc,          \* how far the init of a page is
    visit,       \* what the page was loaded with
    cookie,      \* Fides.cookie
    saved,       \* Fides.saved_consent
    prefs,       \* current_preference of the notices of Fides.experience
    shown,       \* Fides.consent
    banner,      \* shouldShowExperience when the page became ready
    auto,        \* the automated consent on its way to the cookie and the API
    calls,       \* calls of updateConsent and setIdentity in progress
    spoken,      \* history: who has spoken so far, by the method of consent
    writer,      \* history: the page that wrote the jar last
    clean,       \* history: no save of the page crossed its init or another save
    doubt,       \* history: the API may have missed or misordered something
    reverted,    \* history: a saved refusal gave way to a default
    denied,      \* history: notices another provider's consent refused when init read it
    loads, updates, identities

pageVars  == <<pc, visit, cookie, saved, prefs, shown, banner>>
history   == <<spoken, writer, clean, reverted>>
entries   == <<denied, loads, updates, identities>>  \* what only entry points change
vars      == <<jar, server, pageVars, auto, calls, history, doubt, entries>>

Jar == [exists : BOOLEAN, cookie : Cookie]

\* A visit: the experience, whether it came with the script, and the sources.
Visit == [offer : Offer, prefetched : BOOLEAN, context : Context]

\* Work in progress: "called" until its microtask runs, "encoding" until the
\* cookie is compressed, "patching" until the API answers.
\* "apart" says that Fides.cookie has been replaced since the call, which goes
\* on with the object it captured; "held" is the consent that object has then.
\* "alone" (history) says that nothing else was in progress at any time since.
Idle == [stage |-> "idle", cookie |-> NewCookie, kind |-> "none",
         apart |-> FALSE, held |-> Nothing, alone |-> FALSE]
Work == [stage : {"idle", "called", "encoding", "patching"},
         cookie : Cookie, kind : {"none", "update", "identity", "automated"},
         apart : BOOLEAN, held : Consents, alone : BOOLEAN]

TypeOK ==
    /\ jar \in Jar
    /\ server \in Consents
    /\ pc \in [Pages -> {"closed", "locating", "fetching", "saving", "ready", "bare", "failed"}]
    /\ visit \in [Pages -> Visit]
    /\ cookie \in [Pages -> Cookie]
    /\ saved \in [Pages -> Consents]
    /\ prefs \in [Pages -> Consents]
    /\ shown \in [Pages -> Consents]
    /\ banner \in [Pages -> BOOLEAN]
    /\ auto \in [Pages -> Work]
    /\ calls \in [Pages -> [Slots -> Work]]
    /\ spoken \subseteq Methods \cup {"identity"}
    /\ writer \in Pages \cup {"nobody"}
    /\ clean \in [Pages -> BOOLEAN]
    /\ {doubt, reverted} \subseteq BOOLEAN
    /\ denied \subseteq Notices
    /\ {loads, updates, identities} \subseteq Nat

----------------------------------------------------------------------------
(* Helpers.                                                                 *)

Offered(p) == visit[p].offer

\* The page has its experience: from the start when it was prefetched.
HasExperience(p) ==
    \/ pc[p] \in {"saving", "ready"}
    \/ pc[p] # "closed" /\ visit[p].prefetched

NonApplicable(p) == IF HasExperience(p) THEN Offered(p).nonApplicable ELSE {}

\* Microtasks run before the page's next task, and so does the end of init
\* when the cookie it saves is not compressed.
Quiet(p)  == \A s \in Slots : calls[p][s].stage # "called"
MayRun(p) == pc[p] # "closed" /\ (pc[p] = "saving" => Compressed)

Settled(p) == auto[p].stage = "idle" /\ \A s \in Slots : calls[p][s].stage = "idle"
AllSettled == \A p \in Pages : Settled(p)

\* saveFidesCookie: the string reaches the browser, now or once compressed.
Write(p, c) ==
    /\ jar' = [exists |-> TRUE, cookie |-> c]
    /\ writer' = p

\* Work that is under way is no longer the only one.
NotAlone(works) == [x \in DOMAIN works |-> [works[x] EXCEPT !.alone = FALSE]]
OthersNotAlone  == [p \in Pages |-> NotAlone(calls[p])]

\* Fides.cookie of page p is replaced: the calls in progress keep the old one.
Detached(p, works) ==
    [works EXCEPT ![p] = [s \in Slots |->
        IF @[s].stage = "encoding" /\ ~@[s].apart
        THEN [@[s] EXCEPT !.apart = TRUE, !.held = cookie[p].consent] ELSE @[s]]]

----------------------------------------------------------------------------
(* Fides.init                                                               *)

NoVisit == [offer |-> [notices |-> {}, nonApplicable |-> {}], prefetched |-> FALSE,
            context |-> [gpc |-> FALSE, string |-> Nothing, migrated |-> Nothing]]

Init ==
    /\ jar = [exists |-> FALSE, cookie |-> NewCookie]
    /\ server = Nothing
    /\ pc = [p \in Pages |-> "closed"]
    /\ visit = [p \in Pages |-> NoVisit]
    /\ cookie = [p \in Pages |-> NewCookie]
    /\ saved = [p \in Pages |-> Nothing]
    /\ prefs = [p \in Pages |-> Nothing]
    /\ shown = [p \in Pages |-> Nothing]
    /\ banner = [p \in Pages |-> FALSE]
    /\ auto = [p \in Pages |-> Idle]
    /\ calls = [p \in Pages |-> [s \in Slots |-> Idle]]
    /\ spoken = {}
    /\ writer = "nobody"
    /\ clean = [p \in Pages |-> TRUE]
    /\ doubt = FALSE
    /\ reverted = FALSE
    /\ denied = {}
    /\ loads = 0 /\ updates = 0 /\ identities = 0

\* Fides.init up to its first request: the sources and the cookie are read at
\* the same instant, and consent that is known is shown at once.
BeginInit(p, o, prefetched, gpc, string, migrated) ==
    LET from  == IF jar.exists THEN Nothing ELSE migrated
        c     == [jar.cookie EXCEPT !.consent = Spread(@, from)]
        known == jar.exists \/ from # Nothing
    IN /\ loads < MaxLoads
       /\ loads' = loads + 1
       /\ visit' = [visit EXCEPT ![p] =
                      [offer |-> o, prefetched |-> prefetched,
                       context |-> [gpc |-> gpc, string |-> string, migrated |-> from]]]
       /\ cookie' = [cookie EXCEPT ![p] = c]
       /\ saved' = [saved EXCEPT ![p] = c.consent]
       /\ prefs' = [prefs EXCEPT ![p] =
                      IF known /\ prefetched THEN PreferencesFrom(o, c) ELSE Nothing]
       /\ shown' = [shown EXCEPT ![p] = IF known THEN c.consent ELSE @]
       /\ calls' = Detached(p, calls)
       /\ pc' = [pc EXCEPT ![p] = "locating"]
       /\ writer' = IF writer = p THEN "nobody" ELSE writer
       /\ denied' = denied \cup {n \in Notices : from[n] = "out"}
       /\ UNCHANGED <<jar, server, banner, auto, spoken, reverted,
                      doubt, updates, identities>>

\* A page of the site is opened.
LoadPage(p) ==
    /\ pc[p] = "closed"
    /\ clean' = [clean EXCEPT ![p] = TRUE]
    /\ \E o \in Offers, prefetched \in BOOLEAN, gpc \in BOOLEAN,
          string \in Strings, migrated \in Migrations :
         BeginInit(p, o, prefetched, gpc, string, migrated)

\* Fides.reinitialize: init again on the same page, with a fides_string that
\* may have changed, while calls made before may still be in progress.
Reinitialize(p) ==
    /\ pc[p] \in {"ready", "bare"} /\ auto[p].stage = "idle" /\ Quiet(p)
    /\ clean' = [clean EXCEPT ![p] = @ /\ \A s \in Slots : calls[p][s].stage # "encoding"]
    /\ \E string \in Strings, migrated \in Migrations :
         BeginInit(p, Offered(p), visit[p].prefetched, visit[p].context.gpc,
                   string, migrated)

\* initialize without an experience to apply: no region, or none was fetched.
EndBare(p) ==
    /\ pc' = [pc EXCEPT ![p] = "bare"]
    /\ shown' = [shown EXCEPT ![p] = Shown(cookie[p], NonApplicable(p))]
    /\ UNCHANGED <<jar, cookie, prefs, banner, auto, calls, history, doubt>>

\* The end of initialize: the cookie follows the experience, and Fides.consent
\* follows the cookie.
Finish(p, c, pf) ==
    LET o    == Offered(p)
        next == CookieFromExperience(c, o, pf)
    IN /\ cookie' = [cookie EXCEPT ![p] = next]
       /\ prefs' = [prefs EXCEPT ![p] = pf]
       /\ shown' = [shown EXCEPT ![p] = Shown(next, o.nonApplicable)]
       /\ banner' = [banner EXCEPT ![p] = ShouldResurfaceBanner(o, next.method, saved[p])]
       /\ calls' = Detached(p, calls)
       /\ pc' = [pc EXCEPT ![p] = "ready"]

\* A client-side experience takes its preferences from the cookie.
FinalPreferences(p, c, pf) ==
    IF visit[p].prefetched THEN pf ELSE UpdatedPreferences(Offered(p), c, pf)

\* An experience is there: either a source applies and the result is saved
\* before init goes on, or init ends at once.
ApplyExperience(p) ==
    LET o       == Offered(p)
        ctx     == visit[p].context
        consent == Automated(o, saved[p], ctx)
        c       == [cookie[p] EXCEPT !.consent = consent,
                                     !.method = AutomatedMethod(o, ctx)]
    IN /\ o.notices # {}
       /\ \/ /\ Applied(o, saved[p], ctx)
             /\ prefs' = [prefs EXCEPT ![p] = consent]
             /\ cookie' = [cookie EXCEPT ![p] = c]
             /\ auto' = [NotAlone(auto) EXCEPT ![p] =
                           [Idle EXCEPT !.stage = "encoding", !.cookie = c,
                                        !.kind = "automated", !.alone = AllSettled]]
             /\ calls' = Detached(p, OthersNotAlone)
             /\ reverted' = (reverted \/ \E n \in o.notices :
                               /\ saved[p][n] = "out" /\ consent[n] = "in"
                               /\ ~FromString(n, ctx) /\ ~NoticeOnly(n))
             /\ spoken' = spoken \cup {c.method}
             /\ IF Compressed THEN UNCHANGED <<jar, writer>> ELSE Write(p, c)
             /\ pc' = [pc EXCEPT ![p] = "saving"]
             /\ UNCHANGED <<shown, banner, clean, doubt>>
          \/ /\ ~Applied(o, saved[p], ctx)
             /\ Finish(p, cookie[p], FinalPreferences(p, cookie[p], prefs[p]))
             /\ UNCHANGED <<jar, auto, history, doubt>>

\* The region is known, cannot be found, or its request is rejected, which
\* nothing in init catches.
Locate(p) ==
    /\ pc[p] = "locating" /\ Quiet(p)
    /\ \/ visit[p].prefetched /\ ApplyExperience(p)
       \/ /\ ~visit[p].prefetched
          /\ pc' = [pc EXCEPT ![p] = "fetching"]
          /\ UNCHANGED <<jar, cookie, prefs, shown, banner, auto, calls, history, doubt>>
       \/ EndBare(p)
       \/ /\ pc' = [pc EXCEPT ![p] = "failed"]
          /\ UNCHANGED <<jar, cookie, prefs, shown, banner, auto, calls, history, doubt>>
    /\ UNCHANGED <<server, visit, saved, entries>>

\* fetchExperience answers with an experience, or with an empty one.
FetchExperience(p) ==
    /\ pc[p] = "fetching" /\ Quiet(p)
    /\ ApplyExperience(p) \/ EndBare(p)
    /\ UNCHANGED <<server, visit, saved, entries>>

\* A slip in FinishInitialize the runs must notice: the API is never told.
FinishInitializeSilently(p) ==
    /\ pc[p] = "saving" /\ Quiet(p)
    /\ IF Compressed THEN Write(p, auto[p].cookie) ELSE UNCHANGED <<jar, writer>>
    /\ Finish(p, cookie[p], FinalPreferences(p, cookie[p], prefs[p]))
    /\ auto' = [auto EXCEPT ![p] = Idle]
    /\ UNCHANGED <<server, visit, saved, spoken, clean, reverted, doubt, entries>>

\* The automated consent is saved: init ends, and the API is told without
\* being waited for.
FinishInitialize(p) ==
    /\ pc[p] = "saving" /\ Quiet(p)
    /\ IF Compressed THEN Write(p, auto[p].cookie) ELSE UNCHANGED <<jar, writer>>
    /\ Finish(p, cookie[p], FinalPreferences(p, cookie[p], prefs[p]))
    /\ auto' = [auto EXCEPT ![p].stage = "patching"]
    /\ UNCHANGED <<server, visit, saved, spoken, clean, reverted, doubt, entries>>

----------------------------------------------------------------------------
(* Fides.updateConsent and Fides.setIdentity                                *)

\* updateConsent up to its first await: the whole consent to save is the
\* page's own, as it is at this instant, with the given values over it.
UpdateConsent(p, s, given, method) ==
    /\ calls[p][s].stage = "idle" /\ updates < MaxUpdates
    /\ HasExperience(p) /\ MayRun(p)
    /\ Valid(given, Offered(p))
    /\ updates' = updates + 1
    /\ calls' = [OthersNotAlone EXCEPT ![p][s] =
                   [Idle EXCEPT !.stage = "called", !.kind = "update",
                                !.alone = AllSettled,
                                !.cookie = CookieFromNoticePreferences(
                                  Spread(cookie[p].consent, given), method, Offered(p))]]
    /\ auto' = NotAlone(auto)
    /\ spoken' = spoken \cup {method}
    /\ UNCHANGED <<jar, server, pageVars, writer, clean, reverted, doubt,
                   denied, loads, identities>>

\* The overlay passes every notice it lists, notice-only ones as given.
SavesAll(p, s, ins, method) ==
    /\ pc[p] = "ready" /\ Quiet(p)
    /\ \A n \in Offered(p).notices : NoticeOnly(n) => n \in ins
    /\ UpdateConsent(p, s,
         [n \in Notices |-> IF n \notin Offered(p).notices THEN "unset"
                            ELSE IF n \in ins THEN "in" ELSE "out"], method)

\* Accept, reject or save.
UserSaves(p, s) ==
    \E ins \in SUBSET Offered(p).notices : SavesAll(p, s, ins, "choice")

\* A dismissal saves the consent of the page as it is by now (handleDismiss).
UserDismisses(p, s) ==
    SavesAll(p, s, Enabled(Offered(p), cookie[p].consent), "dismiss")

\* A script passes some of them, and may call again in the same task.
ScriptCalls(p, s) ==
    \E given \in ScriptConsents : UpdateConsent(p, s, given, "script")

\* updateConsentPreferences after its first await: the cookie object, then
\* Fides.consent, then the browser's cookie.
UpdateConsentPreferences(p, s) ==
    LET c == calls[p][s].cookie
    IN /\ calls[p][s].stage = "called"
       /\ cookie' = [cookie EXCEPT ![p] = c]
       /\ shown' = [shown EXCEPT ![p] = Shown(c, Offered(p).nonApplicable)]
       /\ clean' = [clean EXCEPT ![p] =
                      /\ @
                      /\ pc[p] = "ready"
                      /\ \A x \in Slots : calls[p][x].stage # "encoding"]
       /\ \/ /\ Compressed
             /\ calls' = [calls EXCEPT ![p][s].stage = "encoding"]
             /\ UNCHANGED <<jar, saved, writer>>
          \/ /\ ~Compressed
             /\ calls' = [calls EXCEPT ![p][s].stage = "patching"]
             /\ Write(p, c)
             /\ saved' = [saved EXCEPT ![p] = c.consent]
       /\ UNCHANGED <<server, pc, visit, prefs, banner, auto, spoken, reverted, doubt, entries>>

\* setIdentity saves the cookie as the page has it.
SetIdentity(p, s) ==
    /\ calls[p][s].stage = "idle" /\ identities < MaxIdentities
    /\ MayRun(p) /\ Quiet(p)
    /\ identities' = identities + 1
    /\ auto' = NotAlone(auto)
    /\ clean' = [clean EXCEPT ![p] =
                   /\ @
                   /\ pc[p] = "ready"
                   /\ \A x \in Slots : calls[p][x].stage # "encoding"]
    /\ doubt' = TRUE
    /\ spoken' = spoken \cup {"identity"}
    /\ \/ /\ Compressed
          /\ calls' = [OthersNotAlone EXCEPT ![p][s] =
                         [Idle EXCEPT !.stage = "encoding", !.kind = "identity",
                                      !.cookie = cookie[p]]]
          /\ UNCHANGED <<jar, writer>>
       \/ /\ ~Compressed
          /\ calls' = OthersNotAlone
          /\ Write(p, cookie[p])
    /\ UNCHANGED <<server, pageVars, reverted, denied, loads, updates>>

\* The compressed cookie reaches the browser.
CookieEncoded(p, s) ==
    LET w == calls[p][s]
    IN /\ w.stage = "encoding" /\ Quiet(p)
       /\ Write(p, w.cookie)
       /\ \/ /\ w.kind = "update"
             /\ calls' = [calls EXCEPT ![p][s].stage = "patching"]
             /\ saved' = [saved EXCEPT ![p] = IF w.apart THEN w.held ELSE cookie[p].consent]
          \/ /\ w.kind = "identity"
             /\ calls' = [calls EXCEPT ![p][s] = Idle]
             /\ UNCHANGED saved
       /\ UNCHANGED <<server, pc, visit, cookie, prefs, shown, banner, auto, spoken,
                      clean, reverted, doubt, entries>>

\* The API answers, or the request is lost: both end the call, an error being
\* logged and nothing sent again.
Answer(w) ==
    \/ server' = Spread(server, w.cookie.consent) /\ doubt' = ~w.alone
    \/ UNCHANGED server /\ doubt' = TRUE

PatchAnswered(p, s) ==
    /\ calls[p][s].stage = "patching" /\ Quiet(p)
    /\ Answer(calls[p][s])
    /\ calls' = [calls EXCEPT ![p][s] = Idle]
    /\ UNCHANGED <<jar, pageVars, auto, history, entries>>

AutomatedAnswered(p) ==
    /\ auto[p].stage = "patching" /\ Quiet(p)
    /\ Answer(auto[p])
    /\ auto' = [auto EXCEPT ![p] = Idle]
    /\ UNCHANGED <<jar, pageVars, calls, history, entries>>

\* The tab is closed or reloaded: what it had in progress ends there, though
\* a request that was sent may still have arrived.
ClosePage(p) ==
    /\ pc[p] # "closed" /\ Quiet(p)
    /\ pc' = [pc EXCEPT ![p] = "closed"]
    /\ cookie' = [cookie EXCEPT ![p] = NewCookie]
    /\ visit' = [visit EXCEPT ![p] = NoVisit]
    /\ saved' = [saved EXCEPT ![p] = Nothing]
    /\ prefs' = [prefs EXCEPT ![p] = Nothing]
    /\ shown' = [shown EXCEPT ![p] = Nothing]
    /\ banner' = [banner EXCEPT ![p] = FALSE]
    /\ \/ UNCHANGED server
       \/ \E w \in {auto[p]} \cup {calls[p][s] : s \in Slots} :
            w.stage = "patching" /\ server' = Spread(server, w.cookie.consent)
    /\ doubt' = (doubt \/ ~Settled(p))
    /\ auto' = [auto EXCEPT ![p] = Idle]
    /\ calls' = [calls EXCEPT ![p] = [s \in Slots |-> Idle]]
    /\ UNCHANGED <<jar, history, entries>>

----------------------------------------------------------------------------

InitStep(p) == Locate(p) \/ FetchExperience(p) \/ FinishInitialize(p)
CallStep(p) ==
    \/ \E s \in Slots :
         UpdateConsentPreferences(p, s) \/ CookieEncoded(p, s) \/ PatchAnswered(p, s)
    \/ AutomatedAnswered(p)

Next ==
    \E p \in Pages :
        \/ LoadPage(p) \/ Reinitialize(p)
        \/ InitStep(p)
        \/ \E s \in Slots :
             UserSaves(p, s) \/ UserDismisses(p, s) \/ ScriptCalls(p, s) \/ SetIdentity(p, s)
        \/ CallStep(p)
        \/ ClosePage(p)

Spec == Init /\ [][Next]_vars

----------------------------------------------------------------------------
(* Properties.                                                              *)

\* A notice-only notice is refused only where another provider refused it: no
\* path through init, an update, a stale tab or the automated sources of
\* fides-js brings in "out" for one, in the browser, on a page or at the API
\* (automated-consent.ts forces it, validateConsent rejects it), and until
\* init has read such a refusal from another provider's cookie a ready page
\* that serves it shows it as given.
NoticeOnlyStands ==
    \A n \in Notices \ denied : NoticeOnly(n) =>
        /\ jar.cookie.consent[n] # "out"
        /\ server[n] # "out"
        /\ \A p \in Pages :
             /\ shown[p][n] # "out"
             /\ pc[p] = "ready" /\ n \in Offered(p).notices => shown[p][n] = "in"

\* A visitor who has decided nothing is asked: while all the jar ever got came
\* from the signal of the browser (recorded with method gpc, which makes the
\* banner resurface), every page that becomes ready shows the banner.
UndecidedIsAsked ==
    spoken \subseteq {"gpc"} =>
        \A p \in Pages : pc[p] = "ready" => banner[p]

\* The browser's signal is honoured: unless a person, a script or another
\* provider has decided, every ready page of a browser with the signal shows
\* the flagged notices as refused, on the first visit and on later ones, when
\* the cookie has a value from an earlier page and the source no longer counts.
GpcHonoured ==
    spoken \subseteq {"gpc"} /\ ~reverted =>
        \A p \in Pages, n \in GpcNotices :
            /\ pc[p] = "ready" /\ visit[p].context.gpc
            /\ n \in Offered(p).notices /\ ~NoticeOnly(n)
            /\ visit[p].context.string[n] = "unset"
            => shown[p][n] = "out"

\* The three copies agree: once the page that wrote the cookie last has nothing
\* in progress, Fides.consent, Fides.cookie and the browser's cookie hold the
\* same consent, unless saves of that page crossed each other or its init.
\* (initialize.ts: "we rely on keeping it up to date!")
SettledPageAgrees ==
    \A p \in Pages :
        /\ pc[p] = "ready" /\ writer = p /\ clean[p] /\ Settled(p)
        /\ Offered(p).notices \cap jar.cookie.na = {}
        => jar.cookie.consent = cookie[p].consent /\ shown[p] = cookie[p].consent

\* The API follows the browser: when nothing is in progress and no request was
\* lost, cut off or overlapped by another save, the last recorded preference
\* of every notice in the cookie is the cookie's.
ServerAgrees ==
    AllSettled /\ ~doubt =>
        \A n \in Keys(jar.cookie.consent) : server[n] = jar.cookie.consent[n]

\* A refusal survives the visit: a page that becomes ready shows as refused
\* what its visitor's cookie refused when init read it, unless a notice consent
\* string, an update made during init, or one of the ways in which fides-js
\* lets go of a saved refusal says otherwise (OptOutStands, the keys of
\* non_applicable_notice_keys that have become applicable, and notice-only
\* notices, which a provider may have refused).
RefusalSurvives ==
    [][\A p \in Pages : pc[p] # "ready" /\ pc'[p] = "ready" /\ clean[p] /\ ~reverted' =>
         \A n \in Offered(p).notices \ cookie[p].na :
            saved[p][n] = "out" /\ ~NoticeOnly(n) /\ visit[p].context.string[n] = "unset"
              => shown'[p][n] = "out"]_vars

\* What the tests of automated consent claim ("respects saved consent for GPC",
\* automated-consent.test.ts): the signal of the browser is a refusal, so while
\* nothing else has spoken no refusal in the cookie turns into consent.
OptOutStands ==
    [][\A n \in Notices :
         jar.cookie.consent[n] = "out" /\ jar'.cookie.consent[n] = "in"
           => ~(spoken' \subseteq {"gpc"})]_vars
==============================================================================
