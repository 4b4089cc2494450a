-------------------------- MODULE ConsentNotices_proofs --------------------------
(***************************************************************************)
(* fides-js brings in no refusal of a notice-only notice of its own: only  *)
(* another provider's consent does (denied).  NoticeOnlyStands is not      *)
(* inductive: an update copies Fides.cookie into the call, the call into   *)
(* the cookie of the browser and the answer into the record of the API, so *)
(* that every copy must stand (PageStands).  That a ready page shows the   *)
(* notice as given needs its cookie to be complete, and with it whatever a *)
(* call is about to put in the cookie's place (CallsAreWhole).             *)
(*                                                                         *)
(* The second part is about a visitor who has decided nothing: AskInv      *)
(* follows what automated consent saved through later visits.  The third   *)
(* is about one who has refused: RefusalInv follows the refusal through an *)
(* automated consent that is being saved.                                  *)
(***************************************************************************)
EXTENDS ConsentClient_proofs

Stands(c, D)   == \A n \in Notices \ D : NoticeOnly(n) => c[n] # "out"
Complete(c, o) == \A n \in o.notices : c[n] # "unset"

CopiesStand(p) ==
    /\ Stands(cookie[p].consent, denied) /\ Stands(prefs[p], denied) /\ Stands(shown[p], denied)
    /\ Stands(auto[p].cookie.consent, denied)
    /\ \A s \in Slots : Stands(calls[p][s].cookie.consent, denied)

ReadyIsComplete(p) ==
    pc[p] = "ready" =>
        Complete(cookie[p].consent, Offered(p)) /\ Complete(shown[p], Offered(p))

CallsAreWhole(p) ==
    \A s \in Slots : calls[p][s].stage = "called" =>
        /\ pc[p] # "closed"
        /\ calls[p][s].cookie.na = Offered(p).nonApplicable
        /\ pc[p] = "ready" => Complete(calls[p][s].cookie.consent, Offered(p))

PageStands(p) == CopiesStand(p) /\ ReadyIsComplete(p) /\ CallsAreWhole(p)

NoticeInv ==
    /\ Stands(jar.cookie.consent, denied) /\ Stands(server, denied)
    /\ \A p \in Pages : PageStands(p)

----------------------------------------------------------------------------
(* What the functions of ConsentValues keep.                               *)

LEMMA MapsStand ==
    ASSUME NEW c \in Consents, NEW d \in Consents, NEW D, Stands(c, D), NEW S
    PROVE  /\ Stands(Only(c, S), D) /\ Stands(Nothing, D)
           /\ Stands(d, D) => Stands(Spread(c, d), D)
  BY DEF Stands, Only, Nothing, Spread

LEMMA AutomatedStands ==
    ASSUME NEW o \in Offer, NEW old \in Consents, NEW ctx \in Context, NEW D
    PROVE  Stands(Automated(o, old, ctx), D)
<1>1. ASSUME NEW n \in Notices, NoticeOnly(n)
      PROVE  AutomatedValue(n, old, ctx) = "in"
  BY <1>1 DEF AutomatedValue, FromMigration, FromString, FromGpc
<1> QED
  BY <1>1 DEF Stands, Automated

LEMMA PreferencesStand ==
    ASSUME NEW o \in Offer, NEW c \in Cookie, NEW pf \in Consents,
           NEW D, Stands(c.consent, D), Stands(pf, D)
    PROVE  /\ Stands(PreferencesFrom(o, c), D) /\ Stands(UpdatedPreferences(o, c, pf), D)
           /\ Stands(StateOf(o, pf), D) /\ Complete(StateOf(o, pf), o)
           /\ \A S : Stands(Shown(c, S), D)
<1>1. c.consent \in Consents
  BY CookieParts
<1>2. Stands(PreferencesFrom(o, c), D) /\ \A S : Stands(Shown(c, S), D)
  BY <1>1, MapsStand DEF PreferencesFrom, Shown
<1>3. Stands(StateOf(o, pf), D)
  BY DEF Stands, StateOf, Default, NoticeOnly
<1>4. Complete(StateOf(o, pf), o)
  BY DEF Complete, StateOf, Default, Offer
<1> QED
  BY <1>2, <1>3, <1>4 DEF UpdatedPreferences

\* A cookie that lists the offer's own not applicable notices is shown whole.
LEMMA ShownWhole ==
    ASSUME NEW o \in Offer, NEW c \in Cookie, c.na = o.nonApplicable,
           Complete(c.consent, o)
    PROVE  Complete(Shown(c, o.nonApplicable), o)
  BY DEF Complete, Shown, Only, Offer

LEMMA GivenStands ==
    ASSUME NEW o \in Offer, NEW c \in Consents, NEW given \in Consents,
           NEW D, Stands(c, D), Valid(given, o)
    PROVE  /\ Stands(Only(Spread(c, given), o.notices), D)
           /\ Complete(c, o) => Complete(Only(Spread(c, given), o.notices), o)
<1>1. ASSUME NEW n \in o.notices, NoticeOnly(n)
      PROVE  given[n] # "out"
  BY <1>1 DEF Valid, Keys, Offer
<1>2. Stands(Only(Spread(c, given), o.notices), D)
  BY <1>1 DEF Stands, Only, Spread
<1>3. Complete(c, o) => Complete(Only(Spread(c, given), o.notices), o)
  BY DEF Complete, Only, Spread, Offer
<1> QED
  BY <1>2, <1>3

----------------------------------------------------------------------------
(* What the other pages keep.                                              *)

\* Bookkeeping on works leaves their stage and cookie alone.
LEMMA WorksKept ==
    ASSUME TypeOK, NEW p \in Pages, NEW q \in Pages, NEW s \in Slots,
           NEW works \in [Pages -> [Slots -> Work]]
    PROVE  /\ OthersNotAlone[q][s].stage = calls[q][s].stage
           /\ OthersNotAlone[q][s].cookie = calls[q][s].cookie
           /\ NotAlone(auto)[q].cookie = auto[q].cookie
           /\ Detached(p, works)[q][s].stage = works[q][s].stage
           /\ Detached(p, works)[q][s].cookie = works[q][s].cookie
<1>1. /\ SameWork(OthersNotAlone[q][s], calls[q][s])
      /\ SameWork(NotAlone(auto)[q], auto[q])
  BY NotAloneKept
<1>2. SameWork(Detached(p, works)[q][s], works[q][s])
  BY DetachedKept
<1> QED
  BY <1>1, <1>2 DEF SameWork

LEMMA Elsewhere ==
    ASSUME NoticeInv, NEW q \in Pages,
           denied \subseteq denied',
           cookie'[q] = cookie[q], prefs'[q] = prefs[q], shown'[q] = shown[q],
           pc'[q] = pc[q], visit'[q] = visit[q], auto'[q].cookie = auto[q].cookie,
           \A s \in Slots : /\ calls'[q][s].cookie = calls[q][s].cookie
                            /\ calls'[q][s].stage = calls[q][s].stage
    PROVE  PageStands(q)'
  BY DEF NoticeInv, PageStands, CopiesStand, ReadyIsComplete, CallsAreWhole, Offered, Stands,
         Complete

----------------------------------------------------------------------------
(* The steps of init.                                                      *)

LEMMA InitStands == Init => NoticeInv
<1> SUFFICES ASSUME Init PROVE NoticeInv
  OBVIOUS
<1>1. Stands(Nothing, denied) /\ Stands(NewCookie.consent, denied)
  BY DEF Stands, Nothing, NewCookie
<1>2. Idle.cookie = NewCookie /\ Idle.stage = "idle"
  BY DEF Idle
<1>3. ASSUME NEW p \in Pages PROVE PageStands(p)
  <2>1. /\ cookie[p] = NewCookie /\ prefs[p] = Nothing /\ shown[p] = Nothing
        /\ auto[p] = Idle /\ pc[p] = "closed" /\ \A s \in Slots : calls[p][s] = Idle
    BY DEF Init
  <2> QED
    BY <1>1, <1>2, <2>1 DEF PageStands, CopiesStand, ReadyIsComplete, CallsAreWhole
<1> QED
  BY <1>1, <1>3 DEF Init, NoticeInv

LEMMA BeginStands ==
    ASSUME TypeOK, NoticeInv, NEW p \in Pages, NEW o \in Offer, NEW prefetched \in BOOLEAN,
           NEW gpc \in BOOLEAN, NEW string \in Strings, NEW migrated \in Migrations,
           BeginInit(p, o, prefetched, gpc, string, migrated), Quiet(p) \/ pc[p] = "closed"
    PROVE  NoticeInv'
<1> DEFINE from == IF jar.exists THEN Nothing ELSE migrated
           c    == [jar.cookie EXCEPT !.consent = Spread(@, from)]
<1>0. denied' = denied \cup {n \in Notices : from[n] = "out"}
  BY DEF BeginInit
<1>1. from \in Consents /\ Nothing \in Consents /\ Stands(from, denied') /\ Stands(Nothing, denied')
  BY <1>0, ConstantsAssumption DEF Nothing, Consents, Stands
<1>2. /\ jar.cookie \in Cookie /\ jar.cookie.consent \in Consents
      /\ Stands(jar.cookie.consent, denied')
  BY <1>0, CookieParts DEF TypeOK, Jar, NoticeInv, Stands
<1>3. c \in Cookie /\ c.consent = Spread(jar.cookie.consent, from) /\ Stands(c.consent, denied')
  BY <1>1, <1>2, CookieParts, ConsentMaps, MapsStand DEF Cookie
<1>4. Stands(PreferencesFrom(o, c), denied')
  BY <1>1, <1>3, PreferencesStand
<1>5. ASSUME NEW q \in Pages, q # p PROVE PageStands(q)'
  <2>1. denied \subseteq denied'
    BY <1>0
  <2> HIDE DEF c, from
  <2> QED
    BY ZenonT(60), <1>5, <2>1, WorksKept, Elsewhere DEF BeginInit, TypeOK
<1>6. PageStands(p)'
  <2>1. CopiesStand(p) /\ CallsAreWhole(p)
    BY DEF NoticeInv, PageStands
  <2>2. \A s \in Slots : /\ calls'[p][s].stage = calls[p][s].stage
                         /\ calls'[p][s].cookie = calls[p][s].cookie
    BY WorksKept DEF BeginInit, TypeOK
  <2>3. \A s \in Slots : calls[p][s].stage # "called"
    BY <2>1 DEF Quiet, CallsAreWhole
  <2>4. /\ cookie'[p] = c /\ prefs'[p] \in {PreferencesFrom(o, c), Nothing}
        /\ shown'[p] \in {c.consent, shown[p]} /\ pc'[p] = "locating" /\ auto' = auto
    BY DEF BeginInit, TypeOK
  <2> HIDE DEF c, from
  <2>5. CopiesStand(p)'
    <3>1. \A x : Stands(x, denied) => Stands(x, denied')
      BY <1>0 DEF Stands
    <3> QED
      BY <1>1, <1>3, <1>4, <2>1, <2>2, <2>4, <3>1 DEF CopiesStand
  <2>6. ReadyIsComplete(p)' /\ CallsAreWhole(p)'
    BY <2>2, <2>3, <2>4 DEF ReadyIsComplete, CallsAreWhole
  <2> QED
    BY <2>5, <2>6 DEF PageStands
<1>7. Stands(jar.cookie.consent, denied)' /\ Stands(server, denied)'
  BY <1>0 DEF BeginInit, NoticeInv, Stands
<1> QED
  BY <1>5, <1>6, <1>7 DEF NoticeInv

\* What a page keeps when it ends its init without an experience, or waits.
LEMMA WaitStands ==
    ASSUME TypeOK, NoticeInv, NEW p \in Pages, Quiet(p),
           \/ EndBare(p)
           \/ /\ \/ pc' = [pc EXCEPT ![p] = "fetching"]
                 \/ pc' = [pc EXCEPT ![p] = "failed"]
              /\ UNCHANGED <<jar, cookie, prefs, shown, banner, auto, calls, history, doubt>>,
           UNCHANGED <<server, visit, saved, entries>>
    PROVE  NoticeInv'
<1>1. cookie[p] \in Cookie /\ Stands(cookie[p].consent, denied) /\ cookie[p].consent \in Consents
  BY CookieParts DEF TypeOK, NoticeInv, PageStands, CopiesStand
<1>2. Stands(Shown(cookie[p], NonApplicable(p)), denied)
  BY <1>1, MapsStand DEF Shown
<1>3. /\ pc'[p] # "ready" /\ shown'[p] \in {shown[p], Shown(cookie[p], NonApplicable(p))}
      /\ UNCHANGED <<jar, server, visit, cookie, prefs, auto, calls, denied>>
  BY DEF EndBare, TypeOK, entries
<1>4. ASSUME NEW q \in Pages, q # p PROVE PageStands(q)'
  BY <1>3, <1>4, Elsewhere DEF EndBare, TypeOK
<1>5. PageStands(p)'
  BY <1>2, <1>3 DEF NoticeInv, PageStands, CopiesStand, ReadyIsComplete, CallsAreWhole, Quiet
<1> QED
  BY <1>3, <1>4, <1>5 DEF NoticeInv

LEMMA FinalStand ==
    ASSUME TypeOK, NoticeInv, NEW p \in Pages
    PROVE  Stands(FinalPreferences(p, cookie[p], prefs[p]), denied)
<1>1. /\ Offered(p) \in Offer /\ cookie[p] \in Cookie /\ prefs[p] \in Consents
      /\ Stands(cookie[p].consent, denied) /\ Stands(prefs[p], denied)
  BY DEF TypeOK, Visit, Offered, NoticeInv, PageStands, CopiesStand
<1> QED
  BY <1>1, PreferencesStand DEF FinalPreferences

\* The page that ends its init with an experience.
LEMMA FinishStands ==
    ASSUME TypeOK, NoticeInv, NEW p \in Pages, Quiet(p),
           Finish(p, cookie[p], FinalPreferences(p, cookie[p], prefs[p])),
           visit' = visit, denied' = denied, auto'[p].cookie = auto[p].cookie
    PROVE  PageStands(p)'
<1> DEFINE o    == Offered(p)
           pf   == FinalPreferences(p, cookie[p], prefs[p])
           next == CookieFromExperience(cookie[p], o, pf)
<1>1. o \in Offer /\ cookie[p] \in Cookie /\ pf \in Consents /\ Stands(pf, denied)
  BY FinalTypes, FinalStand DEF TypeOK, Visit, Offered
<1>2. CopiesStand(p)
  BY DEF NoticeInv, PageStands
<1>3. /\ next \in Cookie /\ next.na = o.nonApplicable /\ next.consent = StateOf(o, pf)
  BY <1>1, PreferenceTypes DEF CookieFromExperience, Cookie
<1>4. Stands(StateOf(o, pf), denied) /\ Complete(StateOf(o, pf), o)
  BY <1>1, <1>2, PreferencesStand DEF CopiesStand
<1>5. /\ Stands(Shown(next, o.nonApplicable), denied)
      /\ Complete(Shown(next, o.nonApplicable), o)
  BY <1>1, <1>3, <1>4, PreferencesStand, ShownWhole
<1>6. /\ cookie'[p] = next /\ prefs'[p] = pf /\ shown'[p] = Shown(next, o.nonApplicable)
      /\ Offered(p)' = o
  BY DEF Finish, TypeOK, Offered
<1>7. \A s \in Slots : /\ calls'[p][s].stage = calls[p][s].stage
                       /\ calls'[p][s].cookie = calls[p][s].cookie
  BY WorksKept DEF Finish, TypeOK
<1> HIDE DEF next, pf, o
<1>8. CopiesStand(p)'
  BY <1>1, <1>2, <1>3, <1>4, <1>5, <1>6, <1>7 DEF CopiesStand
<1>9. ReadyIsComplete(p)'
  BY <1>3, <1>4, <1>5, <1>6 DEF ReadyIsComplete
<1>10. CallsAreWhole(p)'
  BY <1>7 DEF CallsAreWhole, Quiet
<1> QED
  BY <1>8, <1>9, <1>10 DEF PageStands

LEMMA ApplyStands ==
    ASSUME TypeOK, NoticeInv, NEW p \in Pages, Quiet(p), ApplyExperience(p),
           UNCHANGED <<server, visit, saved, entries>>
    PROVE  NoticeInv'
<1> DEFINE o       == Offered(p)
           ctx     == visit[p].context
           consent == Automated(o, saved[p], ctx)
           c       == [cookie[p] EXCEPT !.consent = consent,
                                        !.method = AutomatedMethod(o, ctx)]
<1>1. o \in Offer /\ ctx \in Context /\ saved[p] \in Consents /\ cookie[p] \in Cookie
  BY DEF TypeOK, Visit, Offered
<1>2. Stands(consent, denied) /\ c.consent = consent
  BY <1>1, AutomatedStands DEF Cookie
<1> denied' = denied
  BY DEF entries
<1>3. CASE Applied(o, saved[p], ctx)
  <2>1. /\ prefs' = [prefs EXCEPT ![p] = consent] /\ cookie' = [cookie EXCEPT ![p] = c]
        /\ auto' = [NotAlone(auto) EXCEPT ![p] =
                     [Idle EXCEPT !.stage = "encoding", !.cookie = c,
                                  !.kind = "automated", !.alone = AllSettled]]
        /\ calls' = Detached(p, OthersNotAlone)
        /\ UNCHANGED <<jar, writer>> \/ Write(p, c)
        /\ pc' = [pc EXCEPT ![p] = "saving"] /\ UNCHANGED <<shown, banner, clean, doubt>>
    BY <1>3 DEF ApplyExperience
  <2> HIDE DEF c, consent, ctx, o
  <2>2. \A q \in Pages, s \in Slots : /\ calls'[q][s].stage = calls[q][s].stage
                                      /\ calls'[q][s].cookie = calls[q][s].cookie
    <3>1. OthersNotAlone \in [Pages -> [Slots -> Work]]
      BY WorksTypes DEF TypeOK
    <3> QED
      BY <2>1, <3>1, WorksKept
  <2>3. auto'[p].cookie = c /\ \A q \in Pages : q # p => auto'[q].cookie = auto[q].cookie
    <3>1. NotAlone(auto) \in [Pages -> Work]
      BY WorksTypes DEF TypeOK
    <3>2. \A q \in Pages : NotAlone(auto)[q].cookie = auto[q].cookie
      BY DEF TypeOK, NotAlone, Work
    <3>3. \A x : \A y : [Idle EXCEPT !.stage = "encoding", !.cookie = x,
                             !.kind = "automated", !.alone = y].cookie = x
      BY DEF Idle
    <3> QED
      BY <2>1, <3>1, <3>2, <3>3
  <2>4. ASSUME NEW q \in Pages, q # p PROVE PageStands(q)'
    <3>1. /\ cookie'[q] = cookie[q] /\ prefs'[q] = prefs[q] /\ shown'[q] = shown[q]
          /\ pc'[q] = pc[q] /\ visit'[q] = visit[q]
      BY <2>1, <2>4 DEF TypeOK
    <3> QED
      BY <2>2, <2>3, <2>4, <3>1, Elsewhere
  <2>5. PageStands(p)'
    <3>1. /\ cookie'[p] = c /\ prefs'[p] = consent /\ shown'[p] = shown[p] /\ pc'[p] = "saving"
      BY <2>1 DEF TypeOK
    <3> QED
      BY <1>2, <2>2, <2>3, <3>1 DEF NoticeInv, PageStands, CopiesStand, ReadyIsComplete,
         CallsAreWhole, Quiet
  <2>6. Stands(jar.cookie.consent, denied)' /\ Stands(server, denied)'
    BY <1>2, <2>1 DEF NoticeInv, Write
  <2> QED
    BY <2>4, <2>5, <2>6 DEF NoticeInv
<1>4. CASE ~Applied(o, saved[p], ctx)
  <2>1. /\ Finish(p, cookie[p], FinalPreferences(p, cookie[p], prefs[p]))
        /\ UNCHANGED <<jar, auto>>
    BY <1>4 DEF ApplyExperience
  <2>2. PageStands(p)'
    BY <2>1, FinishStands
  <2>3. ASSUME NEW q \in Pages, q # p PROVE PageStands(q)'
    BY <2>1, <2>3, WorksKept, Elsewhere DEF Finish, TypeOK
  <2> QED
    BY <2>1, <2>2, <2>3 DEF NoticeInv
<1> QED
  BY <1>3, <1>4

LEMMA InitStepStands ==
    ASSUME TypeOK, NoticeInv, NEW p \in Pages, InitStep(p)
    PROVE  NoticeInv'
<1>1. ASSUME Locate(p) PROVE NoticeInv'
  BY <1>1, ApplyStands, WaitStands DEF Locate
<1>2. ASSUME FetchExperience(p) PROVE NoticeInv'
  BY <1>2, ApplyStands, WaitStands DEF FetchExperience
<1>3. ASSUME FinishInitialize(p) PROVE NoticeInv'
  <2>1. /\ Finish(p, cookie[p], FinalPreferences(p, cookie[p], prefs[p]))
        /\ Quiet(p) /\ UNCHANGED <<visit, server, denied>>
        /\ UNCHANGED <<jar, writer>> \/ Write(p, auto[p].cookie)
        /\ auto' = [auto EXCEPT ![p].stage = "patching"]
    BY <1>3 DEF FinishInitialize, entries
  <2>2. \A q \in Pages : auto'[q].cookie = auto[q].cookie
    BY <2>1 DEF TypeOK, Work
  <2>3. PageStands(p)'
    BY <2>1, <2>2, FinishStands
  <2>4. ASSUME NEW q \in Pages, q # p PROVE PageStands(q)'
    <3>1. /\ cookie'[q] = cookie[q] /\ prefs'[q] = prefs[q] /\ shown'[q] = shown[q]
          /\ pc'[q] = pc[q] /\ visit'[q] = visit[q]
      BY <2>1, <2>4 DEF Finish, TypeOK
    <3>2. \A s \in Slots : /\ calls'[q][s].stage = calls[q][s].stage
                           /\ calls'[q][s].cookie = calls[q][s].cookie
      BY <2>1, WorksKept DEF Finish, TypeOK
    <3> QED
      BY <2>1, <2>2, <3>1, <3>2, Elsewhere
  <2>5. Stands(jar.cookie.consent, denied)'
    <3>1. Stands(auto[p].cookie.consent, denied) /\ Stands(jar.cookie.consent, denied)
      BY DEF NoticeInv, PageStands, CopiesStand
    <3> QED
      BY <2>1, <3>1 DEF Write
  <2> QED
    BY <2>1, <2>3, <2>4, <2>5 DEF NoticeInv
<1> QED
  BY <1>1, <1>2, <1>3 DEF InitStep

----------------------------------------------------------------------------
(* updateConsent, setIdentity and their ends.                              *)

LEMMA UpdateConsentStands ==
    ASSUME TypeOK, NoticeInv, NEW p \in Pages, NEW s \in Slots, NEW given \in Consents,
           NEW method \in Methods, UpdateConsent(p, s, given, method)
    PROVE  NoticeInv'
<1> DEFINE o == Offered(p)
           c == CookieFromNoticePreferences(Spread(cookie[p].consent, given), method, o)
           w == [Idle EXCEPT !.stage = "called", !.kind = "update",
                             !.alone = AllSettled, !.cookie = c]
<1>1. /\ o \in Offer /\ cookie[p].consent \in Consents /\ Stands(cookie[p].consent, denied)
      /\ Valid(given, o) /\ pc[p] # "closed"
  BY CookieParts DEF TypeOK, Visit, Offered, NoticeInv, PageStands, CopiesStand,
     UpdateConsent, MayRun
<1>2. /\ c.consent = Only(Spread(cookie[p].consent, given), o.notices)
      /\ c.na = o.nonApplicable
  BY DEF CookieFromNoticePreferences
<1>3. Stands(c.consent, denied) /\ (pc[p] = "ready" => Complete(c.consent, o))
  <2>1. pc[p] = "ready" => Complete(cookie[p].consent, o)
    BY DEF NoticeInv, PageStands, ReadyIsComplete
  <2> QED
    BY <1>1, <1>2, <2>1, GivenStands
<1>4. w.stage = "called" /\ w.cookie = c
  BY DEF Idle
<1>5. /\ OthersNotAlone \in [Pages -> [Slots -> Work]]
      /\ calls' = [OthersNotAlone EXCEPT ![p][s] = w]
      /\ auto' = NotAlone(auto)
      /\ UNCHANGED <<jar, server, pageVars, denied>>
  BY WorksTypes DEF UpdateConsent, TypeOK
<1> HIDE DEF c, w
<1>6. \A q \in Pages, x \in Slots :
        \/ q = p /\ x = s /\ calls'[q][x] = w
        \/ /\ calls'[q][x].stage = calls[q][x].stage
           /\ calls'[q][x].cookie = calls[q][x].cookie
  <2>1. \A q \in Pages, x \in Slots :
          calls'[q][x] = IF q = p /\ x = s THEN w ELSE OthersNotAlone[q][x]
    BY <1>5
  <2>2. \A q \in Pages, x \in Slots : /\ OthersNotAlone[q][x].stage = calls[q][x].stage
                                      /\ OthersNotAlone[q][x].cookie = calls[q][x].cookie
    BY WorksKept DEF TypeOK
  <2> QED
    BY <2>1, <2>2
<1>7. \A q \in Pages : auto'[q].cookie = auto[q].cookie
  BY <1>5 DEF TypeOK, NotAlone, Work
<1>8. ASSUME NEW q \in Pages, q # p PROVE PageStands(q)'
  BY <1>5, <1>6, <1>7, <1>8, Elsewhere DEF pageVars
<1>9. PageStands(p)'
  <2>1. CopiesStand(p) /\ ReadyIsComplete(p) /\ CallsAreWhole(p)
    BY DEF NoticeInv, PageStands
  <2>2. CopiesStand(p)'
    BY <1>3, <1>4, <1>5, <1>6, <1>7, <2>1 DEF CopiesStand, pageVars
  <2>3. ReadyIsComplete(p)'
    BY <1>5, <2>1 DEF ReadyIsComplete, pageVars, Offered
  <2>4. CallsAreWhole(p)'
    BY <1>1, <1>2, <1>3, <1>4, <1>5, <1>6, <2>1 DEF CallsAreWhole, pageVars, Offered
  <2> QED
    BY <2>2, <2>3, <2>4 DEF PageStands
<1> QED
  BY <1>5, <1>8, <1>9 DEF NoticeInv

\* A step that replaces or moves on one call, and takes cookies only from where
\* they stand.
LEMMA CallMoves ==
    ASSUME TypeOK, NoticeInv, NEW p \in Pages, NEW s \in Slots,
           NEW works \in [Pages -> [Slots -> Work]],
           \A q \in Pages, x \in Slots : /\ works[q][x].stage = calls[q][x].stage
                                         /\ works[q][x].cookie = calls[q][x].cookie,
           NEW w \in Work, w.stage # "called", Stands(w.cookie.consent, denied),
           calls' = [works EXCEPT ![p][s] = w],
           \A q \in Pages : auto'[q].cookie = auto[q].cookie,
           UNCHANGED <<pc, visit, cookie, prefs, shown, denied>>
    PROVE  \A q \in Pages : PageStands(q)'
<1>1. \A q \in Pages, x \in Slots : calls'[q][x] = IF q = p /\ x = s THEN w ELSE works[q][x]
  OBVIOUS
<1>2. SUFFICES ASSUME NEW q \in Pages PROVE PageStands(q)'
  OBVIOUS
<1>3. CopiesStand(q) /\ ReadyIsComplete(q) /\ CallsAreWhole(q)
  BY DEF NoticeInv, PageStands
<1>4. CopiesStand(q)'
  <2>1. /\ Stands(cookie'[q].consent, denied') /\ Stands(prefs'[q], denied')
        /\ Stands(shown'[q], denied') /\ Stands(auto'[q].cookie.consent, denied')
    BY <1>3 DEF CopiesStand
  <2>2. ASSUME NEW x \in Slots PROVE Stands(calls'[q][x].cookie.consent, denied')
    BY <1>1, <1>3 DEF CopiesStand
  <2> QED
    BY <2>1, <2>2 DEF CopiesStand
<1>5. ReadyIsComplete(q)'
  BY <1>3 DEF ReadyIsComplete, Offered
<1>6. CallsAreWhole(q)'
  <2> SUFFICES ASSUME NEW x \in Slots, calls'[q][x].stage = "called"
               PROVE  /\ pc[q] # "closed"
                      /\ calls'[q][x].cookie.na = Offered(q).nonApplicable
                      /\ pc[q] = "ready" => Complete(calls'[q][x].cookie.consent, Offered(q))
    BY DEF CallsAreWhole, Complete, Offered
  <2>1. calls'[q][x] = works[q][x]
    BY <1>1
  <2> QED
    BY <1>3, <2>1 DEF CallsAreWhole
<1> QED
  BY <1>4, <1>5, <1>6 DEF PageStands

LEMMA PreferencesStands ==
    ASSUME TypeOK, NoticeInv, NEW p \in Pages, NEW s \in Slots,
           UpdateConsentPreferences(p, s)
    PROVE  NoticeInv'
<1> DEFINE c == calls[p][s].cookie
           o == Offered(p)
<1>1. /\ calls[p][s] \in Work /\ c \in Cookie /\ c.consent \in Consents /\ o \in Offer
  BY WorkTypes, CookieParts DEF TypeOK, Visit, Offered
<1>2. /\ CopiesStand(p) /\ CallsAreWhole(p) /\ Stands(c.consent, denied) /\ calls[p][s].stage = "called"
  BY DEF NoticeInv, PageStands, CopiesStand, UpdateConsentPreferences
<1>3. c.na = o.nonApplicable /\ (pc[p] = "ready" => Complete(c.consent, o))
  BY <1>2 DEF CallsAreWhole
<1>4. /\ Stands(Shown(c, o.nonApplicable), denied)
      /\ pc[p] = "ready" => Complete(Shown(c, o.nonApplicable), o)
  <2>1. Stands(Shown(c, o.nonApplicable), denied)
    BY <1>1, <1>2, MapsStand DEF Shown
  <2> QED
    BY <1>1, <1>3, <2>1, ShownWhole
<1>5. /\ cookie' = [cookie EXCEPT ![p] = c]
      /\ shown' = [shown EXCEPT ![p] = Shown(c, o.nonApplicable)]
      /\ UNCHANGED <<server, pc, visit, prefs, auto, denied>>
      /\ UNCHANGED <<jar, writer>> \/ Write(p, c)
      /\ \E st \in {"encoding", "patching"} : calls' = [calls EXCEPT ![p][s].stage = st]
  BY DEF UpdateConsentPreferences, entries
<1>6. \A q \in Pages, x \in Slots :
        /\ calls'[q][x].cookie = calls[q][x].cookie
        /\ calls'[q][x].stage = calls[q][x].stage \/ (q = p /\ x = s /\ calls'[q][x].stage # "called")
  <2>1. PICK st \in {"encoding", "patching"} : calls' = [calls EXCEPT ![p][s].stage = st]
    BY <1>5
  <2>2. \A q \in Pages, x \in Slots :
          calls'[q][x] = IF q = p /\ x = s THEN [calls[p][s] EXCEPT !.stage = st] ELSE calls[q][x]
    BY <2>1 DEF TypeOK
  <2>3. [calls[p][s] EXCEPT !.stage = st].cookie = c /\ [calls[p][s] EXCEPT !.stage = st].stage = st
    BY <1>1 DEF Work
  <2> QED
    BY <2>2, <2>3
<1>7. ASSUME NEW q \in Pages, q # p PROVE PageStands(q)'
  BY <1>5, <1>6, <1>7, Elsewhere DEF TypeOK
<1>8. PageStands(p)'
  <2>1. cookie'[p] = c /\ shown'[p] = Shown(c, o.nonApplicable) /\ Offered(p)' = o
    BY <1>5 DEF TypeOK, Offered
  <2> HIDE DEF c, o
  <2>2. CopiesStand(p)'
    BY <1>2, <1>4, <1>5, <1>6, <2>1 DEF CopiesStand
  <2>3. ReadyIsComplete(p)'
    BY <1>3, <1>4, <1>5, <2>1 DEF ReadyIsComplete
  <2>4. CallsAreWhole(p)'
    BY <1>2, <1>5, <1>6, <2>1 DEF CallsAreWhole, o
  <2> QED
    BY <2>2, <2>3, <2>4 DEF PageStands
<1>9. Stands(jar.cookie.consent, denied)' /\ Stands(server, denied)'
  BY <1>2, <1>5 DEF NoticeInv, Write
<1> QED
  BY <1>7, <1>8, <1>9 DEF NoticeInv

LEMMA SetIdentityStands ==
    ASSUME TypeOK, NoticeInv, NEW p \in Pages, NEW s \in Slots, SetIdentity(p, s)
    PROVE  NoticeInv'
<1> DEFINE w == [Idle EXCEPT !.stage = "encoding", !.kind = "identity", !.cookie = cookie[p]]
<1>1. cookie[p] \in Cookie /\ Stands(cookie[p].consent, denied)
  BY DEF TypeOK, NoticeInv, PageStands, CopiesStand
<1>2. w \in Work /\ w.stage = "encoding" /\ w.cookie = cookie[p]
  BY <1>1, NewWork DEF Idle
<1>3. /\ \/ calls' = [OthersNotAlone EXCEPT ![p][s] = w]
         \/ calls' = OthersNotAlone
      /\ UNCHANGED <<jar, writer>> \/ Write(p, cookie[p])
      /\ auto' = NotAlone(auto) /\ UNCHANGED <<server, pageVars, denied>>
  BY DEF SetIdentity
<1> HIDE DEF w
<1>4. /\ OthersNotAlone \in [Pages -> [Slots -> Work]]
      /\ \A q \in Pages, x \in Slots : /\ OthersNotAlone[q][x].stage = calls[q][x].stage
                                       /\ OthersNotAlone[q][x].cookie = calls[q][x].cookie
  <2>1. calls \in [Pages -> [Slots -> Work]]
    BY DEF TypeOK
  <2>2. OthersNotAlone \in [Pages -> [Slots -> Work]]
    BY <2>1, WorksTypes
  <2>3. ASSUME NEW q \in Pages, NEW x \in Slots
        PROVE  /\ OthersNotAlone[q][x].stage = calls[q][x].stage
               /\ OthersNotAlone[q][x].cookie = calls[q][x].cookie
    BY <2>1, WorksKept
  <2> QED
    BY <2>2, <2>3
<1>5. \A q \in Pages : auto'[q].cookie = auto[q].cookie
  BY <1>3 DEF TypeOK, NotAlone, Work
<1>6. \A q \in Pages : PageStands(q)'
  <2>1. CASE calls' = [OthersNotAlone EXCEPT ![p][s] = w]
    BY <1>1, <1>2, <1>3, <1>4, <1>5, <2>1, CallMoves DEF pageVars
  <2>2. CASE calls' = OthersNotAlone
    BY <1>3, <1>4, <1>5, <2>2, Elsewhere DEF pageVars
  <2> QED
    BY <1>3, <2>1, <2>2
<1>7. Stands(jar.cookie.consent, denied)' /\ Stands(server, denied)'
  BY <1>1, <1>3 DEF NoticeInv, Write
<1> QED
  BY <1>6, <1>7 DEF NoticeInv

LEMMA CookieEncodedStands ==
    ASSUME TypeOK, NoticeInv, NEW p \in Pages, NEW s \in Slots, CookieEncoded(p, s)
    PROVE  NoticeInv'
<1>1. calls[p][s] \in Work /\ Stands(calls[p][s].cookie.consent, denied) /\ Stands(server, denied)
  BY DEF TypeOK, NoticeInv, PageStands, CopiesStand
<1>2. /\ \/ calls' = [calls EXCEPT ![p][s].stage = "patching"]
         \/ calls' = [calls EXCEPT ![p][s] = Idle]
      /\ Write(p, calls[p][s].cookie)
      /\ UNCHANGED <<server, pc, visit, cookie, prefs, shown, auto, denied>>
  BY DEF CookieEncoded, entries
<1>3. Idle \in Work /\ Idle.stage = "idle" /\ Stands(Idle.cookie.consent, denied)
  BY NewWork DEF Idle, Stands, NewCookie, Nothing
<1>4. LET w == [calls[p][s] EXCEPT !.stage = "patching"]
      IN  w \in Work /\ w.stage = "patching" /\ w.cookie = calls[p][s].cookie
  BY <1>1 DEF Work
<1>5. \A q \in Pages : PageStands(q)'
  <2>1. CASE calls' = [calls EXCEPT ![p][s] = Idle]
    BY <1>2, <1>3, <2>1, CallMoves DEF TypeOK
  <2>2. CASE calls' = [calls EXCEPT ![p][s].stage = "patching"]
    <3>1. calls' = [calls EXCEPT ![p][s] = [calls[p][s] EXCEPT !.stage = "patching"]]
      BY <2>2
    <3> QED
      BY <1>1, <1>2, <1>4, <3>1, CallMoves DEF TypeOK
  <2> QED
    BY <1>2, <2>1, <2>2
<1>6. Stands(jar.cookie.consent, denied)'
  BY <1>1, <1>2 DEF Write
<1> QED
  BY <1>1, <1>2, <1>5, <1>6 DEF NoticeInv

LEMMA AnswerStands ==
    ASSUME TypeOK, NoticeInv, NEW p \in Pages,
           \/ \E s \in Slots : PatchAnswered(p, s)
           \/ AutomatedAnswered(p)
    PROVE  NoticeInv'
<1>1. Idle \in Work /\ Idle.stage = "idle" /\ Stands(Idle.cookie.consent, denied)
  BY NewWork DEF Idle, Stands, NewCookie, Nothing
<1>2. ASSUME NEW w \in Work, Stands(w.cookie.consent, denied), Answer(w), denied' = denied
      PROVE  Stands(server, denied)'
  <2>1. w.cookie.consent \in Consents /\ server \in Consents /\ Stands(server, denied)
    BY <1>2, WorkTypes, CookieParts DEF TypeOK, NoticeInv
  <2>2. Stands(Spread(server, w.cookie.consent), denied)
    BY <1>2, <2>1, MapsStand
  <2> QED
    BY <1>2, <2>1, <2>2 DEF Answer
<1>3. ASSUME NEW s \in Slots, PatchAnswered(p, s) PROVE NoticeInv'
  <2>1. calls[p][s] \in Work /\ Stands(calls[p][s].cookie.consent, denied)
    BY DEF TypeOK, NoticeInv, PageStands, CopiesStand
  <2>2. /\ Answer(calls[p][s]) /\ calls' = [calls EXCEPT ![p][s] = Idle]
        /\ UNCHANGED <<jar, pc, visit, cookie, prefs, shown, auto, denied>>
    BY <1>3 DEF PatchAnswered, pageVars, entries
  <2>3. \A q \in Pages : PageStands(q)'
    BY <1>1, <2>2, CallMoves DEF TypeOK
  <2> QED
    BY <1>2, <2>1, <2>2, <2>3 DEF NoticeInv
<1>4. ASSUME AutomatedAnswered(p) PROVE NoticeInv'
  <2>1. auto[p] \in Work /\ Stands(auto[p].cookie.consent, denied)
    BY DEF TypeOK, NoticeInv, PageStands, CopiesStand
  <2>2. /\ Answer(auto[p]) /\ auto' = [auto EXCEPT ![p] = Idle]
        /\ UNCHANGED <<jar, pc, visit, cookie, prefs, shown, calls, denied>>
    BY <1>4 DEF AutomatedAnswered, pageVars, entries
  <2>3. ASSUME NEW q \in Pages, q # p PROVE PageStands(q)'
    BY <2>2, <2>3, Elsewhere DEF TypeOK
  <2>4. auto'[p] = Idle
    BY <2>2 DEF TypeOK
  <2>5. PageStands(p)'
    BY <1>1, <2>2, <2>4 DEF NoticeInv, PageStands, CopiesStand, ReadyIsComplete,
       CallsAreWhole, Offered
  <2> QED
    BY <1>2, <2>1, <2>2, <2>3, <2>5 DEF NoticeInv
<1> QED
  BY <1>3, <1>4

\* A tab that is closed holds nothing, and what it sent last stands.
LEMMA ClosePageStands ==
    ASSUME TypeOK, NoticeInv, NEW p \in Pages, ClosePage(p)
    PROVE  NoticeInv'
<1> denied' = denied
  BY DEF ClosePage, entries
<1>1. Stands(Idle.cookie.consent, denied) /\ Stands(Nothing, denied) /\ Stands(NewCookie.consent, denied)
  BY DEF Idle, Stands, NewCookie, Nothing
<1>2. Idle.stage = "idle"
  BY DEF Idle
<1>3. /\ pc'[p] = "closed" /\ cookie'[p] = NewCookie /\ prefs'[p] = Nothing
      /\ shown'[p] = Nothing /\ auto'[p] = Idle /\ \A s \in Slots : calls'[p][s] = Idle
  BY DEF ClosePage, TypeOK
<1>4. PageStands(p)'
  BY <1>1, <1>2, <1>3 DEF PageStands, CopiesStand, ReadyIsComplete, CallsAreWhole
<1>5. ASSUME NEW q \in Pages, q # p PROVE PageStands(q)'
  BY <1>5, Elsewhere DEF ClosePage, TypeOK
<1>6. Stands(server, denied)'
  <2>1. server \in Consents /\ Stands(server, denied)
    BY DEF TypeOK, NoticeInv
  <2>2. ASSUME NEW w \in Work, Stands(w.cookie.consent, denied),
               server' = Spread(server, w.cookie.consent)
        PROVE  Stands(server, denied)'
    BY <2>1, <2>2, MapsStand, WorkTypes, CookieParts
  <2>3. \A w \in {auto[p]} \cup {calls[p][s] : s \in Slots} :
          w \in Work /\ Stands(w.cookie.consent, denied)
    BY DEF TypeOK, NoticeInv, PageStands, CopiesStand
  <2> QED
    BY <2>1, <2>2, <2>3 DEF ClosePage
<1> QED
  BY <1>4, <1>5, <1>6 DEF ClosePage, NoticeInv

----------------------------------------------------------------------------

LEMMA NextStands == TypeOK /\ NoticeInv /\ [Next]_vars => NoticeInv'
<1> SUFFICES ASSUME TypeOK, NoticeInv, [Next]_vars PROVE NoticeInv'
  OBVIOUS
<1>1. CASE UNCHANGED vars
  <2>1. \A q \in Pages : PageStands(q)'
    BY <1>1, Elsewhere DEF vars, pageVars, entries
  <2> QED
    BY <1>1, <2>1 DEF NoticeInv, vars, entries
<1>2. ASSUME NEW p \in Pages, LoadPage(p) PROVE NoticeInv'
  <2>1. PICK o \in Offers, prefetched \in BOOLEAN, gpc \in BOOLEAN,
             string \in Strings, migrated \in Migrations :
               BeginInit(p, o, prefetched, gpc, string, migrated)
    BY <1>2 DEF LoadPage
  <2>2. o \in Offer /\ pc[p] = "closed"
    BY <1>2, ConstantsAssumption DEF LoadPage
  <2> QED
    BY <2>1, <2>2, BeginStands
<1>3. ASSUME NEW p \in Pages, Reinitialize(p) PROVE NoticeInv'
  <2>1. PICK string \in Strings, migrated \in Migrations :
               BeginInit(p, Offered(p), visit[p].prefetched, visit[p].context.gpc,
                         string, migrated)
    BY <1>3 DEF Reinitialize
  <2>2. /\ Offered(p) \in Offer /\ visit[p].prefetched \in BOOLEAN
        /\ visit[p].context.gpc \in BOOLEAN /\ Quiet(p)
    BY <1>3 DEF Reinitialize, TypeOK, Visit, Context, Offered
  <2> QED
    BY <2>1, <2>2, BeginStands
<1>4. ASSUME NEW p \in Pages, NEW s \in Slots, UserSaves(p, s) \/ UserDismisses(p, s)
      PROVE  NoticeInv'
  BY <1>4, OverlaySavesMap, UpdateConsentStands
<1>5. ASSUME NEW p \in Pages, NEW s \in Slots, ScriptCalls(p, s) PROVE NoticeInv'
  BY <1>5, ConstantsAssumption, UpdateConsentStands DEF ScriptCalls, Methods
<1> QED
  BY <1>1, <1>2, <1>3, <1>4, <1>5, InitStepStands, PreferencesStands, SetIdentityStands,
     CookieEncodedStands, AnswerStands, ClosePageStands DEF Next, CallStep

LEMMA InvImplies == TypeOK /\ NoticeInv => NoticeOnlyStands
<1> SUFFICES ASSUME TypeOK, NoticeInv, NEW n \in Notices \ denied, NoticeOnly(n)
             PROVE  /\ jar.cookie.consent[n] # "out" /\ server[n] # "out"
                    /\ \A p \in Pages :
                         /\ shown[p][n] # "out"
                         /\ pc[p] = "ready" /\ n \in Offered(p).notices => shown[p][n] = "in"
  BY DEF NoticeOnlyStands
<1>1. ASSUME NEW p \in Pages
      PROVE  /\ shown[p][n] # "out"
             /\ pc[p] = "ready" /\ n \in Offered(p).notices => shown[p][n] = "in"
  <2>1. /\ Stands(shown[p], denied)
        /\ pc[p] = "ready" => Complete(shown[p], Offered(p))
    BY DEF NoticeInv, PageStands, CopiesStand, ReadyIsComplete
  <2>2. shown[p][n] \in {"in", "out", "unset"}
    BY DEF TypeOK, Consents, Choice
  <2> QED
    BY <2>1, <2>2 DEF Stands, Complete
<1> QED
  BY <1>1 DEF NoticeInv, Stands

\* A notice-only notice is refused only where another provider refused it: for
\* any pages, calls, notices, strings, migrated consent and interleaving of
\* tabs, as long as no provider's consent that init read refused the notice, no
\* copy of the consent (browser, page or API) says "out" for it, and a ready
\* page shows it as given.
THEOREM NoticeOnlyHolds == Spec => []NoticeOnlyStands
<1>1. Init => TypeOK /\ NoticeInv
  BY InitTypes, InitStands
<1>2. (TypeOK /\ NoticeInv) /\ [Next]_vars => (TypeOK /\ NoticeInv)'
  BY NextTypes, NextStands
<1>3. TypeOK /\ NoticeInv => NoticeOnlyStands
  BY InvImplies
<1> QED
  BY <1>1, <1>2, <1>3, PTL DEF Spec
----------------------------------------------------------------------------
(* A visitor who has decided nothing.  UndecidedIsAsked and GpcHonoured     *)
(* speak of ready pages; the invariant says what the cookie of the browser  *)
(* and the pages under way hold as long as nobody but the signal of the     *)
(* browser has spoken: no call is in progress, the cookie was written by    *)
(* nothing but automated consent, and it refuses every flagged notice.      *)

Silent        == spoken \subseteq {"gpc"}
Flagged(n)    == n \in GpcNotices /\ ~NoticeOnly(n)
NotGranted(c) == \A n \in Notices : Flagged(n) => c[n] # "in"

JarIsUnsaid ==
    /\ jar.cookie.na = {}
    /\ jar.exists => jar.cookie.method = "gpc"
    /\ ~jar.exists => jar.cookie.consent = Nothing /\ jar.cookie.method = "none"
    /\ ~reverted => NotGranted(jar.cookie.consent)

\* During init: the page has what it read, or what another provider's cookie says.
Reading(p) ==
    /\ cookie[p].na = {} /\ cookie[p].consent = saved[p]
    /\ \/ /\ cookie[p].method = "gpc"
          /\ visit[p].prefetched => prefs[p] = PreferencesFrom(Offered(p), cookie[p])
          /\ ~reverted => NotGranted(saved[p])
       \/ /\ cookie[p].method = "none"
          /\ saved[p] = visit[p].context.migrated
          /\ visit[p].context.migrated \in Migrations

\* While it is saved, the automated consent refuses every flagged notice on offer.
Saving(p) ==
    /\ cookie[p].na = {} /\ cookie[p].method = "gpc" /\ Offered(p).notices # {}
    /\ auto[p].stage = "encoding" /\ auto[p].cookie = cookie[p]
    /\ prefs[p] = cookie[p].consent
    /\ ~reverted => \A n \in Notices : Flagged(n) =>
         cookie[p].consent[n] = IF n \in Offered(p).notices THEN "out" ELSE "unset"

ShowsRefusals(p) ==
    ~reverted => \A n \in Offered(p).notices :
        Flagged(n) /\ visit[p].context.gpc /\ visit[p].context.string[n] = "unset"
          => shown[p][n] = "out"

\* Another provider's cookie says nothing of notice-only notices.
NoticeOnlyUnnamed == \A m \in Migrations, n \in Notices : NoticeOnly(n) => m[n] = "unset"

ShowsBanner(p) == NoticeOnlyUnnamed => banner[p]

Asks(p) ==
    /\ \A s \in Slots : calls[p][s].stage = "idle"
    /\ pc[p] \in {"locating", "fetching"} => Reading(p)
    /\ pc[p] = "saving" => Saving(p)
    /\ pc[p] = "ready" => ShowsBanner(p) /\ ShowsRefusals(p)

AskInv == Silent => JarIsUnsaid /\ \A p \in Pages : Asks(p)

LEMMA InitAsks == Init => AskInv
<1> SUFFICES ASSUME Init PROVE JarIsUnsaid /\ \A p \in Pages : Asks(p)
  BY DEF AskInv
<1>1. JarIsUnsaid
  BY DEF Init, JarIsUnsaid, NewCookie, NotGranted, Nothing
<1>2. ASSUME NEW p \in Pages PROVE Asks(p)
  <2>1. pc[p] = "closed" /\ \A s \in Slots : calls[p][s] = Idle
    BY DEF Init
  <2> QED
    BY <2>1 DEF Asks, Idle
<1> QED
  BY <1>1, <1>2

LEMMA AsksElsewhere ==
    ASSUME NEW q \in Pages, Asks(q), reverted => reverted',
           cookie'[q] = cookie[q], saved'[q] = saved[q], prefs'[q] = prefs[q],
           shown'[q] = shown[q], banner'[q] = banner[q], pc'[q] = pc[q],
           visit'[q] = visit[q], auto'[q].cookie = auto[q].cookie,
           auto'[q].stage = auto[q].stage,
           \A s \in Slots : calls'[q][s].stage = calls[q][s].stage
    PROVE  Asks(q)'
<1>1. pc[q] \in {"locating", "fetching"} => Reading(q)'
  BY DEF Asks, Reading, Offered
<1>2. pc[q] = "saving" => Saving(q)'
  BY DEF Asks, Saving, Offered
<1>3. pc[q] = "ready" => ShowsBanner(q)' /\ ShowsRefusals(q)'
  BY DEF Asks, ShowsBanner, ShowsRefusals, Offered
<1> QED
  BY <1>1, <1>2, <1>3 DEF Asks

LEMMA BeginAsks ==
    ASSUME TypeOK, AskInv, Silent, NEW p \in Pages, NEW o \in Offer,
           NEW prefetched \in BOOLEAN, NEW gpc \in BOOLEAN,
           NEW string \in Strings, NEW migrated \in Migrations,
           BeginInit(p, o, prefetched, gpc, string, migrated)
    PROVE  JarIsUnsaid' /\ \A q \in Pages : Asks(q)'
<1> DEFINE from == IF jar.exists THEN Nothing ELSE migrated
           c    == [jar.cookie EXCEPT !.consent = Spread(@, from)]
<1>1. JarIsUnsaid /\ \A q \in Pages : Asks(q)
  BY DEF AskInv
<1>2. from \in Consents /\ jar.cookie \in Cookie /\ jar.cookie.consent \in Consents
  BY CookieParts, ConstantsAssumption DEF TypeOK, Jar, Nothing, Consents
<1>3. JarIsUnsaid'
  BY <1>1 DEF JarIsUnsaid, BeginInit, NotGranted
<1>4. ASSUME NEW q \in Pages, NEW s \in Slots
      PROVE  calls'[q][s].stage = calls[q][s].stage
  BY WorksKept DEF BeginInit, TypeOK
<1>5. ASSUME NEW q \in Pages, q # p PROVE Asks(q)'
  BY <1>1, <1>4, <1>5, AsksElsewhere DEF BeginInit, TypeOK
<1>6. /\ c.na = {} /\ c.consent = Spread(jar.cookie.consent, from)
      /\ c.method = jar.cookie.method
  BY <1>1, <1>2 DEF JarIsUnsaid, Cookie
<1>7. /\ cookie'[p] = c /\ saved'[p] = c.consent /\ pc'[p] = "locating"
      /\ Offered(p)' = o /\ visit'[p].prefetched = prefetched
      /\ visit'[p].context.migrated = from /\ reverted' = reverted
      /\ jar.exists /\ prefetched => prefs'[p] = PreferencesFrom(o, c)
  BY DEF BeginInit, TypeOK, Offered
<1> HIDE DEF c
<1>8. Reading(p)'
  <2>1. CASE jar.exists
    <3>1. Spread(jar.cookie.consent, from) = jar.cookie.consent
      BY <1>2, <2>1 DEF Spread, Nothing, Consents
    <3> QED
      BY <1>1, <1>6, <1>7, <2>1, <3>1 DEF Reading, JarIsUnsaid
  <2>2. CASE ~jar.exists
    <3>1. Spread(jar.cookie.consent, from) = from /\ from = migrated
      BY <1>1, <1>2, <2>2 DEF Spread, Nothing, Consents, JarIsUnsaid
    <3> QED
      BY <1>1, <1>6, <1>7, <2>2, <3>1 DEF Reading, JarIsUnsaid
  <2> QED
    BY <2>1, <2>2
<1>9. Asks(p)'
  BY <1>1, <1>4, <1>7, <1>8 DEF Asks
<1> QED
  BY <1>3, <1>5, <1>9

\* What the cookie refuses is refused by the page at the end of init.
LEMMA RefusalsAreShown ==
    ASSUME NEW o \in Offer, NEW c \in Cookie, NEW pf \in Consents, NEW n \in o.notices,
           c.consent[n] = "out", c.na = {}
    PROVE  /\ PreferencesFrom(o, c)[n] = "out" /\ UpdatedPreferences(o, c, pf)[n] = "out"
           /\ pf[n] = "out" => Shown(CookieFromExperience(c, o, pf), o.nonApplicable)[n] = "out"
<1>1. n \in Notices /\ c.consent \in Consents
  BY CookieParts DEF Offer
<1>2. PreferencesFrom(o, c)[n] = "out"
  BY <1>1 DEF PreferencesFrom, Only
<1>3. UpdatedPreferences(o, c, pf)[n] = "out"
  BY <1>1, <1>2 DEF UpdatedPreferences, Keys
<1>4. ASSUME pf[n] = "out"
      PROVE  Shown(CookieFromExperience(c, o, pf), o.nonApplicable)[n] = "out"
  <2>1. StateOf(o, pf)[n] = "out"
    BY <1>1, <1>4 DEF StateOf
  <2>2. /\ CookieFromExperience(c, o, pf).consent = StateOf(o, pf)
        /\ CookieFromExperience(c, o, pf).na = o.nonApplicable
    BY DEF CookieFromExperience, Cookie
  <2> QED
    BY <1>1, <2>1, <2>2 DEF Shown, Only
<1> QED
  BY <1>2, <1>3, <1>4

\* Consent that is recorded as the browser's signal has no other source.
LEMMA OnlyTheSignal ==
    ASSUME NEW o, NEW old, NEW ctx, Applied(o, old, ctx), AutomatedMethod(o, ctx) = "gpc"
    PROVE  /\ ctx.gpc
           /\ \A n \in o.notices : ~FromMigration(n, ctx) /\ ~FromString(n, ctx)
<1>1. \A n \in o.notices : ~FromMigration(n, ctx) /\ ~FromString(n, ctx)
  BY DEF AutomatedMethod
<1> QED
  BY <1>1 DEF Applied, FromGpc

\* It refuses the flagged notices, unless a saved refusal gives way to a default.
LEMMA SignalRefuses ==
    ASSUME NEW o \in Offer, NEW old \in Consents, NEW ctx \in Context,
           Applied(o, old, ctx), AutomatedMethod(o, ctx) = "gpc",
           NEW n \in Notices, Flagged(n), old[n] # "in" \/ n \notin o.notices,
           n \in o.notices => ~(old[n] = "out" /\ Automated(o, old, ctx)[n] = "in")
    PROVE  Automated(o, old, ctx)[n] = IF n \in o.notices THEN "out" ELSE "unset"
<1>1. CASE n \notin o.notices
  BY <1>1 DEF Automated
<1>2. CASE n \in o.notices
  <2>1. ctx.gpc /\ ~FromMigration(n, ctx) /\ ~FromString(n, ctx) /\ ~NoticeOnly(n)
    BY <1>2, OnlyTheSignal DEF Flagged
  <2>2. Automated(o, old, ctx)[n]
          = IF FromGpc(n, ctx, old) THEN "out" ELSE WithoutSource(n, old)
    BY <1>2, <2>1 DEF Automated, AutomatedValue
  <2>3. old[n] \in {"in", "out", "unset"}
    BY DEF Consents, Choice
  <2>4. CASE old[n] = "unset"
    BY <1>2, <2>1, <2>2, <2>4 DEF FromGpc, Flagged
  <2>5. CASE old[n] = "out"
    <3>1. Automated(o, old, ctx)[n] = Default(n)
      BY <2>2, <2>5 DEF FromGpc, WithoutSource
    <3> QED
      BY <1>2, <2>5, <3>1 DEF Default
  <2> QED
    BY <1>2, <2>3, <2>4, <2>5
<1> QED
  BY <1>1, <1>2

\* Init ends with an experience: the banner is up, and refusals are shown.
LEMMA FinishAsks ==
    ASSUME TypeOK, NEW p \in Pages,
           Finish(p, cookie[p], FinalPreferences(p, cookie[p], prefs[p])),
           visit' = visit, reverted' = reverted, cookie[p].na = {}, Offered(p).notices # {},
           NoticeOnlyUnnamed => \/ cookie[p].method = "gpc"
                                \/ \A n \in Offered(p).notices : saved[p][n] = "unset",
           ~reverted => \A n \in Offered(p).notices :
             Flagged(n) /\ visit[p].context.gpc /\ visit[p].context.string[n] = "unset"
               => /\ cookie[p].consent[n] = "out"
                  /\ visit[p].prefetched => prefs[p][n] = "out"
    PROVE  ShowsBanner(p)' /\ ShowsRefusals(p)'
<1> DEFINE o    == Offered(p)
           pf   == FinalPreferences(p, cookie[p], prefs[p])
           next == CookieFromExperience(cookie[p], o, pf)
<1>1. o \in Offer /\ cookie[p] \in Cookie /\ prefs[p] \in Consents /\ pf \in Consents
  BY FinalTypes DEF TypeOK, Visit, Offered
<1>2. next.method = cookie[p].method
  BY <1>1 DEF CookieFromExperience, Cookie
<1>3. /\ banner'[p] = ShouldResurfaceBanner(o, next.method, saved[p])
      /\ shown'[p] = Shown(next, o.nonApplicable)
  BY DEF Finish, TypeOK
<1>4. ShowsBanner(p)'
  BY <1>2, <1>3 DEF ShowsBanner, ShouldResurfaceBanner
<1>5. ASSUME NEW n \in o.notices, cookie[p].consent[n] = "out",
             visit[p].prefetched => prefs[p][n] = "out"
      PROVE  shown'[p][n] = "out"
  <2>1. pf[n] = "out"
    BY <1>1, <1>5, RefusalsAreShown DEF FinalPreferences
  <2> QED
    BY <1>1, <1>3, <1>5, <2>1, RefusalsAreShown
<1>6. ShowsRefusals(p)'
  BY <1>5 DEF ShowsRefusals, Offered
<1> QED
  BY <1>4, <1>6

LEMMA ApplyAsks ==
    ASSUME TypeOK, AskInv, Silent, Silent', NEW p \in Pages, Reading(p), ApplyExperience(p),
           visit' = visit, saved' = saved
    PROVE  JarIsUnsaid' /\ \A q \in Pages : Asks(q)'
<1> DEFINE o       == Offered(p)
           ctx     == visit[p].context
           consent == Automated(o, saved[p], ctx)
           c       == [cookie[p] EXCEPT !.consent = consent,
                                        !.method = AutomatedMethod(o, ctx)]
<1>1. /\ o \in Offer /\ ctx \in Context /\ saved[p] \in Consents /\ cookie[p] \in Cookie
      /\ calls \in [Pages -> [Slots -> Work]]
  BY DEF TypeOK, Visit, Offered
<1>2. o.notices # {} /\ o.notices \subseteq Notices
  BY <1>1 DEF ApplyExperience, Offer
<1>3. JarIsUnsaid /\ \A q \in Pages : Asks(q)
  BY DEF AskInv
<1>4. CASE Applied(o, saved[p], ctx)
  <2>1. /\ prefs' = [prefs EXCEPT ![p] = consent] /\ cookie' = [cookie EXCEPT ![p] = c]
        /\ auto' = [NotAlone(auto) EXCEPT ![p] =
                     [Idle EXCEPT !.stage = "encoding", !.cookie = c,
                                  !.kind = "automated", !.alone = AllSettled]]
        /\ calls' = Detached(p, OthersNotAlone)
        /\ reverted' = (reverted \/ \E n \in o.notices :
                          /\ saved[p][n] = "out" /\ consent[n] = "in"
                          /\ ~FromString(n, ctx) /\ ~NoticeOnly(n))
        /\ spoken' = spoken \cup {c.method}
        /\ UNCHANGED <<jar, writer>> \/ Write(p, c)
        /\ pc' = [pc EXCEPT ![p] = "saving"] /\ UNCHANGED <<shown, banner, clean, doubt>>
    BY <1>4 DEF ApplyExperience
  <2>2. /\ c.method = AutomatedMethod(o, ctx) /\ c.consent = consent /\ c.na = {}
        /\ AutomatedMethod(o, ctx) = "gpc"
    BY <1>1, <2>1 DEF Cookie, Reading, Silent
  <2>3. ASSUME ~reverted', NEW n \in Notices, Flagged(n)
        PROVE  consent[n] = IF n \in o.notices THEN "out" ELSE "unset"
    <3>1. ASSUME n \in o.notices PROVE saved[p][n] # "in"
      <4>1. CASE cookie[p].method = "gpc" /\ NotGranted(saved[p])
        BY <2>3, <4>1 DEF NotGranted
      <4>2. CASE saved[p] = ctx.migrated
        BY <1>4, <2>2, <2>3, <3>1, <4>2, OnlyTheSignal DEF FromMigration, Flagged
      <4> QED
        BY <2>1, <2>3, <4>1, <4>2 DEF Reading
    <3>2. n \in o.notices => ~(saved[p][n] = "out" /\ consent[n] = "in")
      BY <1>4, <2>1, <2>2, <2>3, OnlyTheSignal DEF Flagged
    <3> QED
      BY <1>1, <1>4, <2>2, <2>3, <3>1, <3>2, SignalRefuses
  <2> HIDE DEF c, consent, ctx, o
  <2>4. \A q \in Pages, s \in Slots : calls'[q][s].stage = calls[q][s].stage
    <3>1. OthersNotAlone \in [Pages -> [Slots -> Work]]
      BY <1>1, WorksTypes
    <3> QED
      BY <1>1, <2>1, <3>1, WorksKept
  <2>5. /\ auto'[p].cookie = c /\ auto'[p].stage = "encoding"
        /\ \A q \in Pages : q # p => /\ auto'[q].cookie = auto[q].cookie
                                     /\ auto'[q].stage = auto[q].stage
    <3>1. NotAlone(auto) \in [Pages -> Work]
      BY <1>1, WorksTypes
    <3>2. \A q \in Pages : /\ NotAlone(auto)[q].cookie = auto[q].cookie
                           /\ NotAlone(auto)[q].stage = auto[q].stage
      BY DEF TypeOK, NotAlone, Work
    <3>3. \A x : \A y : LET w == [Idle EXCEPT !.stage = "encoding", !.cookie = x,
                                      !.kind = "automated", !.alone = y]
                        IN  w.cookie = x /\ w.stage = "encoding"
      BY DEF Idle
    <3> QED
      BY <2>1, <3>1, <3>2, <3>3
  <2>6. ASSUME NEW q \in Pages, q # p PROVE Asks(q)'
    <3>1. /\ cookie'[q] = cookie[q] /\ prefs'[q] = prefs[q] /\ shown'[q] = shown[q]
          /\ pc'[q] = pc[q] /\ banner'[q] = banner[q] /\ (reverted => reverted')
      BY <2>1, <2>6 DEF TypeOK
    <3> QED
      BY <1>3, <2>4, <2>5, <2>6, <3>1, AsksElsewhere
  <2>7. Asks(p)'
    <3>1. /\ cookie'[p] = c /\ prefs'[p] = consent /\ pc'[p] = "saving" /\ Offered(p)' = o
      BY <2>1 DEF TypeOK, Offered, o
    <3>2. Saving(p)'
      BY <1>2, <2>2, <2>3, <2>5, <3>1 DEF Saving
    <3> QED
      BY <1>3, <2>4, <3>1, <3>2 DEF Asks
  <2>8. JarIsUnsaid'
    <3>1. CASE UNCHANGED <<jar, writer>>
      BY <1>3, <2>1, <3>1 DEF JarIsUnsaid, NotGranted
    <3>2. CASE Write(p, c)
      BY <2>2, <2>3, <3>2 DEF JarIsUnsaid, NotGranted, Write
    <3> QED
      BY <2>1, <3>1, <3>2
  <2> QED
    BY <2>6, <2>7, <2>8
<1>5. CASE ~Applied(o, saved[p], ctx)
  <2>1. /\ Finish(p, cookie[p], FinalPreferences(p, cookie[p], prefs[p]))
        /\ UNCHANGED <<jar, auto, history, doubt>>
    BY <1>5 DEF ApplyExperience
  <2>2. NoticeOnlyUnnamed => \/ cookie[p].method = "gpc"
                             \/ \A n \in o.notices : saved[p][n] = "unset"
    BY <1>2, <1>5 DEF Reading, NoticeOnlyUnnamed, Applied, FromMigration
  <2>3. ASSUME ~reverted, NEW n \in o.notices, Flagged(n), ctx.gpc
        PROVE  /\ cookie[p].consent[n] = "out"
               /\ visit[p].prefetched => prefs[p][n] = "out"
    <3>1. ~FromMigration(n, ctx) /\ ~FromGpc(n, ctx, saved[p])
      BY <1>5 DEF Applied
    <3>2. saved[p][n] # "unset" /\ ctx.migrated[n] = "unset"
      BY <2>3, <3>1 DEF FromMigration, FromGpc, Flagged
    <3>3. /\ cookie[p].na = {} /\ cookie[p].consent = saved[p] /\ NotGranted(saved[p])
          /\ visit[p].prefetched => prefs[p] = PreferencesFrom(o, cookie[p])
      BY <2>3, <3>2 DEF Reading
    <3>4. saved[p][n] = "out"
      BY <1>1, <1>2, <2>3, <3>2, <3>3 DEF NotGranted, Consents, Choice
    <3>5. prefs[p] \in Consents
      BY DEF TypeOK
    <3> QED
      BY <1>1, <3>3, <3>4, <3>5, RefusalsAreShown
  <2>4. reverted' = reverted /\ cookie[p].na = {}
    BY <2>1 DEF history, Reading
  <2>5. ShowsBanner(p)' /\ ShowsRefusals(p)'
    BY <1>2, <2>1, <2>2, <2>3, <2>4, FinishAsks
  <2> HIDE DEF ctx, o
  <2>6. \A q \in Pages, s \in Slots : calls'[q][s].stage = calls[q][s].stage
    BY <1>1, <2>1, WorksKept DEF Finish
  <2>7. Asks(p)'
    <3>1. pc'[p] = "ready"
      BY <2>1 DEF Finish, TypeOK
    <3> QED
      BY <1>3, <2>5, <2>6, <3>1 DEF Asks
  <2>8. ASSUME NEW q \in Pages, q # p PROVE Asks(q)'
    <3>1. /\ cookie'[q] = cookie[q] /\ prefs'[q] = prefs[q] /\ shown'[q] = shown[q]
          /\ pc'[q] = pc[q] /\ banner'[q] = banner[q]
      BY <2>1, <2>8 DEF Finish, TypeOK
    <3> QED
      BY <1>3, <2>1, <2>4, <2>6, <2>8, <3>1, AsksElsewhere
  <2>9. JarIsUnsaid'
    BY <1>3, <2>1, <2>4 DEF JarIsUnsaid, NotGranted
  <2> QED
    BY <2>7, <2>8, <2>9
<1> QED
  BY <1>4, <1>5

LEMMA InitStepAsks ==
    ASSUME TypeOK, AskInv, Silent, Silent', NEW p \in Pages, InitStep(p)
    PROVE  JarIsUnsaid' /\ \A q \in Pages : Asks(q)'
<1>1. /\ JarIsUnsaid /\ \A q \in Pages : Asks(q)
      /\ calls \in [Pages -> [Slots -> Work]]
  BY DEF AskInv, TypeOK
<1>2. ASSUME pc[p] \in {"locating", "fetching"}, ApplyExperience(p),
             UNCHANGED <<server, visit, saved, entries>>
      PROVE  JarIsUnsaid' /\ \A q \in Pages : Asks(q)'
  BY <1>1, <1>2, ApplyAsks DEF Asks
<1>3. ASSUME pc[p] \in {"locating", "fetching"}, UNCHANGED <<jar, visit, saved, banner>>,
             UNCHANGED <<cookie, prefs, auto, calls, reverted>>,
             \/ pc' = [pc EXCEPT ![p] = "fetching"] /\ shown' = shown
             \/ pc' = [pc EXCEPT ![p] = "failed"] /\ shown' = shown
             \/ pc' = [pc EXCEPT ![p] = "bare"]
                /\ shown' = [shown EXCEPT ![p] = Shown(cookie[p], NonApplicable(p))]
      PROVE  JarIsUnsaid' /\ \A q \in Pages : Asks(q)'
  <2>1. JarIsUnsaid'
    BY <1>1, <1>3 DEF JarIsUnsaid, NotGranted
  <2>2. ASSUME NEW q \in Pages, q # p PROVE Asks(q)'
    <3>1. pc'[q] = pc[q] /\ shown'[q] = shown[q]
      BY <1>3, <2>2 DEF TypeOK
    <3> QED
      BY <1>1, <1>3, <2>2, <3>1, AsksElsewhere
  <2>3. Asks(p)'
    <3>1. pc'[p] \in {"fetching", "failed", "bare"}
      BY <1>3 DEF TypeOK
    <3>2. Reading(p)'
      BY <1>1, <1>3 DEF Asks, Reading, Offered
    <3> QED
      BY <1>1, <1>3, <3>1, <3>2 DEF Asks
  <2> QED
    BY <2>1, <2>2, <2>3
<1>4. ASSUME Locate(p) PROVE JarIsUnsaid' /\ \A q \in Pages : Asks(q)'
  BY <1>2, <1>3, <1>4 DEF Locate, EndBare, history
<1>5. ASSUME FetchExperience(p) PROVE JarIsUnsaid' /\ \A q \in Pages : Asks(q)'
  BY <1>2, <1>3, <1>5 DEF FetchExperience, EndBare, history
<1>6. ASSUME FinishInitialize(p) PROVE JarIsUnsaid' /\ \A q \in Pages : Asks(q)'
  <2>1. /\ Finish(p, cookie[p], FinalPreferences(p, cookie[p], prefs[p]))
        /\ UNCHANGED <<jar, writer>> \/ Write(p, auto[p].cookie)
        /\ auto' = [auto EXCEPT ![p].stage = "patching"]
        /\ UNCHANGED <<visit, saved, reverted>>
    BY <1>6 DEF FinishInitialize
  <2>2. Saving(p)
    BY <1>1, <1>6 DEF FinishInitialize, Asks
  <2>3. /\ Offered(p) \in Offer /\ Offered(p).notices \subseteq Notices
    BY DEF TypeOK, Visit, Offered, Offer
  <2>4. ASSUME ~reverted, NEW n \in Offered(p).notices, Flagged(n)
        PROVE  cookie[p].consent[n] = "out" /\ prefs[p][n] = "out"
    BY <2>2, <2>3, <2>4 DEF Saving
  <2>5. ShowsBanner(p)' /\ ShowsRefusals(p)'
    BY <2>1, <2>2, <2>4, FinishAsks DEF Saving
  <2>6. /\ \A q \in Pages, s \in Slots : calls'[q][s].stage = calls[q][s].stage
        /\ \A q \in Pages : q # p => auto'[q] = auto[q]
    <3>1. \A q \in Pages, s \in Slots : calls'[q][s].stage = calls[q][s].stage
      BY <1>1, <2>1, WorksKept DEF Finish
    <3>2. \A q \in Pages : q # p => auto'[q] = auto[q]
      BY <2>1 DEF TypeOK
    <3> QED
      BY <3>1, <3>2
  <2>7. Asks(p)'
    <3>1. pc'[p] = "ready"
      BY <2>1 DEF Finish, TypeOK
    <3> QED
      BY <1>1, <2>5, <2>6, <3>1 DEF Asks
  <2>8. ASSUME NEW q \in Pages, q # p PROVE Asks(q)'
    <3>1. /\ cookie'[q] = cookie[q] /\ prefs'[q] = prefs[q] /\ shown'[q] = shown[q]
          /\ pc'[q] = pc[q] /\ banner'[q] = banner[q]
      BY <2>1, <2>8 DEF Finish, TypeOK
    <3> QED
      BY <1>1, <2>1, <2>6, <2>8, <3>1, AsksElsewhere
  <2>9. JarIsUnsaid'
    <3>1. CASE UNCHANGED <<jar, writer>>
      BY <1>1, <2>1, <3>1 DEF JarIsUnsaid, NotGranted
    <3>2. CASE Write(p, auto[p].cookie)
      BY <2>1, <2>2, <3>2 DEF JarIsUnsaid, NotGranted, Write, Saving
    <3> QED
      BY <2>1, <3>1, <3>2
  <2> QED
    BY <2>7, <2>8, <2>9
<1> QED
  BY <1>4, <1>5, <1>6 DEF InitStep

\* While nobody has spoken there is no call to go on, and none begins.
LEMMA NoCallAsks ==
    ASSUME TypeOK, AskInv, Silent, NEW p \in Pages, NEW s \in Slots,
           \/ UserSaves(p, s) \/ UserDismisses(p, s) \/ ScriptCalls(p, s) \/ SetIdentity(p, s)
           \/ UpdateConsentPreferences(p, s) \/ CookieEncoded(p, s) \/ PatchAnswered(p, s)
    PROVE  ~Silent'
<1>1. calls[p][s].stage = "idle"
  BY DEF AskInv, Asks
<1>2. "choice" # "gpc" /\ "dismiss" # "gpc" /\ "script" # "gpc" /\ "identity" # "gpc"
  OBVIOUS
<1> QED
  BY <1>1, <1>2 DEF UserSaves, UserDismisses, SavesAll, ScriptCalls, UpdateConsent, SetIdentity,
     UpdateConsentPreferences, CookieEncoded, PatchAnswered, Silent

\* Nobody who has spoken is forgotten.
LEMMA SpokenGrows == [Next]_vars => spoken \subseteq spoken'
<1> SUFFICES ASSUME [Next]_vars PROVE spoken \subseteq spoken'
  OBVIOUS
<1>1. CASE UNCHANGED vars
  BY <1>1 DEF vars, history
<1>2. ASSUME NEW p \in Pages, LoadPage(p) \/ Reinitialize(p) PROVE spoken \subseteq spoken'
  BY <1>2 DEF LoadPage, Reinitialize, BeginInit
<1>3. ASSUME NEW p \in Pages, InitStep(p) PROVE spoken \subseteq spoken'
  <2>1. ApplyExperience(p) \/ EndBare(p) => spoken \subseteq spoken'
    BY DEF ApplyExperience, EndBare, history
  <2> QED
    BY <1>3, <2>1 DEF InitStep, Locate, FetchExperience, FinishInitialize, history
<1>4. ASSUME NEW p \in Pages, NEW s \in Slots,
             UserSaves(p, s) \/ UserDismisses(p, s) \/ ScriptCalls(p, s) \/ SetIdentity(p, s)
      PROVE  spoken \subseteq spoken'
  BY <1>4 DEF UserSaves, UserDismisses, SavesAll, ScriptCalls, UpdateConsent, SetIdentity
<1>5. ASSUME NEW p \in Pages, CallStep(p) PROVE spoken \subseteq spoken'
  BY <1>5 DEF CallStep, UpdateConsentPreferences, CookieEncoded, PatchAnswered,
     AutomatedAnswered, history
<1>6. ASSUME NEW p \in Pages, ClosePage(p) PROVE spoken \subseteq spoken'
  BY <1>6 DEF ClosePage, history
<1> QED
  BY <1>1, <1>2, <1>3, <1>4, <1>5, <1>6 DEF Next

LEMMA NextAsks == TypeOK /\ AskInv /\ [Next]_vars => AskInv'
<1> SUFFICES ASSUME TypeOK, AskInv, [Next]_vars, Silent'
             PROVE  JarIsUnsaid' /\ \A q \in Pages : Asks(q)'
  BY DEF AskInv
<1>1. Silent
  <2>1. spoken \subseteq spoken'
    BY SpokenGrows
  <2> QED
    BY <2>1 DEF Silent
<1>2. JarIsUnsaid /\ \A q \in Pages : Asks(q)
  BY <1>1 DEF AskInv
<1>3. CASE UNCHANGED vars
  <2>1. \A q \in Pages : Asks(q)'
    BY <1>2, <1>3, AsksElsewhere DEF vars, pageVars, history
  <2> QED
    BY <1>2, <1>3, <2>1 DEF JarIsUnsaid, NotGranted, vars, history
<1>4. ASSUME NEW p \in Pages, LoadPage(p)
      PROVE  JarIsUnsaid' /\ \A q \in Pages : Asks(q)'
  <2>1. PICK o \in Offers, prefetched \in BOOLEAN, gpc \in BOOLEAN,
             string \in Strings, migrated \in Migrations :
               BeginInit(p, o, prefetched, gpc, string, migrated)
    BY <1>4 DEF LoadPage
  <2>2. o \in Offer
    BY ConstantsAssumption
  <2> QED
    BY <1>1, <2>1, <2>2, BeginAsks
<1>5. ASSUME NEW p \in Pages, Reinitialize(p)
      PROVE  JarIsUnsaid' /\ \A q \in Pages : Asks(q)'
  <2>1. PICK string \in Strings, migrated \in Migrations :
               BeginInit(p, Offered(p), visit[p].prefetched, visit[p].context.gpc,
                         string, migrated)
    BY <1>5 DEF Reinitialize
  <2>2. /\ Offered(p) \in Offer /\ visit[p].prefetched \in BOOLEAN
        /\ visit[p].context.gpc \in BOOLEAN
    BY DEF TypeOK, Visit, Context, Offered
  <2> QED
    BY <1>1, <2>1, <2>2, BeginAsks
<1>6. ASSUME NEW p \in Pages, AutomatedAnswered(p)
      PROVE  JarIsUnsaid' /\ \A q \in Pages : Asks(q)'
  <2>1. /\ auto[p].stage = "patching" /\ auto' = [auto EXCEPT ![p] = Idle]
        /\ UNCHANGED <<jar, pageVars, calls, history>>
    BY <1>6 DEF AutomatedAnswered
  <2>2. JarIsUnsaid'
    BY <1>2, <2>1 DEF JarIsUnsaid, NotGranted, history
  <2>3. ASSUME NEW q \in Pages, q # p PROVE Asks(q)'
    BY <1>2, <2>1, <2>3, AsksElsewhere DEF TypeOK, pageVars, history
  <2>4. Asks(p)'
    <3>1. pc[p] # "saving"
      BY <1>2, <2>1 DEF Asks, Saving
    <3>2. Reading(p) => Reading(p)'
      BY <2>1 DEF Reading, Offered, pageVars, history
    <3>3. ShowsBanner(p) /\ ShowsRefusals(p) => ShowsBanner(p)' /\ ShowsRefusals(p)'
      BY <2>1 DEF ShowsBanner, ShowsRefusals, Offered, pageVars, history
    <3> QED
      BY <1>2, <2>1, <3>1, <3>2, <3>3 DEF Asks, pageVars
  <2> QED
    BY <2>2, <2>3, <2>4
<1>7. ASSUME NEW p \in Pages, ClosePage(p)
      PROVE  JarIsUnsaid' /\ \A q \in Pages : Asks(q)'
  <2>1. JarIsUnsaid'
    BY <1>2, <1>7 DEF ClosePage, JarIsUnsaid, NotGranted, history
  <2>2. ASSUME NEW q \in Pages, q # p PROVE Asks(q)'
    BY <1>2, <1>7, <2>2, AsksElsewhere DEF ClosePage, TypeOK, history
  <2>3. Asks(p)'
    <3>1. pc'[p] = "closed" /\ \A s \in Slots : calls'[p][s] = Idle
      BY <1>7 DEF ClosePage, TypeOK
    <3> QED
      BY <3>1 DEF Asks, Idle
  <2> QED
    BY <2>1, <2>2, <2>3
<1> QED
  BY <1>1, <1>3, <1>4, <1>5, <1>6, <1>7, InitStepAsks, NoCallAsks DEF Next, CallStep

LEMMA AskInvHolds == Spec => [](TypeOK /\ AskInv)
<1>1. Init => TypeOK /\ AskInv
  BY InitTypes, InitAsks
<1>2. (TypeOK /\ AskInv) /\ [Next]_vars => (TypeOK /\ AskInv)'
  BY NextTypes, NextAsks
<1> QED
  BY <1>1, <1>2, PTL DEF Spec

\* A visitor who has decided nothing is asked, on every page that becomes
\* ready, whatever earlier visits with the browser's signal have filled the
\* cookie with: if other providers' cookies leave notice-only notices unnamed
\* (a site with nothing else would take such a cookie for a decision).
THEOREM UndecidedIsAskedHolds ==
    ASSUME NoticeOnlyUnnamed
    PROVE  Spec => []UndecidedIsAsked
<1>1. AskInv => UndecidedIsAsked
  BY DEF AskInv, Silent, Asks, ShowsBanner, UndecidedIsAsked
<1> QED
  BY <1>1, AskInvHolds, PTL

\* The signal of the browser is honoured on every visit until someone decides,
\* unless a saved refusal has given way to a default: for any notices, offers,
\* tabs and order of their steps.
THEOREM GpcHonouredHolds == Spec => []GpcHonoured
<1>1. TypeOK /\ AskInv => GpcHonoured
  BY DEF AskInv, Silent, Asks, ShowsRefusals, Flagged, GpcHonoured
<1> QED
  BY <1>1, AskInvHolds, PTL

----------------------------------------------------------------------------
(* A refusal survives the visit.  What init read is what the cookie has    *)
(* (AgreeInv), and what automated consent makes of it while it is saved    *)
(* still has every refusal that nothing took back.                         *)

RefusalKept(p) ==
    pc[p] = "saving" /\ clean[p] /\ ~reverted =>
        \A n \in Offered(p).notices :
            saved[p][n] = "out" /\ ~NoticeOnly(n) /\ visit[p].context.string[n] = "unset"
              => prefs[p][n] = "out"

RefusalInv == \A p \in Pages : RefusalKept(p)

LEMMA RefusalElsewhere ==
    ASSUME NEW q \in Pages, RefusalKept(q),
           pc'[q] = pc[q], visit'[q] = visit[q], prefs'[q] = prefs[q], saved'[q] = saved[q],
           clean'[q] => clean[q], reverted => reverted'
    PROVE  RefusalKept(q)'
  BY DEF RefusalKept, Offered

LEMMA ApplyRefuses ==
    ASSUME TypeOK, AgreeInv, RefusalInv, NEW p \in Pages, ApplyExperience(p),
           pc[p] \in {"locating", "fetching"}, UNCHANGED <<visit, saved>>
    PROVE  RefusalInv'
<1> DEFINE o       == Offered(p)
           ctx     == visit[p].context
           consent == Automated(o, saved[p], ctx)
<1>1. CASE Applied(o, saved[p], ctx)
  <2>1. /\ o \in Offer /\ ctx \in Context /\ saved[p] \in Consents
    BY DEF TypeOK, Visit, Offered
  <2>2. Whole(consent, o)
    BY <2>1, AutomatedWhole
  <2>3. /\ prefs' = [prefs EXCEPT ![p] = consent] /\ pc' = [pc EXCEPT ![p] = "saving"]
        /\ clean' = clean
        /\ reverted' = (reverted \/ \E n \in o.notices :
                          /\ saved[p][n] = "out" /\ consent[n] = "in"
                          /\ ~FromString(n, ctx) /\ ~NoticeOnly(n))
    BY <1>1 DEF ApplyExperience
  <2> HIDE DEF consent, ctx, o
  <2>4. ASSUME NEW q \in Pages, q # p PROVE RefusalKept(q)'
    <3>1. pc'[q] = pc[q] /\ prefs'[q] = prefs[q]
      BY <2>3, <2>4 DEF TypeOK
    <3> QED
      BY <2>3, <3>1, RefusalElsewhere DEF RefusalInv
  <2>5. ASSUME clean[p], ~reverted', NEW n \in o.notices,
               saved[p][n] = "out", ~NoticeOnly(n), ctx.string[n] = "unset"
        PROVE  consent[n] = "out"
    <3>1. n \in Notices
      BY <2>1 DEF Offer
    <3>3. ~FromString(n, ctx)
      BY <2>5 DEF FromString
    <3>4. consent[n] \in Choice
      BY <2>2, <3>1 DEF Whole
    <3> QED
      BY <2>3, <2>5, <3>3, <3>4 DEF Choice
  <2>6. RefusalKept(p)'
    <3>1. prefs'[p] = consent /\ Offered(p)' = o
      BY <2>3 DEF TypeOK, Offered, o
    <3> QED
      BY <2>3, <2>5, <3>1 DEF RefusalKept, ctx
  <2> QED
    BY <2>4, <2>6 DEF RefusalInv
<1>2. CASE ~Applied(o, saved[p], ctx)
  <2>1. /\ Finish(p, cookie[p], FinalPreferences(p, cookie[p], prefs[p]))
        /\ UNCHANGED <<clean, reverted>>
    BY <1>2 DEF ApplyExperience, history
  <2>2. ASSUME NEW q \in Pages PROVE RefusalKept(q)'
    <3>1. CASE q = p
      BY <2>1, <3>1 DEF Finish, TypeOK, RefusalKept
    <3>2. CASE q # p
      BY <2>1, <3>2, RefusalElsewhere DEF Finish, TypeOK, RefusalInv
    <3> QED
      BY <3>1, <3>2
  <2> QED
    BY <2>2 DEF RefusalInv
<1> QED
  BY <1>1, <1>2

LEMMA InitStepRefuses ==
    ASSUME TypeOK, AgreeInv, RefusalInv, NEW p \in Pages, InitStep(p)
    PROVE  RefusalInv'
<1>1. CASE /\ pc'[p] # "saving" /\ UNCHANGED <<visit, saved, clean, reverted>>
           /\ \A q \in Pages : q # p => pc'[q] = pc[q] /\ prefs'[q] = prefs[q]
  <2>1. RefusalKept(p)'
    BY <1>1 DEF RefusalKept
  <2>2. ASSUME NEW q \in Pages, q # p PROVE RefusalKept(q)'
    BY <1>1, <2>2, RefusalElsewhere DEF RefusalInv
  <2> QED
    BY <2>1, <2>2 DEF RefusalInv
<1>2. ASSUME Locate(p) \/ FetchExperience(p) PROVE RefusalInv'
  <2>1. CASE ApplyExperience(p)
    BY <1>2, <2>1, ApplyRefuses DEF Locate, FetchExperience
  <2>2. CASE EndBare(p)
    BY <1>1, <1>2, <2>2 DEF Locate, FetchExperience, EndBare, TypeOK, history
  <2>3. CASE /\ \/ pc' = [pc EXCEPT ![p] = "fetching"]
                \/ pc' = [pc EXCEPT ![p] = "failed"]
             /\ UNCHANGED <<visit, saved, prefs, clean, reverted>>
    BY <1>1, <2>3 DEF TypeOK
  <2> QED
    BY <1>2, <2>1, <2>2, <2>3 DEF Locate, FetchExperience, history
<1>3. ASSUME FinishInitialize(p) PROVE RefusalInv'
  BY <1>1, <1>3 DEF FinishInitialize, Finish, TypeOK
<1> QED
  BY <1>2, <1>3 DEF InitStep

LEMMA NextRefuses ==
    TypeOK /\ AgreeInv /\ RefusalInv /\ [Next]_vars => RefusalInv'
<1> SUFFICES ASSUME TypeOK, AgreeInv, RefusalInv, [Next]_vars
             PROVE  RefusalInv'
  OBVIOUS
<1>1. CASE UNCHANGED vars
  BY <1>1, RefusalElsewhere DEF vars, pageVars, history, RefusalInv
<1>2. ASSUME NEW p \in Pages, LoadPage(p) \/ Reinitialize(p) \/ ClosePage(p)
      PROVE  RefusalInv'
  <2>1. /\ pc'[p] # "saving" /\ reverted' = reverted
        /\ \A q \in Pages : q # p =>
             /\ pc'[q] = pc[q] /\ visit'[q] = visit[q] /\ prefs'[q] = prefs[q]
             /\ saved'[q] = saved[q] /\ clean'[q] = clean[q]
    <3>1. CASE ClosePage(p)
      BY <3>1 DEF ClosePage, TypeOK, history
    <3>2. ASSUME NEW o, NEW prefetched, NEW gpc, NEW string, NEW migrated,
                 BeginInit(p, o, prefetched, gpc, string, migrated)
          PROVE  /\ pc'[p] = "locating" /\ reverted' = reverted
                 /\ \A q \in Pages : q # p =>
                      /\ pc'[q] = pc[q] /\ visit'[q] = visit[q] /\ prefs'[q] = prefs[q]
                      /\ saved'[q] = saved[q]
      BY <3>2 DEF BeginInit, TypeOK
    <3>3. LoadPage(p) \/ Reinitialize(p) => \A q \in Pages : q # p => clean'[q] = clean[q]
      BY DEF LoadPage, Reinitialize, TypeOK
    <3> QED
      BY <1>2, <3>1, <3>2, <3>3 DEF LoadPage, Reinitialize
  <2>2. ASSUME NEW q \in Pages PROVE RefusalKept(q)'
    BY <2>1, RefusalElsewhere DEF RefusalInv, RefusalKept
  <2> QED
    BY <2>2 DEF RefusalInv
<1>3. ASSUME NEW p \in Pages, NEW s \in Slots, NEW given, NEW method,
             UpdateConsent(p, s, given, method)
      PROVE  RefusalInv'
  BY <1>3, RefusalElsewhere DEF UpdateConsent, pageVars, RefusalInv
<1>4. ASSUME NEW p \in Pages, NEW s \in Slots, SetIdentity(p, s)
      PROVE  RefusalInv'
  BY <1>4, RefusalElsewhere DEF SetIdentity, pageVars, RefusalInv, TypeOK
<1>5. ASSUME NEW p \in Pages, NEW s \in Slots,
             UpdateConsentPreferences(p, s) \/ CookieEncoded(p, s)
      PROVE  RefusalInv'
  <2>1. /\ UNCHANGED <<pc, visit, prefs, reverted>>
        /\ \A q \in Pages : q # p => saved'[q] = saved[q] /\ clean'[q] = clean[q]
        /\ clean'[p] => pc[p] = "ready"
    <3>1. CASE UpdateConsentPreferences(p, s)
      BY <3>1 DEF UpdateConsentPreferences, TypeOK
    <3>2. CASE CookieEncoded(p, s)
      <4>1. calls[p][s].stage = "encoding" /\ clean' = clean
        BY <3>2 DEF CookieEncoded
      <4> QED
        BY <3>2, <4>1 DEF CookieEncoded, TypeOK, AgreeInv, PageAgrees, NothingCrossed,
           EncodesItsCookie
    <3> QED
      BY <1>5, <3>1, <3>2
  <2>2. RefusalKept(p)'
    BY <2>1 DEF RefusalKept
  <2>3. ASSUME NEW q \in Pages, q # p PROVE RefusalKept(q)'
    BY <2>1, <2>3, RefusalElsewhere DEF RefusalInv
  <2> QED
    BY <2>2, <2>3 DEF RefusalInv
<1>6. ASSUME NEW p \in Pages, NEW s \in Slots, PatchAnswered(p, s) PROVE RefusalInv'
  BY <1>6, RefusalElsewhere DEF PatchAnswered, pageVars, history, RefusalInv
<1>7. ASSUME NEW p \in Pages, NEW s \in Slots,
             UserSaves(p, s) \/ UserDismisses(p, s) \/ ScriptCalls(p, s)
      PROVE  RefusalInv'
  BY <1>3, <1>7, OverlaySavesMap DEF ScriptCalls
<1>8. ASSUME NEW p \in Pages, AutomatedAnswered(p) PROVE RefusalInv'
  BY <1>8, RefusalElsewhere DEF AutomatedAnswered, pageVars, history, RefusalInv
<1> QED
  BY <1>1, <1>2, <1>4, <1>5, <1>6, <1>7, <1>8, InitStepRefuses DEF Next, CallStep

\* What a page that becomes ready shows of a refusal its init read.
LEMMA FinishShowsRefusal ==
    ASSUME TypeOK, AgreeInv, RefusalInv, NEW p \in Pages,
           pc[p] \in {"locating", "fetching", "saving"}, clean[p], ~reverted, visit' = visit,
           Finish(p, cookie[p], FinalPreferences(p, cookie[p], prefs[p])),
           NEW n \in Offered(p).notices \ cookie[p].na,
           saved[p][n] = "out", ~NoticeOnly(n), visit[p].context.string[n] = "unset"
    PROVE  shown'[p][n] = "out"
<1> DEFINE o  == Offered(p)
           pf == FinalPreferences(p, cookie[p], prefs[p])
<1>1. /\ o \in Offer /\ cookie[p] \in Cookie /\ n \in Notices
  BY DEF TypeOK, Visit, Offered, Offer
<1>2. shown'[p] = StateOf(o, pf)
  BY FinalTypes, FinishCopies
<1>3. cookie[p].consent[n] = "out" /\ (visit[p].prefetched => prefs[p][n] = "out")
  <2>1. CASE pc[p] = "saving"
    BY <2>1 DEF AgreeInv, PageAgrees, NothingCrossed, SavesItsCookie, RefusalInv, RefusalKept
  <2>2. CASE pc[p] # "saving"
    <3>1. /\ cookie[p].consent = saved[p]
          /\ visit[p].prefetched => prefs[p] = PreferencesFrom(o, cookie[p])
      BY <2>2 DEF AgreeInv, PageAgrees, NothingCrossed, ReadsTheJar
    <3>2. PreferencesFrom(o, cookie[p])[n] = cookie[p].consent[n]
      BY <1>1 DEF PreferencesFrom, Only
    <3> QED
      BY <3>1, <3>2
  <2> QED
    BY <2>1, <2>2
<1>4. pf[n] = "out"
  <2>1. n \in Keys(cookie[p].consent)
    BY <1>1, <1>3 DEF Keys
  <2>2. PreferencesFrom(o, cookie[p])[n] = "out"
    BY <1>1, <1>3 DEF PreferencesFrom, Only
  <2> QED
    BY <1>3, <2>1, <2>2 DEF FinalPreferences, UpdatedPreferences
<1> HIDE DEF pf
<1> QED
  BY <1>1, <1>2, <1>4 DEF StateOf

LEMMA StepKeepsRefusals ==
    ASSUME TypeOK, AgreeInv, RefusalInv, [Next]_vars, NEW p \in Pages,
           pc[p] # "ready", pc'[p] = "ready", clean[p], ~reverted',
           NEW n \in Offered(p).notices \ cookie[p].na,
           saved[p][n] = "out", ~NoticeOnly(n), visit[p].context.string[n] = "unset"
    PROVE  shown'[p][n] = "out"
<1>1. InitStep(p)
  <2>1. ~UNCHANGED vars
    BY DEF vars, pageVars
  <2>2. ASSUME NEW q \in Pages, LoadPage(q) \/ Reinitialize(q) \/ ClosePage(q) PROVE FALSE
    BY ZenonT(60), <2>2 DEF LoadPage, Reinitialize, BeginInit, ClosePage, TypeOK
  <2>3. ASSUME NEW q \in Pages, NEW s \in Slots, NEW given, NEW method,
               UpdateConsent(q, s, given, method)
        PROVE  FALSE
    BY <2>3 DEF UpdateConsent, pageVars
  <2>4. ASSUME NEW q \in Pages, NEW s \in Slots,
               UserSaves(q, s) \/ UserDismisses(q, s) \/ ScriptCalls(q, s)
        PROVE  FALSE
    BY <2>3, <2>4, OverlaySavesMap DEF ScriptCalls
  <2>5. ASSUME NEW q \in Pages, NEW s \in Slots,
               \/ SetIdentity(q, s) \/ UpdateConsentPreferences(q, s)
               \/ CookieEncoded(q, s) \/ PatchAnswered(q, s)
        PROVE  FALSE
    BY <2>5 DEF SetIdentity, UpdateConsentPreferences, CookieEncoded, PatchAnswered, pageVars
  <2>6. ASSUME NEW q \in Pages, AutomatedAnswered(q) PROVE FALSE
    BY <2>6 DEF AutomatedAnswered, pageVars
  <2>7. ASSUME NEW q \in Pages, q # p, InitStep(q) PROVE FALSE
    BY <2>7 DEF InitStep, Locate, FetchExperience, FinishInitialize, ApplyExperience, EndBare,
       Finish, TypeOK
  <2> QED
    BY <2>1, <2>2, <2>4, <2>5, <2>6, <2>7 DEF Next, CallStep
<1>2. CASE FinishInitialize(p)
  BY <1>2, FinishShowsRefusal DEF FinishInitialize
<1>3. CASE Locate(p) \/ FetchExperience(p)
  <2>1. ApplyExperience(p) /\ visit' = visit /\ pc[p] \in {"locating", "fetching"}
    BY <1>3 DEF Locate, FetchExperience, EndBare, TypeOK
  <2>2. /\ Finish(p, cookie[p], FinalPreferences(p, cookie[p], prefs[p]))
        /\ reverted' = reverted
    BY <2>1 DEF ApplyExperience, history, TypeOK
  <2> QED
    BY <2>1, <2>2, FinishShowsRefusal
<1> QED
  BY <1>1, <1>2, <1>3 DEF InitStep

\* A refusal survives the visit: whatever a page's cookie refused when init
\* read it is shown as refused when the page is ready, unless a notice consent
\* string, an update that crossed the init or one of the known ways of losing
\* it says otherwise.
THEOREM RefusalSurvivesHolds == Spec => RefusalSurvives
<1>1. Init => TypeOK /\ AgreeInv /\ RefusalInv
  <2>1. Init => RefusalInv
    BY DEF Init, RefusalInv, RefusalKept
  <2> QED
    BY <2>1, InitTypes, InitAgrees
<1>2. /\ TypeOK /\ AgreeInv /\ RefusalInv
      /\ [Next]_vars
      => /\ TypeOK' /\ AgreeInv' /\ RefusalInv'
  BY NextTypes, NextAgrees, NextRefuses
<1>3. /\ TypeOK /\ AgreeInv /\ RefusalInv
      /\ [Next]_vars
      => [\A p \in Pages : pc[p] # "ready" /\ pc'[p] = "ready" /\ clean[p] /\ ~reverted' =>
            \A n \in Offered(p).notices \ cookie[p].na :
               saved[p][n] = "out" /\ ~NoticeOnly(n) /\ visit[p].context.string[n] = "unset"
                 => shown'[p][n] = "out"]_vars
  BY StepKeepsRefusals
<1> QED
  BY <1>1, <1>2, <1>3, PTL DEF Spec, RefusalSurvives

================================================================================
