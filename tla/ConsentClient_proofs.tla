-------------------------- MODULE ConsentClient_proofs --------------------------
(***************************************************************************)
(* ConsentClient, for any notices, pages, calls in progress and sources of *)
(* consent: its types, the agreement of the copies of the consent on a     *)
(* page and in the browser (AgreeInv), and that of the browser and the API *)
(* (AloneInv).                                                             *)
(***************************************************************************)
EXTENDS ConsentClient, TLAPS

----------------------------------------------------------------------------
(* What the functions of ConsentValues return.                             *)

LEMMA ConsentMaps ==
    ASSUME NEW c \in Consents, NEW d \in Consents, NEW S
    PROVE  Spread(c, d) \in Consents /\ Only(c, S) \in Consents /\ Nothing \in Consents
  BY DEF Spread, Only, Nothing, Consents, Choice

LEMMA CookieParts ==
    ASSUME NEW c \in Cookie
    PROVE  /\ c.consent \in Consents /\ c.na \subseteq Notices /\ c.method \in Methods
           /\ \A v \in Consents : [c EXCEPT !.consent = v] \in Cookie
  BY DEF Cookie

LEMMA AutomatedTypes ==
    ASSUME NEW o \in Offer, NEW old \in Consents, NEW ctx \in Context
    PROVE  /\ Automated(o, old, ctx) \in Consents
           /\ AutomatedMethod(o, ctx) \in Methods
<1>1. \A n \in Notices : AutomatedValue(n, old, ctx) \in Choice \cup {"unset"}
  BY DEF AutomatedValue, Consents, Choice, Context, FromMigration, FromString, FromGpc,
         WithoutSource, Default
<1>2. AutomatedMethod(o, ctx) \in Methods
  BY DEF AutomatedMethod, Methods
<1> QED
  BY <1>1, <1>2 DEF Automated, Consents

LEMMA PreferenceTypes ==
    ASSUME NEW o \in Offer, NEW c \in Cookie, NEW pf \in Consents
    PROVE  /\ PreferencesFrom(o, c) \in Consents
           /\ UpdatedPreferences(o, c, pf) \in Consents
           /\ StateOf(o, pf) \in Consents
           /\ CookieFromExperience(c, o, pf) \in Cookie
           /\ \A S : Shown(c, S) \in Consents
<1>1. PreferencesFrom(o, c) \in Consents /\ \A S : Shown(c, S) \in Consents
  BY CookieParts, ConsentMaps DEF PreferencesFrom, Shown
<1>2. UpdatedPreferences(o, c, pf) \in Consents
  BY <1>1 DEF UpdatedPreferences
<1>3. StateOf(o, pf) \in Consents
  BY DEF StateOf, Consents, Choice, Default
<1>4. CookieFromExperience(c, o, pf) \in Cookie
  BY <1>3 DEF CookieFromExperience, Cookie, Offer
<1> QED
  BY <1>1, <1>2, <1>3, <1>4

LEMMA NoticePreferenceTypes ==
    ASSUME NEW o \in Offer, NEW final \in Consents, NEW method \in Methods
    PROVE  CookieFromNoticePreferences(final, method, o) \in Cookie
  BY ConsentMaps DEF CookieFromNoticePreferences, Cookie, Offer

----------------------------------------------------------------------------
(* Work in progress.                                                       *)

LEMMA WorkTypes ==
    ASSUME NEW w \in Work
    PROVE  /\ w.cookie \in Cookie /\ w.held \in Consents
           /\ \A b \in BOOLEAN : [w EXCEPT !.alone = b] \in Work
           /\ \A st \in {"idle", "called", "encoding", "patching"} :
                [w EXCEPT !.stage = st] \in Work
           /\ \A v \in Consents : [w EXCEPT !.apart = TRUE, !.held = v] \in Work
  BY DEF Work

LEMMA NewWork ==
    /\ NewCookie \in Cookie
    /\ Idle \in Work
    /\ \A c \in Cookie, b \in BOOLEAN :
        /\ [Idle EXCEPT !.stage = "encoding", !.cookie = c,
                        !.kind = "automated", !.alone = b] \in Work
        /\ [Idle EXCEPT !.stage = "called", !.kind = "update",
                        !.alone = b, !.cookie = c] \in Work
        /\ [Idle EXCEPT !.stage = "encoding", !.kind = "identity",
                        !.cookie = c] \in Work
<1>1. NewCookie \in Cookie
  BY DEF NewCookie, Cookie, Nothing, Consents, Methods
<1>2. Idle \in Work
  BY <1>1 DEF Idle, Work, Nothing, Consents
<1> QED
  BY <1>1, <1>2 DEF Idle, Work

LEMMA SetCall ==
    ASSUME NEW works \in [Pages -> [Slots -> Work]], NEW p \in Pages, NEW s \in Slots,
           NEW w \in Work
    PROVE  [works EXCEPT ![p][s] = w] \in [Pages -> [Slots -> Work]]
<1>1. [works[p] EXCEPT ![s] = w] \in [Slots -> Work]
  OBVIOUS
<1> QED
  BY <1>1

LEMMA SetStage ==
    ASSUME NEW works \in [Pages -> [Slots -> Work]], NEW p \in Pages, NEW s \in Slots,
           NEW st \in {"idle", "called", "encoding", "patching"}
    PROVE  [works EXCEPT ![p][s].stage = st] \in [Pages -> [Slots -> Work]]
<1>1. [works[p][s] EXCEPT !.stage = st] \in Work
  BY WorkTypes
<1>2. [works EXCEPT ![p][s].stage = st]
        = [works EXCEPT ![p][s] = [works[p][s] EXCEPT !.stage = st]]
  OBVIOUS
<1> QED
  BY <1>1, <1>2, SetCall

LEMMA WorksTypes ==
    ASSUME TypeOK, NEW p \in Pages,
           NEW works \in [Pages -> [Slots -> Work]]
    PROVE  /\ OthersNotAlone \in [Pages -> [Slots -> Work]]
           /\ NotAlone(auto) \in [Pages -> Work]
           /\ Detached(p, works) \in [Pages -> [Slots -> Work]]
<1>1. \A w \in Work : [w EXCEPT !.alone = FALSE] \in Work
  BY WorkTypes
<1>2. OthersNotAlone \in [Pages -> [Slots -> Work]] /\ NotAlone(auto) \in [Pages -> Work]
  BY <1>1 DEF TypeOK, OthersNotAlone, NotAlone
<1>3. cookie[p].consent \in Consents
  BY CookieParts DEF TypeOK
<1>4. ASSUME NEW s \in Slots
      PROVE  [works[p][s] EXCEPT !.apart = TRUE, !.held = cookie[p].consent] \in Work
  BY <1>3, WorkTypes
<1>5. Detached(p, works) \in [Pages -> [Slots -> Work]]
  BY <1>4 DEF Detached
<1> QED
  BY <1>2, <1>5

\* Bookkeeping on works changes neither what they are nor how far they got.
SameWork(v, w) == v.stage = w.stage /\ v.cookie = w.cookie /\ v.kind = w.kind

LEMMA DetachedKept ==
    ASSUME TypeOK, NEW p \in Pages, NEW works \in [Pages -> [Slots -> Work]]
    PROVE  \A q \in Pages, s \in Slots :
              /\ SameWork(Detached(p, works)[q][s], works[q][s])
              /\ Detached(p, works)[q][s].alone = works[q][s].alone
<1> SUFFICES ASSUME NEW q \in Pages, NEW s \in Slots
             PROVE  /\ SameWork(Detached(p, works)[q][s], works[q][s])
                    /\ Detached(p, works)[q][s].alone = works[q][s].alone
  OBVIOUS
<1>1. CASE q = p
  <2> DEFINE w == [works[p][s] EXCEPT !.apart = TRUE, !.held = cookie[p].consent]
  <2>1. SameWork(w, works[p][s]) /\ w.alone = works[p][s].alone
    <3>1. works[p][s] \in Work
      OBVIOUS
    <3> QED
      BY <3>1 DEF Work, SameWork
  <2>2. Detached(p, works)[p][s] \in {works[p][s], w}
    BY DEF Detached
  <2> HIDE DEF w
  <2> QED
    BY <1>1, <2>1, <2>2 DEF SameWork
<1>2. CASE q # p
  BY <1>2 DEF Detached, SameWork
<1> QED
  BY <1>1, <1>2

\* The same for OthersNotAlone and NotAlone(auto) as a whole, which every action
\* that begins some work applies.
LEMMA NotAloneKept ==
    ASSUME TypeOK
    PROVE  /\ OthersNotAlone \in [Pages -> [Slots -> Work]] /\ NotAlone(auto) \in [Pages -> Work]
           /\ \A q \in Pages :
                SameWork(NotAlone(auto)[q], auto[q]) /\ NotAlone(auto)[q].alone = FALSE
           /\ \A q \in Pages, s \in Slots :
                SameWork(OthersNotAlone[q][s], calls[q][s]) /\ OthersNotAlone[q][s].alone = FALSE
<1>1. \A w \in Work : /\ [w EXCEPT !.alone = FALSE] \in Work
                      /\ SameWork([w EXCEPT !.alone = FALSE], w)
                      /\ [w EXCEPT !.alone = FALSE].alone = FALSE
  BY DEF Work, SameWork
<1>2. OthersNotAlone \in [Pages -> [Slots -> Work]] /\ NotAlone(auto) \in [Pages -> Work]
  BY <1>1 DEF TypeOK, OthersNotAlone, NotAlone
<1>3. ASSUME NEW q \in Pages
      PROVE  SameWork(NotAlone(auto)[q], auto[q]) /\ NotAlone(auto)[q].alone = FALSE
  BY <1>1 DEF TypeOK, NotAlone
<1>4. ASSUME NEW q \in Pages, NEW s \in Slots
      PROVE  SameWork(OthersNotAlone[q][s], calls[q][s]) /\ OthersNotAlone[q][s].alone = FALSE
  BY <1>1 DEF TypeOK, OthersNotAlone, NotAlone
<1> QED
  BY <1>2, <1>3, <1>4

----------------------------------------------------------------------------
(* Type correctness.                                                       *)

LEMMA InitTypes == Init => TypeOK
<1> SUFFICES ASSUME Init PROVE TypeOK
  OBVIOUS
<1>1. Nothing \in Consents /\ NewCookie \in Cookie /\ Idle \in Work
  BY NewWork DEF Nothing, Consents
<1>2. NoVisit \in Visit
  BY <1>1 DEF NoVisit, Visit, Offer, Context
<1>3. jar \in Jar /\ calls \in [Pages -> [Slots -> Work]] /\ auto \in [Pages -> Work]
  <2>1. [exists |-> FALSE, cookie |-> NewCookie] \in Jar
    BY <1>1 DEF Jar
  <2> QED
    BY <1>1, <2>1 DEF Init
<1>4. /\ server \in Consents /\ visit \in [Pages -> Visit] /\ cookie \in [Pages -> Cookie]
      /\ saved \in [Pages -> Consents] /\ prefs \in [Pages -> Consents]
      /\ shown \in [Pages -> Consents]
  BY <1>1, <1>2 DEF Init
<1>5. /\ pc \in [Pages -> {"closed", "locating", "fetching", "saving", "ready", "bare", "failed"}]
      /\ banner \in [Pages -> BOOLEAN] /\ clean \in [Pages -> BOOLEAN]
  BY DEF Init
<1>6. spoken \subseteq Methods \cup {"identity"} /\ writer \in Pages \cup {"nobody"}
  <2>1. spoken = {} /\ writer = "nobody"
    BY DEF Init
  <2> QED
    BY <2>1
<1>7. {doubt, reverted} \subseteq BOOLEAN
  BY Zenon DEF Init
<1>8. denied \subseteq Notices /\ {loads, updates, identities} \subseteq Nat
  <2>1. denied = {} /\ loads = 0 /\ updates = 0 /\ identities = 0
    BY DEF Init
  <2> QED
    BY <2>1
<1> QED
  BY <1>3, <1>4, <1>5, <1>6, <1>7, <1>8 DEF TypeOK

\* The sources of a visit are of their types.
LEMMA BeginTypes ==
    ASSUME TypeOK, NEW p \in Pages, NEW o \in Offer, NEW prefetched \in BOOLEAN,
           NEW gpc \in BOOLEAN, NEW string \in Strings, NEW migrated \in Migrations,
           BeginInit(p, o, prefetched, gpc, string, migrated),
           clean' \in [Pages -> BOOLEAN]
    PROVE  TypeOK'
<1> DEFINE from == IF jar.exists THEN Nothing ELSE migrated
           c    == [jar.cookie EXCEPT !.consent = Spread(@, from)]
<1>1. from \in Consents /\ Nothing \in Consents /\ string \in Consents
  BY ConstantsAssumption DEF Nothing, Consents
<1>2. jar.cookie \in Cookie /\ c \in Cookie /\ c.consent \in Consents
  <2>1. jar.cookie \in Cookie
    BY DEF TypeOK, Jar
  <2>2. Spread(jar.cookie.consent, from) \in Consents
    BY <1>1, <2>1, CookieParts, ConsentMaps
  <2> QED
    BY <2>1, <2>2, CookieParts
<1>3. PreferencesFrom(o, c) \in Consents
  BY <1>1, <1>2, PreferenceTypes
<1>4. [offer |-> o, prefetched |-> prefetched,
       context |-> [gpc |-> gpc, string |-> string, migrated |-> from]] \in Visit
  BY <1>1 DEF Visit, Context
<1>5. calls' \in [Pages -> [Slots -> Work]]
  BY WorksTypes DEF BeginInit, TypeOK
<1>6. /\ visit' \in [Pages -> Visit] /\ cookie' \in [Pages -> Cookie]
      /\ saved' \in [Pages -> Consents] /\ prefs' \in [Pages -> Consents]
      /\ shown' \in [Pages -> Consents]
  BY <1>1, <1>2, <1>3, <1>4 DEF BeginInit, TypeOK
<1> QED
  BY <1>5, <1>6 DEF BeginInit, TypeOK

LEMMA EndBareTypes ==
    ASSUME TypeOK, NEW p \in Pages, EndBare(p), UNCHANGED <<server, visit, saved, entries>>
    PROVE  TypeOK'
<1>1. cookie[p] \in Cookie /\ Nothing \in Consents
  BY DEF TypeOK, Nothing, Consents
<1>2. Shown(cookie[p], NonApplicable(p)) \in Consents
  BY <1>1, ConsentMaps, CookieParts DEF Shown
<1> QED
  BY <1>2 DEF EndBare, TypeOK, history, entries

\* The variables that the end of initialize assigns.
LEMMA FinishTypes ==
    ASSUME TypeOK, NEW p \in Pages, NEW c \in Cookie, NEW pf \in Consents, Finish(p, c, pf)
    PROVE  /\ cookie' \in [Pages -> Cookie] /\ prefs' \in [Pages -> Consents]
           /\ shown' \in [Pages -> Consents] /\ banner' \in [Pages -> BOOLEAN]
           /\ calls' \in [Pages -> [Slots -> Work]]
           /\ pc' = [pc EXCEPT ![p] = "ready"]
<1>1. Offered(p) \in Offer
  BY DEF TypeOK, Visit, Offered
<1>2. CookieFromExperience(c, Offered(p), pf) \in Cookie
  BY <1>1, PreferenceTypes
<1>3. Shown(CookieFromExperience(c, Offered(p), pf), Offered(p).nonApplicable) \in Consents
  BY <1>1, <1>2, PreferenceTypes
<1>4. calls' \in [Pages -> [Slots -> Work]]
  BY WorksTypes DEF Finish, TypeOK
<1>5. ShouldResurfaceBanner(Offered(p), CookieFromExperience(c, Offered(p), pf).method,
                            saved[p]) \in BOOLEAN
  BY DEF ShouldResurfaceBanner
<1> QED
  BY <1>2, <1>3, <1>4, <1>5 DEF Finish, TypeOK

LEMMA FinalTypes ==
    ASSUME TypeOK, NEW p \in Pages
    PROVE  FinalPreferences(p, cookie[p], prefs[p]) \in Consents
  BY PreferenceTypes DEF TypeOK, Visit, Offered, FinalPreferences

LEMMA ApplyTypes ==
    ASSUME TypeOK, NEW p \in Pages, ApplyExperience(p),
           UNCHANGED <<server, visit, saved, entries>>
    PROVE  TypeOK'
<1> DEFINE o       == Offered(p)
           ctx     == visit[p].context
           consent == Automated(o, saved[p], ctx)
           c       == [cookie[p] EXCEPT !.consent = consent,
                                        !.method = AutomatedMethod(o, ctx)]
<1>1. o \in Offer /\ ctx \in Context /\ saved[p] \in Consents /\ cookie[p] \in Cookie
      /\ prefs[p] \in Consents
  BY DEF TypeOK, Visit, Offered
<1>2. consent \in Consents /\ AutomatedMethod(o, ctx) \in Methods
  BY <1>1, AutomatedTypes
<1>3. c \in Cookie /\ c.method \in Methods
  BY <1>1, <1>2 DEF Cookie
<1>4. CASE Applied(o, saved[p], ctx)
  <2>1. AllSettled \in BOOLEAN
    BY DEF AllSettled, Settled
  <2>2. auto' \in [Pages -> Work]
    <3>1. [Idle EXCEPT !.stage = "encoding", !.cookie = c,
                       !.kind = "automated", !.alone = AllSettled] \in Work
      BY <1>3, <2>1, NewWork
    <3>2. NotAlone(auto) \in [Pages -> Work]
      BY WorksTypes DEF TypeOK
    <3>3. auto' = [NotAlone(auto) EXCEPT ![p] =
                    [Idle EXCEPT !.stage = "encoding", !.cookie = c,
                                 !.kind = "automated", !.alone = AllSettled]]
      BY <1>4 DEF ApplyExperience
    <3> HIDE DEF c
    <3> QED
      BY <3>1, <3>2, <3>3
  <2>3. calls' \in [Pages -> [Slots -> Work]]
    <3>1. OthersNotAlone \in [Pages -> [Slots -> Work]]
      BY WorksTypes DEF TypeOK
    <3>2. calls' = Detached(p, OthersNotAlone)
      BY <1>4 DEF ApplyExperience
    <3> QED
      BY <3>1, <3>2, WorksTypes
  <2>4. /\ cookie' = [cookie EXCEPT ![p] = c] /\ prefs' = [prefs EXCEPT ![p] = consent]
        /\ pc' = [pc EXCEPT ![p] = "saving"] /\ spoken' = spoken \cup {c.method}
        /\ reverted' \in BOOLEAN
        /\ UNCHANGED <<shown, banner, clean, doubt>>
        /\ UNCHANGED <<jar, writer>> \/ Write(p, c)
    BY <1>4 DEF ApplyExperience, TypeOK
  <2>5. jar' \in Jar /\ writer' \in Pages \cup {"nobody"}
    <3>1. [exists |-> TRUE, cookie |-> c] \in Jar
      BY <1>3 DEF Jar
    <3> HIDE DEF c
    <3> QED
      BY <2>4, <3>1 DEF Write, TypeOK
  <2> HIDE DEF c, consent, o, ctx
  <2> QED
    BY <1>2, <1>3, <2>2, <2>3, <2>4, <2>5 DEF TypeOK, entries
<1>5. CASE ~Applied(o, saved[p], ctx)
  <2>1. /\ Finish(p, cookie[p], FinalPreferences(p, cookie[p], prefs[p]))
        /\ UNCHANGED <<jar, auto, history, doubt>>
    BY <1>5 DEF ApplyExperience
  <2>2. FinalPreferences(p, cookie[p], prefs[p]) \in Consents
    BY FinalTypes
  <2> QED
    BY <1>1, <2>1, <2>2, FinishTypes DEF TypeOK, history, entries
<1> QED
  BY <1>4, <1>5

LEMMA InitStepTypes ==
    ASSUME TypeOK, NEW p \in Pages, InitStep(p)
    PROVE  TypeOK'
<1>1. ASSUME Locate(p) PROVE TypeOK'
  <2>1. CASE ApplyExperience(p)
    BY <1>1, <2>1, ApplyTypes DEF Locate
  <2>2. CASE EndBare(p)
    BY <1>1, <2>2, EndBareTypes DEF Locate
  <2>3. CASE /\ \/ pc' = [pc EXCEPT ![p] = "fetching"]
                \/ pc' = [pc EXCEPT ![p] = "failed"]
             /\ UNCHANGED <<jar, cookie, prefs, shown, banner, auto, calls, history, doubt>>
    BY <1>1, <2>3 DEF Locate, TypeOK, history, entries
  <2> QED
    BY <1>1, <2>1, <2>2, <2>3 DEF Locate
<1>2. ASSUME FetchExperience(p) PROVE TypeOK'
  BY <1>2, ApplyTypes, EndBareTypes DEF FetchExperience
<1>3. ASSUME FinishInitialize(p) PROVE TypeOK'
  <2>1. /\ cookie[p] \in Cookie /\ FinalPreferences(p, cookie[p], prefs[p]) \in Consents
        /\ auto[p] \in Work
    BY FinalTypes DEF TypeOK
  <2>2. Finish(p, cookie[p], FinalPreferences(p, cookie[p], prefs[p]))
    BY <1>3 DEF FinishInitialize
  <2>3. auto' \in [Pages -> Work]
    <3>1. [auto[p] EXCEPT !.stage = "patching"] \in Work
      BY <2>1, WorkTypes
    <3> QED
      BY <1>3, <3>1 DEF FinishInitialize, TypeOK
  <2>4. jar' \in Jar /\ writer' \in Pages \cup {"nobody"}
    <3>1. [exists |-> TRUE, cookie |-> auto[p].cookie] \in Jar
      BY <2>1, WorkTypes DEF Jar
    <3> QED
      BY <1>3, <3>1 DEF FinishInitialize, Write, TypeOK
  <2> QED
    BY <1>3, <2>1, <2>2, <2>3, <2>4, FinishTypes DEF FinishInitialize, TypeOK, entries
<1> QED
  BY <1>1, <1>2, <1>3 DEF InitStep

LEMMA UpdateConsentTypes ==
    ASSUME TypeOK, NEW p \in Pages, NEW s \in Slots, NEW given \in Consents,
           NEW method \in Methods, UpdateConsent(p, s, given, method)
    PROVE  TypeOK'
<1> DEFINE c == CookieFromNoticePreferences(
                  Spread(cookie[p].consent, given), method, Offered(p))
<1>1. c \in Cookie
  <2>1. Offered(p) \in Offer /\ cookie[p].consent \in Consents
    BY CookieParts DEF TypeOK, Visit, Offered
  <2> QED
    BY <2>1, ConsentMaps, NoticePreferenceTypes
<1>2. AllSettled \in BOOLEAN
  BY DEF AllSettled, Settled
<1>3. [Idle EXCEPT !.stage = "called", !.kind = "update",
                   !.alone = AllSettled, !.cookie = c] \in Work
  BY <1>1, <1>2, NewWork
<1>4. OthersNotAlone \in [Pages -> [Slots -> Work]] /\ NotAlone(auto) \in [Pages -> Work]
  BY WorksTypes DEF TypeOK
<1>5. calls' = [OthersNotAlone EXCEPT ![p][s] =
                 [Idle EXCEPT !.stage = "called", !.kind = "update",
                              !.alone = AllSettled, !.cookie = c]]
  BY DEF UpdateConsent
<1> HIDE DEF c
<1>6. calls' \in [Pages -> [Slots -> Work]]
  BY <1>3, <1>4, <1>5
<1> QED
  BY <1>4, <1>6 DEF UpdateConsent, TypeOK, pageVars

LEMMA PreferencesTypes ==
    ASSUME TypeOK, NEW p \in Pages, NEW s \in Slots, UpdateConsentPreferences(p, s)
    PROVE  TypeOK'
<1> DEFINE c == calls[p][s].cookie
<1>1. calls[p][s] \in Work /\ c \in Cookie /\ c.consent \in Consents
  BY WorkTypes, CookieParts DEF TypeOK
<1>2. Shown(c, Offered(p).nonApplicable) \in Consents
  BY <1>1, ConsentMaps DEF Shown
<1>3. calls' \in [Pages -> [Slots -> Work]]
  <2>1. \/ calls' = [calls EXCEPT ![p][s].stage = "encoding"]
        \/ calls' = [calls EXCEPT ![p][s].stage = "patching"]
    BY DEF UpdateConsentPreferences
  <2>2. /\ [calls EXCEPT ![p][s].stage = "encoding"] \in [Pages -> [Slots -> Work]]
        /\ [calls EXCEPT ![p][s].stage = "patching"] \in [Pages -> [Slots -> Work]]
    BY SetStage DEF TypeOK
  <2> QED
    BY <2>1, <2>2
<1>4. jar' \in Jar /\ writer' \in Pages \cup {"nobody"} /\ saved' \in [Pages -> Consents]
  <2>1. [exists |-> TRUE, cookie |-> c] \in Jar
    BY <1>1 DEF Jar
  <2> QED
    BY <1>1, <2>1 DEF UpdateConsentPreferences, Write, TypeOK
<1>5. clean' \in [Pages -> BOOLEAN]
  BY DEF UpdateConsentPreferences, TypeOK
<1> QED
  BY <1>1, <1>2, <1>3, <1>4, <1>5 DEF UpdateConsentPreferences, TypeOK, entries

LEMMA SetIdentityTypes ==
    ASSUME TypeOK, NEW p \in Pages, NEW s \in Slots, SetIdentity(p, s)
    PROVE  TypeOK'
<1>1. cookie[p] \in Cookie
  BY DEF TypeOK
<1>2. OthersNotAlone \in [Pages -> [Slots -> Work]] /\ NotAlone(auto) \in [Pages -> Work]
  BY WorksTypes DEF TypeOK
<1>3. [Idle EXCEPT !.stage = "encoding", !.kind = "identity", !.cookie = cookie[p]] \in Work
  BY <1>1, NewWork
<1>4. calls' \in [Pages -> [Slots -> Work]]
  <2>1. \/ calls' = OthersNotAlone
        \/ calls' = [OthersNotAlone EXCEPT ![p][s] =
                      [Idle EXCEPT !.stage = "encoding", !.kind = "identity",
                                   !.cookie = cookie[p]]]
    BY DEF SetIdentity
  <2> QED
    BY SMTT(30), <1>2, <1>3, <2>1, SetCall
<1>5. jar' \in Jar /\ writer' \in Pages \cup {"nobody"}
  <2>1. [exists |-> TRUE, cookie |-> cookie[p]] \in Jar
    BY <1>1 DEF Jar
  <2>2. UNCHANGED <<jar, writer>> \/ Write(p, cookie[p])
    BY DEF SetIdentity
  <2> QED
    BY <2>1, <2>2 DEF Write, TypeOK
<1>6. clean' \in [Pages -> BOOLEAN]
  BY DEF SetIdentity, TypeOK
<1> QED
  BY <1>2, <1>4, <1>5, <1>6 DEF SetIdentity, TypeOK, pageVars

LEMMA CookieEncodedTypes ==
    ASSUME TypeOK, NEW p \in Pages, NEW s \in Slots, CookieEncoded(p, s)
    PROVE  TypeOK'
<1>1. /\ calls[p][s] \in Work /\ calls[p][s].cookie \in Cookie
      /\ calls[p][s].held \in Consents /\ cookie[p].consent \in Consents
  BY WorkTypes, CookieParts DEF TypeOK
<1>2. calls' \in [Pages -> [Slots -> Work]]
  <2>1. \/ calls' = [calls EXCEPT ![p][s].stage = "patching"]
        \/ calls' = [calls EXCEPT ![p][s] = Idle]
    BY DEF CookieEncoded
  <2>2. [calls EXCEPT ![p][s].stage = "patching"] \in [Pages -> [Slots -> Work]]
    BY SetStage DEF TypeOK
  <2>3. [calls EXCEPT ![p][s] = Idle] \in [Pages -> [Slots -> Work]]
    BY SetCall, NewWork DEF TypeOK
  <2> QED
    BY <2>1, <2>2, <2>3
<1>3. jar' \in Jar /\ writer' \in Pages \cup {"nobody"}
  BY <1>1 DEF CookieEncoded, Write, Jar, TypeOK
<1>4. saved' \in [Pages -> Consents]
  BY <1>1 DEF CookieEncoded, TypeOK
<1> QED
  BY <1>2, <1>3, <1>4 DEF CookieEncoded, TypeOK, entries

LEMMA AnswerTypes ==
    ASSUME TypeOK, NEW p \in Pages,
           AutomatedAnswered(p) \/ \E s \in Slots : PatchAnswered(p, s)
    PROVE  TypeOK'
<1>1. ASSUME NEW w \in Work, Answer(w)
      PROVE  server' \in Consents /\ doubt' \in BOOLEAN
  <2>1. Spread(server, w.cookie.consent) \in Consents
    BY WorkTypes, CookieParts, ConsentMaps DEF TypeOK
  <2>2. w.alone \in BOOLEAN
    BY DEF Work
  <2> QED
    BY <1>1, <2>1, <2>2 DEF Answer, TypeOK
<1>2. ASSUME NEW s \in Slots, PatchAnswered(p, s)
      PROVE  TypeOK'
  <2>1. calls[p][s] \in Work /\ calls' \in [Pages -> [Slots -> Work]]
    <3>1. [calls EXCEPT ![p][s] = Idle] \in [Pages -> [Slots -> Work]]
      BY SetCall, NewWork DEF TypeOK
    <3> QED
      BY <1>2, <3>1 DEF PatchAnswered, TypeOK
  <2>2. server' \in Consents /\ doubt' \in BOOLEAN
    BY <1>1, <1>2, <2>1 DEF PatchAnswered
  <2> QED
    BY <1>2, <2>1, <2>2 DEF PatchAnswered, TypeOK, pageVars, history, entries
<1>3. ASSUME AutomatedAnswered(p)
      PROVE  TypeOK'
  <2>1. auto[p] \in Work /\ auto' \in [Pages -> Work]
    BY <1>3, NewWork DEF AutomatedAnswered, TypeOK
  <2>2. server' \in Consents /\ doubt' \in BOOLEAN
    BY <1>1, <1>3, <2>1 DEF AutomatedAnswered
  <2> QED
    BY <1>3, <2>1, <2>2 DEF AutomatedAnswered, TypeOK, pageVars, history, entries
<1> QED
  BY <1>2, <1>3

LEMMA ClosePageTypes ==
    ASSUME TypeOK, NEW p \in Pages, ClosePage(p)
    PROVE  TypeOK'
<1>1. Nothing \in Consents /\ NewCookie \in Cookie /\ Idle \in Work
  BY NewWork DEF Nothing, Consents
<1>2. NoVisit \in Visit
  BY <1>1 DEF NoVisit, Visit, Offer, Context
<1>3. server' \in Consents
  <2>1. \A w \in {auto[p]} \cup {calls[p][s] : s \in Slots} : w \in Work
    BY DEF TypeOK
  <2>2. \A w \in Work : Spread(server, w.cookie.consent) \in Consents
    BY WorkTypes, CookieParts, ConsentMaps DEF TypeOK
  <2> QED
    BY <2>1, <2>2 DEF ClosePage, TypeOK
<1>4. doubt' \in BOOLEAN
  BY DEF ClosePage, Settled, TypeOK
<1>5. calls' \in [Pages -> [Slots -> Work]] /\ auto' \in [Pages -> Work]
  BY <1>1 DEF ClosePage, TypeOK
<1> QED
  BY <1>1, <1>2, <1>3, <1>4, <1>5 DEF ClosePage, TypeOK, history, entries

\* What the overlay saves is a call of updateConsent with a consent map.
LEMMA OverlaySavesMap ==
    ASSUME NEW p \in Pages, NEW s \in Slots, UserSaves(p, s) \/ UserDismisses(p, s)
    PROVE  \E given \in Consents, method \in Methods :
              /\ UpdateConsent(p, s, given, method)
              /\ pc[p] = "ready" /\ Quiet(p)
<1> DEFINE Given(ins) == [n \in Notices |-> IF n \notin Offered(p).notices THEN "unset"
                                            ELSE IF n \in ins THEN "in" ELSE "out"]
<1>1. \A ins : Given(ins) \in Consents
  BY DEF Consents, Choice
<1>2. CASE UserSaves(p, s)
  <2>1. PICK ins \in SUBSET Offered(p).notices : UpdateConsent(p, s, Given(ins), "choice")
    BY <1>2 DEF UserSaves, SavesAll
  <2>2. pc[p] = "ready" /\ Quiet(p)
    BY <1>2 DEF UserSaves, SavesAll
  <2> HIDE DEF Given
  <2> QED
    BY <1>1, <2>1, <2>2 DEF Methods
<1>3. CASE UserDismisses(p, s)
  <2> DEFINE ins == Enabled(Offered(p), cookie[p].consent)
  <2>1. UpdateConsent(p, s, Given(ins), "dismiss") /\ pc[p] = "ready" /\ Quiet(p)
    BY <1>3 DEF UserDismisses, SavesAll
  <2> HIDE DEF Given, ins
  <2> QED
    BY <1>1, <2>1 DEF Methods
<1> QED
  BY <1>2, <1>3

\* One step of the pages keeps the types.
LEMMA NextTypes == TypeOK /\ [Next]_vars => TypeOK'
<1> SUFFICES ASSUME TypeOK, [Next]_vars PROVE TypeOK'
  OBVIOUS
<1>1. CASE UNCHANGED vars
  BY <1>1 DEF TypeOK, vars, pageVars, history, entries
<1>2. ASSUME NEW p \in Pages, LoadPage(p) PROVE TypeOK'
  <2>1. PICK o \in Offers, prefetched \in BOOLEAN, gpc \in BOOLEAN,
             string \in Strings, migrated \in Migrations :
               BeginInit(p, o, prefetched, gpc, string, migrated)
    BY <1>2 DEF LoadPage
  <2>2. o \in Offer /\ clean' \in [Pages -> BOOLEAN]
    BY <1>2, ConstantsAssumption DEF LoadPage, TypeOK
  <2> QED
    BY <2>1, <2>2, BeginTypes
<1>3. ASSUME NEW p \in Pages, Reinitialize(p) PROVE TypeOK'
  <2>1. PICK string \in Strings, migrated \in Migrations :
               BeginInit(p, Offered(p), visit[p].prefetched, visit[p].context.gpc,
                         string, migrated)
    BY <1>3 DEF Reinitialize
  <2>2. /\ Offered(p) \in Offer /\ visit[p].prefetched \in BOOLEAN
        /\ visit[p].context.gpc \in BOOLEAN /\ clean' \in [Pages -> BOOLEAN]
    BY <1>3 DEF Reinitialize, TypeOK, Visit, Context, Offered
  <2> QED
    BY <2>1, <2>2, BeginTypes
<1>4. ASSUME NEW p \in Pages, NEW s \in Slots, UserSaves(p, s) \/ UserDismisses(p, s)
      PROVE  TypeOK'
  BY <1>4, OverlaySavesMap, UpdateConsentTypes
<1>5. ASSUME NEW p \in Pages, NEW s \in Slots, ScriptCalls(p, s) PROVE TypeOK'
  BY <1>5, ConstantsAssumption, UpdateConsentTypes DEF ScriptCalls, Methods
<1> QED
  BY <1>1, <1>2, <1>3, <1>4, <1>5, InitStepTypes, PreferencesTypes, SetIdentityTypes,
     CookieEncodedTypes, AnswerTypes, ClosePageTypes DEF Next, CallStep

\* Type correctness: whatever pages, calls and sources there are, every copy of
\* the consent stays a consent map and all work in progress is well formed.
THEOREM TypeCorrect == Spec => []TypeOK
  BY InitTypes, NextTypes, PTL DEF Spec

----------------------------------------------------------------------------
(* The copies of the consent agree.  SettledPageAgrees is not inductive:    *)
(* what a settled page has in the browser was written from the call or the *)
(* automated consent that also went into Fides.cookie, so the copies on    *)
(* the way must be the page's own for as long as nothing crossed them.     *)

\* A consent map with a choice for exactly the notices on offer.
Whole(c, o) == \A n \in Notices : IF n \in o.notices THEN c[n] \in Choice ELSE c[n] = "unset"

StagesMatch(p) ==
    /\ pc[p] = "closed" => \A s \in Slots : calls[p][s].stage = "idle"
    /\ pc[p] = "saving" <=> auto[p].stage = "encoding"
    /\ \A s \in Slots : calls[p][s].stage = "called" =>
         pc[p] # "closed" /\ calls[p][s].cookie.na = Offered(p).nonApplicable

ReadyShows(p) ==
    pc[p] = "ready" =>
        cookie[p].na = Offered(p).nonApplicable /\ shown[p] = cookie[p].consent

\* What holds on a page whose saves have crossed neither its init nor each other.
EncodesItsCookie(p) ==
    \A s \in Slots : calls[p][s].stage = "encoding" =>
        pc[p] = "ready" /\ calls[p][s].cookie = cookie[p]

ReadsTheJar(p) ==
    pc[p] \in {"locating", "fetching"} =>
        /\ writer # p
        /\ cookie[p].consent = saved[p]
        /\ visit[p].prefetched => prefs[p] = PreferencesFrom(Offered(p), cookie[p])

SavesItsCookie(p) ==
    pc[p] = "saving" =>
        /\ auto[p].cookie = cookie[p] /\ prefs[p] = cookie[p].consent
        /\ Whole(prefs[p], Offered(p))
        /\ ~Compressed => (writer = p => jar.cookie = cookie[p])

WroteItsCookie(p) ==
    /\ pc[p] = "ready" /\ writer = p /\ \A s \in Slots : calls[p][s].stage # "encoding"
    /\ Offered(p).notices \cap jar.cookie.na = {}
    => jar.cookie.consent = cookie[p].consent

NothingCrossed(p) ==
    EncodesItsCookie(p) /\ ReadsTheJar(p) /\ SavesItsCookie(p) /\ WroteItsCookie(p)

PageAgrees(p) == StagesMatch(p) /\ ReadyShows(p) /\ (clean[p] => NothingCrossed(p))

AgreeInv ==
    /\ ~jar.exists => jar.cookie.consent = Nothing
    /\ \A p \in Pages : PageAgrees(p)

----------------------------------------------------------------------------
\* A whole map is a state of the experience as it is, and cut to it.
LEMMA WholeState ==
    ASSUME NEW o \in Offer, NEW c \in Consents, Whole(c, o)
    PROVE  StateOf(o, c) = c /\ Only(c, o.notices) = c
<1>1. StateOf(o, c) = c
  BY DEF StateOf, Whole, Consents, Choice
<1>2. Only(c, o.notices) = c
  BY DEF Only, Whole, Consents, Choice
<1> QED
  BY <1>1, <1>2

LEMMA AutomatedWhole ==
    ASSUME NEW o \in Offer, NEW old \in Consents, NEW ctx \in Context
    PROVE  Whole(Automated(o, old, ctx), o)
<1>1. \A n \in Notices : AutomatedValue(n, old, ctx) \in Choice
  BY DEF AutomatedValue, Consents, Choice, Context, FromMigration, FromString, FromGpc,
         WithoutSource, Default
<1> QED
  BY <1>1 DEF Whole, Automated

\* Fides.consent shows the whole of a cookie that lists the offer's own not
\* applicable notices.
LEMMA ShownIsCookie ==
    ASSUME NEW c \in Cookie
    PROVE  Shown(c, c.na) = c.consent
<1>1. c.consent \in Consents
  BY CookieParts
<1> QED
  BY <1>1 DEF Shown, Only, Consents, Choice

\* What a step of another page leaves alone.
Untouched(q) ==
    /\ pc'[q] = pc[q] /\ visit'[q] = visit[q] /\ cookie'[q] = cookie[q]
    /\ prefs'[q] = prefs[q] /\ saved'[q] = saved[q] /\ shown'[q] = shown[q]
    /\ clean'[q] = clean[q]
    /\ auto'[q].stage = auto[q].stage /\ auto'[q].cookie = auto[q].cookie
    /\ \A s \in Slots : /\ calls'[q][s].stage = calls[q][s].stage
                        /\ calls'[q][s].cookie = calls[q][s].cookie
    /\ writer' = q => writer = q /\ jar' = jar

LEMMA AgreesElsewhere ==
    ASSUME NEW q \in Pages, PageAgrees(q), Untouched(q)
    PROVE  PageAgrees(q)'
<1>1. StagesMatch(q)' /\ ReadyShows(q)'
  BY DEF PageAgrees, Untouched, StagesMatch, ReadyShows, Offered
<1>2. ASSUME clean[q] PROVE NothingCrossed(q)'
  <2>1. NothingCrossed(q)
    BY <1>2 DEF PageAgrees
  <2>2. EncodesItsCookie(q)'
    BY <2>1 DEF NothingCrossed, EncodesItsCookie, Untouched
  <2>3. ReadsTheJar(q)'
    BY <2>1 DEF NothingCrossed, ReadsTheJar, Untouched, Offered
  <2>4. SavesItsCookie(q)'
    BY <2>1 DEF NothingCrossed, SavesItsCookie, Untouched, Offered, Whole
  <2>5. WroteItsCookie(q)'
    BY <2>1 DEF NothingCrossed, WroteItsCookie, Untouched, Offered
  <2> QED
    BY <2>2, <2>3, <2>4, <2>5 DEF NothingCrossed
<1> QED
  BY <1>1, <1>2 DEF PageAgrees, Untouched

LEMMA InitAgrees == Init => AgreeInv
<1> SUFFICES ASSUME Init PROVE AgreeInv
  OBVIOUS
<1>1. jar.cookie.consent = Nothing
  BY DEF Init, NewCookie
<1>2. ASSUME NEW p \in Pages PROVE PageAgrees(p)
  <2>1. /\ pc[p] = "closed" /\ auto[p].stage = "idle"
        /\ \A s \in Slots : calls[p][s].stage = "idle"
    BY DEF Init, Idle
  <2> QED
    BY <2>1 DEF PageAgrees, StagesMatch, ReadyShows, NothingCrossed, EncodesItsCookie,
       ReadsTheJar, SavesItsCookie, WroteItsCookie
<1> QED
  BY <1>1, <1>2 DEF AgreeInv

LEMMA BeginAgrees ==
    ASSUME TypeOK, AgreeInv, NEW p \in Pages, NEW o \in Offer, NEW prefetched \in BOOLEAN,
           NEW gpc \in BOOLEAN, NEW string \in Strings, NEW migrated \in Migrations,
           BeginInit(p, o, prefetched, gpc, string, migrated),
           \/ pc[p] = "closed" /\ clean' = [clean EXCEPT ![p] = TRUE]
           \/ /\ pc[p] \in {"ready", "bare"} /\ Quiet(p)
              /\ clean' = [clean EXCEPT ![p] =
                             @ /\ \A s \in Slots : calls[p][s].stage # "encoding"]
    PROVE  AgreeInv'
<1> DEFINE from  == IF jar.exists THEN Nothing ELSE migrated
           c     == [jar.cookie EXCEPT !.consent = Spread(@, from)]
           known == jar.exists \/ from # Nothing
<1>1. from \in Consents /\ jar.cookie \in Cookie /\ jar.cookie.consent \in Consents
  BY ConstantsAssumption, CookieParts DEF Nothing, Consents, TypeOK, Jar
<1>2. c \in Cookie /\ c.consent = Spread(jar.cookie.consent, from)
  BY <1>1, CookieParts, ConsentMaps DEF Cookie
<1>3. ~known => PreferencesFrom(o, c) = Nothing
  <2>1. Spread(Nothing, Nothing) = Nothing
    BY DEF Spread, Nothing
  <2>2. ~known => c.consent = Nothing
    BY <1>2, <2>1 DEF AgreeInv
  <2>3. \A S : Only(Nothing, S) = Nothing
    BY DEF Only, Nothing
  <2> HIDE DEF c, known
  <2> QED
    BY <2>2, <2>3 DEF PreferencesFrom
<1>4. /\ UNCHANGED <<jar, auto>> /\ writer' = IF writer = p THEN "nobody" ELSE writer
      /\ \A q \in Pages : q # p =>
           /\ pc'[q] = pc[q] /\ cookie'[q] = cookie[q] /\ saved'[q] = saved[q]
           /\ visit'[q] = visit[q] /\ prefs'[q] = prefs[q] /\ shown'[q] = shown[q]
  BY DEF BeginInit, TypeOK
<1>5. \A q \in Pages, s \in Slots : /\ calls'[q][s].stage = calls[q][s].stage
                                    /\ calls'[q][s].cookie = calls[q][s].cookie
  <2>1. calls' = Detached(p, calls) /\ calls \in [Pages -> [Slots -> Work]]
    BY DEF BeginInit, TypeOK
  <2> QED
    BY <2>1, DetachedKept DEF SameWork
<1>6. \A q \in Pages : writer' = q => q # p /\ writer = q
  BY <1>4, ConstantsAssumption
<1> HIDE DEF c, from, known
<1>7. ASSUME NEW q \in Pages, q # p PROVE PageAgrees(q)'
  <2>1. clean'[q] = clean[q]
    BY <1>7 DEF TypeOK
  <2>2. Untouched(q)
    BY <1>4, <1>5, <1>6, <1>7, <2>1 DEF Untouched, TypeOK
  <2> QED
    BY <2>2, AgreesElsewhere DEF AgreeInv
<1>8. PageAgrees(p)'
  <2>1. StagesMatch(p)
    BY DEF AgreeInv, PageAgrees
  <2>2. pc'[p] = "locating" /\ auto'[p] = auto[p] /\ cookie'[p] = c /\ saved'[p] = c.consent
        /\ Offered(p)' = o /\ visit'[p].prefetched = prefetched
        /\ prefs'[p] = IF known /\ prefetched THEN PreferencesFrom(o, c) ELSE Nothing
    BY DEF BeginInit, TypeOK, Offered, c, known, from
  <2>3. StagesMatch(p)' /\ ReadyShows(p)'
    BY <1>5, <2>1, <2>2 DEF StagesMatch, ReadyShows, Quiet
  <2>4. clean'[p] => \A s \in Slots : calls[p][s].stage # "encoding"
    BY <2>1 DEF StagesMatch, TypeOK
  <2>5. ReadsTheJar(p)'
    BY <1>3, <1>6, <2>2 DEF ReadsTheJar
  <2>6. clean'[p] => EncodesItsCookie(p)'
    BY <1>5, <2>4 DEF EncodesItsCookie
  <2>7. SavesItsCookie(p)' /\ WroteItsCookie(p)'
    BY <2>2 DEF SavesItsCookie, WroteItsCookie
  <2> QED
    BY <2>3, <2>5, <2>6, <2>7 DEF PageAgrees, NothingCrossed
<1> QED
  BY <1>4, <1>7, <1>8 DEF AgreeInv

\* Init waits for the experience, ends without one, or fails.
LEMMA WaitAgrees ==
    ASSUME TypeOK, AgreeInv, NEW p \in Pages, Quiet(p), pc[p] \in {"locating", "fetching"},
           \/ EndBare(p)
           \/ /\ \/ pc' = [pc EXCEPT ![p] = "fetching"]
                 \/ pc' = [pc EXCEPT ![p] = "failed"]
              /\ UNCHANGED <<jar, cookie, prefs, shown, banner, auto, calls, history, doubt>>,
           UNCHANGED <<server, visit, saved, entries>>
    PROVE  AgreeInv'
<1>1. /\ pc'[p] \in {"bare", "fetching", "failed"}
      /\ UNCHANGED <<jar, visit, cookie, prefs, saved, auto, calls, writer, clean>>
      /\ \A q \in Pages : q # p => pc'[q] = pc[q] /\ shown'[q] = shown[q]
  BY DEF EndBare, TypeOK, history
<1>2. ASSUME NEW q \in Pages, q # p PROVE PageAgrees(q)'
  BY <1>1, <1>2, AgreesElsewhere DEF AgreeInv, Untouched
<1>3. PageAgrees(p)'
  <2>1. StagesMatch(p) /\ (clean[p] => NothingCrossed(p))
    BY DEF AgreeInv, PageAgrees
  <2>2. StagesMatch(p)' /\ ReadyShows(p)'
    BY <1>1, <2>1 DEF StagesMatch, ReadyShows, Quiet
  <2>3. clean[p] => EncodesItsCookie(p)' /\ ReadsTheJar(p)'
    BY <1>1, <2>1 DEF NothingCrossed, EncodesItsCookie, ReadsTheJar, Offered
  <2>4. SavesItsCookie(p)' /\ WroteItsCookie(p)'
    BY <1>1 DEF SavesItsCookie, WroteItsCookie
  <2> QED
    BY <1>1, <2>2, <2>3, <2>4 DEF PageAgrees, NothingCrossed
<1> QED
  BY <1>1, <1>2, <1>3 DEF AgreeInv

\* What the end of initialize makes of the page.
LEMMA FinishCopies ==
    ASSUME TypeOK, NEW p \in Pages, NEW pf \in Consents, Finish(p, cookie[p], pf),
           visit' = visit
    PROVE  /\ pc'[p] = "ready" /\ prefs'[p] = pf
           /\ cookie'[p].consent = StateOf(Offered(p), pf)
           /\ cookie'[p].na = Offered(p).nonApplicable
           /\ shown'[p] = cookie'[p].consent
           /\ \A q \in Pages : q # p =>
                /\ pc'[q] = pc[q] /\ cookie'[q] = cookie[q]
                /\ prefs'[q] = prefs[q] /\ shown'[q] = shown[q]
           /\ \A q \in Pages, s \in Slots : /\ calls'[q][s].stage = calls[q][s].stage
                                            /\ calls'[q][s].cookie = calls[q][s].cookie
<1> DEFINE o    == Offered(p)
           next == CookieFromExperience(cookie[p], o, pf)
<1>1. o \in Offer /\ cookie[p] \in Cookie
  BY DEF TypeOK, Visit, Offered
<1>2. next \in Cookie /\ next.consent = StateOf(o, pf) /\ next.na = o.nonApplicable
  BY <1>1, PreferenceTypes DEF CookieFromExperience, Cookie
<1>3. Shown(next, o.nonApplicable) = next.consent
  BY <1>2, ShownIsCookie
<1>4. /\ pc'[p] = "ready" /\ prefs'[p] = pf /\ cookie'[p] = next
      /\ shown'[p] = Shown(next, o.nonApplicable)
      /\ \A q \in Pages : q # p =>
           /\ pc'[q] = pc[q] /\ cookie'[q] = cookie[q]
           /\ prefs'[q] = prefs[q] /\ shown'[q] = shown[q]
  BY DEF Finish, TypeOK
<1>5. \A q \in Pages, s \in Slots : /\ calls'[q][s].stage = calls[q][s].stage
                                    /\ calls'[q][s].cookie = calls[q][s].cookie
  <2>1. calls' = Detached(p, calls) /\ calls \in [Pages -> [Slots -> Work]]
    BY DEF Finish, TypeOK
  <2> QED
    BY <2>1, DetachedKept DEF SameWork
<1> HIDE DEF next
<1> QED
  BY <1>2, <1>3, <1>4, <1>5

\* The page ends its init with an experience; what it wrote before, or writes
\* now, is the consent it ends with.
LEMMA FinishAgrees ==
    ASSUME TypeOK, AgreeInv, NEW p \in Pages, Quiet(p),
           pc[p] \in {"locating", "fetching", "saving"},
           Finish(p, cookie[p], FinalPreferences(p, cookie[p], prefs[p])),
           UNCHANGED <<visit, saved, clean>>,
           IF Compressed /\ pc[p] = "saving" THEN Write(p, auto[p].cookie)
                                             ELSE UNCHANGED <<jar, writer>>,
           auto'[p].stage # "encoding",
           \A q \in Pages : q # p => auto'[q] = auto[q]
    PROVE  AgreeInv'
<1> DEFINE o  == Offered(p)
           pf == FinalPreferences(p, cookie[p], prefs[p])
<1>1. /\ pc'[p] = "ready" /\ prefs'[p] = pf /\ cookie'[p].consent = StateOf(o, pf)
      /\ cookie'[p].na = o.nonApplicable /\ shown'[p] = cookie'[p].consent
      /\ \A q \in Pages : q # p =>
           /\ pc'[q] = pc[q] /\ cookie'[q] = cookie[q]
           /\ prefs'[q] = prefs[q] /\ shown'[q] = shown[q]
      /\ \A q \in Pages, s \in Slots : /\ calls'[q][s].stage = calls[q][s].stage
                                       /\ calls'[q][s].cookie = calls[q][s].cookie
  BY FinalTypes, FinishCopies
<1>2. (jar' = jar /\ writer' = writer) \/ (jar'.exists /\ writer' = p)
  BY DEF Write
<1> HIDE DEF o, pf
<1>3. ASSUME NEW q \in Pages, q # p PROVE PageAgrees(q)'
  <2>1. Untouched(q)
    BY <1>1, <1>2, <1>3 DEF Untouched
  <2> QED
    BY <2>1, AgreesElsewhere DEF AgreeInv
<1>4. StagesMatch(p)' /\ ReadyShows(p)'
  <2>1. Offered(p)' = o
    BY DEF Offered, o
  <2> QED
    BY <1>1, <2>1 DEF StagesMatch, ReadyShows, Quiet
<1>5. ASSUME clean[p] PROVE NothingCrossed(p)'
  <2>1. EncodesItsCookie(p) /\ ReadsTheJar(p) /\ SavesItsCookie(p)
    BY <1>5 DEF AgreeInv, PageAgrees, NothingCrossed
  <2>2. EncodesItsCookie(p)' /\ ReadsTheJar(p)' /\ SavesItsCookie(p)'
    BY <1>1, <2>1 DEF EncodesItsCookie, ReadsTheJar, SavesItsCookie
  <2>3. ASSUME pc[p] = "saving", writer' = p, o.notices \cap jar'.cookie.na = {}
        PROVE  jar'.cookie.consent = cookie'[p].consent
    <3>1. jar'.cookie = cookie[p]
      BY <2>1, <2>3, ConstantsAssumption DEF SavesItsCookie, Write
    <3>2. /\ o \in Offer /\ cookie[p] \in Cookie /\ prefs[p] \in Consents
          /\ prefs[p] = cookie[p].consent /\ Whole(prefs[p], o)
      BY <2>1, <2>3 DEF TypeOK, Visit, Offered, o, SavesItsCookie
    <3>3. PreferencesFrom(o, cookie[p]) = Only(prefs[p], o.notices)
      <4>1. o.notices \ cookie[p].na = o.notices
        BY <2>3, <3>1
      <4> QED
        BY <3>2, <4>1 DEF PreferencesFrom
    <3>4. pf = prefs[p]
      BY <3>2, <3>3, WholeState DEF pf, FinalPreferences, UpdatedPreferences, o
    <3> QED
      BY <1>1, <3>1, <3>2, <3>4, WholeState
  <2>4. WroteItsCookie(p)'
    <3>1. Offered(p)' = o
      BY DEF Offered, o
    <3>2. pc[p] # "saving" => writer' # p
      BY <2>1 DEF ReadsTheJar
    <3> QED
      BY <2>3, <3>1, <3>2 DEF WroteItsCookie
  <2> QED
    BY <2>2, <2>4 DEF NothingCrossed
<1>6. PageAgrees(p)'
  BY <1>4, <1>5 DEF PageAgrees
<1> QED
  BY <1>2, <1>3, <1>6 DEF AgreeInv

LEMMA ApplyAgrees ==
    ASSUME TypeOK, AgreeInv, NEW p \in Pages, Quiet(p), ApplyExperience(p),
           pc[p] \in {"locating", "fetching"},
           UNCHANGED <<server, visit, saved, entries>>
    PROVE  AgreeInv'
<1> DEFINE o       == Offered(p)
           ctx     == visit[p].context
           consent == Automated(o, saved[p], ctx)
           c       == [cookie[p] EXCEPT !.consent = consent,
                                        !.method = AutomatedMethod(o, ctx)]
           w       == [Idle EXCEPT !.stage = "encoding", !.cookie = c,
                                   !.kind = "automated", !.alone = AllSettled]
<1>1. CASE Applied(o, saved[p], ctx)
  <2>1. /\ o \in Offer /\ ctx \in Context /\ saved[p] \in Consents /\ cookie[p] \in Cookie
    BY DEF TypeOK, Visit, Offered
  <2>2. Whole(consent, o) /\ c.consent = consent
    BY <2>1, AutomatedWhole DEF Cookie
  <2>3. w.stage = "encoding" /\ w.cookie = c
    BY DEF Idle
  <2>4. /\ prefs' = [prefs EXCEPT ![p] = consent] /\ cookie' = [cookie EXCEPT ![p] = c]
        /\ auto' = [NotAlone(auto) EXCEPT ![p] = w]
        /\ calls' = Detached(p, OthersNotAlone)
        /\ IF Compressed THEN UNCHANGED <<jar, writer>> ELSE Write(p, c)
        /\ pc' = [pc EXCEPT ![p] = "saving"] /\ UNCHANGED <<shown, clean>>
    BY <1>1 DEF ApplyExperience
  <2> HIDE DEF c, w, consent, ctx, o
  <2>5. \A q \in Pages, s \in Slots : /\ calls'[q][s].stage = calls[q][s].stage
                                      /\ calls'[q][s].cookie = calls[q][s].cookie
    <3>1. OthersNotAlone \in [Pages -> [Slots -> Work]]
      BY NotAloneKept
    <3>2. \A q \in Pages, s \in Slots : SameWork(calls'[q][s], OthersNotAlone[q][s])
      BY <2>4, <3>1, DetachedKept
    <3>3. \A q \in Pages, s \in Slots : SameWork(OthersNotAlone[q][s], calls[q][s])
      BY NotAloneKept
    <3> QED
      BY <3>2, <3>3 DEF SameWork
  <2>6. /\ auto'[p] = w
        /\ \A q \in Pages : q # p => /\ auto'[q].stage = auto[q].stage
                                     /\ auto'[q].cookie = auto[q].cookie
    BY <2>4, NotAloneKept DEF SameWork
  <2>7. (jar' = jar /\ writer' = writer) \/ (jar'.exists /\ writer' = p)
    BY <2>4 DEF Write
  <2>8. ASSUME NEW q \in Pages, q # p PROVE PageAgrees(q)'
    <3>1. /\ cookie'[q] = cookie[q] /\ prefs'[q] = prefs[q] /\ pc'[q] = pc[q]
      BY <2>4, <2>8 DEF TypeOK
    <3>2. Untouched(q)
      BY <2>4, <2>5, <2>6, <2>7, <2>8, <3>1 DEF Untouched
    <3> QED
      BY <3>2, AgreesElsewhere DEF AgreeInv
  <2>9. PageAgrees(p)'
    <3>1. /\ cookie'[p] = c /\ prefs'[p] = consent /\ pc'[p] = "saving" /\ Offered(p)' = o
      BY <2>4 DEF TypeOK, Offered, o
    <3>2. StagesMatch(p)' /\ ReadyShows(p)'
      BY <2>3, <2>5, <2>6, <3>1 DEF StagesMatch, ReadyShows, Quiet
    <3>3. clean[p] => EncodesItsCookie(p)'
      BY <2>5 DEF AgreeInv, PageAgrees, NothingCrossed, EncodesItsCookie
    <3>4. SavesItsCookie(p)'
      BY <2>2, <2>3, <2>4, <2>6, <3>1 DEF SavesItsCookie, Write
    <3>5. ReadsTheJar(p)' /\ WroteItsCookie(p)'
      BY <3>1 DEF ReadsTheJar, WroteItsCookie
    <3> QED
      BY <2>4, <3>2, <3>3, <3>4, <3>5 DEF PageAgrees, NothingCrossed
  <2> QED
    BY <2>7, <2>8, <2>9 DEF AgreeInv
<1>2. CASE ~Applied(o, saved[p], ctx)
  <2>1. /\ Finish(p, cookie[p], FinalPreferences(p, cookie[p], prefs[p]))
        /\ UNCHANGED <<jar, auto, writer, clean>>
    BY <1>2 DEF ApplyExperience, history
  <2>2. auto'[p].stage # "encoding"
    BY <2>1 DEF AgreeInv, PageAgrees, StagesMatch
  <2> QED
    BY <2>1, <2>2, FinishAgrees
<1> QED
  BY <1>1, <1>2

LEMMA InitStepAgrees ==
    ASSUME TypeOK, AgreeInv, NEW p \in Pages, InitStep(p)
    PROVE  AgreeInv'
<1>1. ASSUME Locate(p) PROVE AgreeInv'
  BY <1>1, ApplyAgrees, WaitAgrees DEF Locate
<1>2. ASSUME FetchExperience(p) PROVE AgreeInv'
  BY <1>2, ApplyAgrees, WaitAgrees DEF FetchExperience
<1>3. ASSUME FinishInitialize(p) PROVE AgreeInv'
  <2>1. /\ Finish(p, cookie[p], FinalPreferences(p, cookie[p], prefs[p]))
        /\ pc[p] = "saving" /\ Quiet(p) /\ UNCHANGED <<visit, saved, clean>>
        /\ IF Compressed THEN Write(p, auto[p].cookie) ELSE UNCHANGED <<jar, writer>>
        /\ auto' = [auto EXCEPT ![p].stage = "patching"]
    BY <1>3 DEF FinishInitialize
  <2>2. auto'[p].stage = "patching" /\ \A q \in Pages : q # p => auto'[q] = auto[q]
    BY <2>1 DEF TypeOK, Work
  <2> QED
    BY <2>1, <2>2, FinishAgrees
<1> QED
  BY <1>1, <1>2, <1>3 DEF InitStep

LEMMA UpdateConsentAgrees ==
    ASSUME TypeOK, AgreeInv, NEW p \in Pages, NEW s \in Slots, NEW given \in Consents,
           NEW method \in Methods, UpdateConsent(p, s, given, method)
    PROVE  AgreeInv'
<1> DEFINE c == CookieFromNoticePreferences(Spread(cookie[p].consent, given), method, Offered(p))
           w == [Idle EXCEPT !.stage = "called", !.kind = "update",
                             !.alone = AllSettled, !.cookie = c]
<1>1. c.na = Offered(p).nonApplicable
  BY DEF CookieFromNoticePreferences
<1>2. w.stage = "called" /\ w.cookie = c
  BY DEF Idle
<1>3. /\ calls' = [OthersNotAlone EXCEPT ![p][s] = w] /\ auto' = NotAlone(auto)
      /\ UNCHANGED <<jar, pageVars, writer, clean>>
      /\ pc[p] # "closed" /\ calls[p][s].stage = "idle"
  BY DEF UpdateConsent, MayRun
<1> HIDE DEF c, w
<1>4. \A q \in Pages, x \in Slots :
        \/ q = p /\ x = s /\ calls'[q][x] = w
        \/ /\ calls'[q][x].stage = calls[q][x].stage
           /\ calls'[q][x].cookie = calls[q][x].cookie
  <2>1. \A q \in Pages, x \in Slots :
          calls'[q][x] = IF q = p /\ x = s THEN w ELSE OthersNotAlone[q][x]
    <3>1. OthersNotAlone \in [Pages -> [Slots -> Work]]
      BY NotAloneKept
    <3> QED
      BY <1>3, <3>1
  <2>2. \A q \in Pages, x \in Slots : SameWork(OthersNotAlone[q][x], calls[q][x])
    BY NotAloneKept
  <2> QED
    BY <2>1, <2>2 DEF SameWork
<1>5. \A q \in Pages : /\ auto'[q].stage = auto[q].stage /\ auto'[q].cookie = auto[q].cookie
  BY <1>3, NotAloneKept DEF SameWork
<1>6. ASSUME NEW q \in Pages, q # p PROVE PageAgrees(q)'
  <2>1. Untouched(q)
    BY <1>3, <1>4, <1>5, <1>6 DEF Untouched, pageVars
  <2> QED
    BY <2>1, AgreesElsewhere DEF AgreeInv
<1>7. PageAgrees(p)'
  <2>1. StagesMatch(p) /\ ReadyShows(p) /\ (clean[p] => NothingCrossed(p))
    BY DEF AgreeInv, PageAgrees
  <2>2. Offered(p)' = Offered(p) /\ pc' = pc /\ cookie' = cookie /\ shown' = shown
        /\ prefs' = prefs /\ saved' = saved /\ visit' = visit
    BY <1>3 DEF Offered, pageVars
  <2>3. StagesMatch(p)' /\ ReadyShows(p)'
    BY <1>1, <1>2, <1>3, <1>4, <1>5, <2>1, <2>2 DEF StagesMatch, ReadyShows
  <2>4. ASSUME clean[p] PROVE EncodesItsCookie(p)' /\ WroteItsCookie(p)'
    <3>1. \A x \in Slots : calls'[p][x].stage = "encoding" <=> calls[p][x].stage = "encoding"
      BY <1>2, <1>3, <1>4
    <3> QED
      BY <1>2, <1>3, <1>4, <2>1, <2>2, <2>4, <3>1 DEF NothingCrossed, EncodesItsCookie, WroteItsCookie
  <2>5. clean[p] => ReadsTheJar(p)' /\ SavesItsCookie(p)'
    BY <1>3, <1>5, <2>1, <2>2 DEF NothingCrossed, ReadsTheJar, SavesItsCookie, Whole
  <2> QED
    BY <1>3, <2>3, <2>4, <2>5 DEF PageAgrees, NothingCrossed
<1> QED
  BY <1>3, <1>6, <1>7 DEF AgreeInv

LEMMA PreferencesAgree ==
    ASSUME TypeOK, AgreeInv, NEW p \in Pages, NEW s \in Slots, UpdateConsentPreferences(p, s)
    PROVE  AgreeInv'
<1> DEFINE c == calls[p][s].cookie
<1>1. /\ calls[p][s] \in Work /\ c \in Cookie
  BY ZenonT(60), WorkTypes DEF TypeOK
<1>2. /\ StagesMatch(p) /\ (clean[p] => NothingCrossed(p)) /\ calls[p][s].stage = "called"
      /\ c.na = Offered(p).nonApplicable /\ pc[p] # "closed"
  BY DEF AgreeInv, PageAgrees, StagesMatch, UpdateConsentPreferences
<1>3. /\ cookie' = [cookie EXCEPT ![p] = c]
      /\ shown' = [shown EXCEPT ![p] = Shown(c, Offered(p).nonApplicable)]
      /\ clean' = [clean EXCEPT ![p] = /\ @ /\ pc[p] = "ready"
                                       /\ \A x \in Slots : calls[p][x].stage # "encoding"]
      /\ UNCHANGED <<pc, visit, prefs, auto>>
  BY DEF UpdateConsentPreferences
<1>4. PICK st \in {"encoding", "patching"} :
        /\ calls' = [calls EXCEPT ![p][s].stage = st]
        /\ st = "encoding" => UNCHANGED <<jar, saved, writer>>
        /\ st = "patching" => Write(p, c) /\ saved' = [saved EXCEPT ![p] = c.consent]
  BY DEF UpdateConsentPreferences
<1>5. \A q \in Pages, x \in Slots :
        /\ calls'[q][x].cookie = calls[q][x].cookie
        /\ calls'[q][x].stage = IF q = p /\ x = s THEN st ELSE calls[q][x].stage
  <2>1. \A q \in Pages, x \in Slots :
          calls'[q][x] = IF q = p /\ x = s THEN [calls[p][s] EXCEPT !.stage = st] ELSE calls[q][x]
    BY <1>4 DEF TypeOK
  <2>2. [calls[p][s] EXCEPT !.stage = st].cookie = c /\ [calls[p][s] EXCEPT !.stage = st].stage = st
    BY <1>1 DEF Work
  <2> QED
    BY <2>1, <2>2
<1>6. (jar' = jar /\ writer' = writer) \/ (jar'.exists /\ writer' = p)
  BY <1>4 DEF Write
<1>7. ASSUME NEW q \in Pages, q # p PROVE PageAgrees(q)'
  <2>1. cookie'[q] = cookie[q] /\ shown'[q] = shown[q] /\ clean'[q] = clean[q] /\ saved'[q] = saved[q]
    BY <1>3, <1>4, <1>7 DEF TypeOK
  <2>2. Untouched(q)
    BY <1>3, <1>5, <1>6, <1>7, <2>1 DEF Untouched
  <2> QED
    BY <2>2, AgreesElsewhere DEF AgreeInv
<1>8. PageAgrees(p)'
  <2>1. cookie'[p] = c /\ Offered(p)' = Offered(p) /\ shown'[p] = c.consent
    BY <1>1, <1>2, <1>3, ShownIsCookie DEF TypeOK, Offered
  <2>2. clean'[p] => /\ clean[p] /\ pc[p] = "ready"
                     /\ \A x \in Slots : calls[p][x].stage # "encoding"
    BY <1>3 DEF TypeOK
  <2> HIDE DEF c
  <2>3. StagesMatch(p)' /\ ReadyShows(p)'
    BY <1>2, <1>3, <1>5, <2>1 DEF StagesMatch, ReadyShows
  <2>4. clean'[p] => EncodesItsCookie(p)'
    BY <1>3, <1>5, <2>1, <2>2 DEF EncodesItsCookie, c
  <2>5. clean'[p] => ReadsTheJar(p)' /\ SavesItsCookie(p)'
    BY <1>3, <2>2 DEF ReadsTheJar, SavesItsCookie
  <2>6. WroteItsCookie(p)'
    <3>1. CASE st = "encoding"
      BY <1>5, <3>1 DEF WroteItsCookie
    <3>2. CASE st = "patching"
      BY <1>4, <2>1, <3>2 DEF WroteItsCookie, Write
    <3> QED
      BY <3>1, <3>2
  <2> QED
    BY <2>3, <2>4, <2>5, <2>6 DEF PageAgrees, NothingCrossed
<1> QED
  BY <1>6, <1>7, <1>8 DEF AgreeInv

LEMMA SetIdentityAgrees ==
    ASSUME TypeOK, AgreeInv, NEW p \in Pages, NEW s \in Slots, SetIdentity(p, s)
    PROVE  AgreeInv'
<1> DEFINE w == [Idle EXCEPT !.stage = "encoding", !.kind = "identity", !.cookie = cookie[p]]
<1>1. w.stage = "encoding" /\ w.cookie = cookie[p]
  BY DEF Idle
<1>2. /\ \/ calls' = [OthersNotAlone EXCEPT ![p][s] = w] /\ UNCHANGED <<jar, writer>>
         \/ calls' = OthersNotAlone /\ Write(p, cookie[p])
      /\ auto' = NotAlone(auto) /\ UNCHANGED pageVars
      /\ clean' = [clean EXCEPT ![p] = /\ @ /\ pc[p] = "ready"
                                       /\ \A x \in Slots : calls[p][x].stage # "encoding"]
      /\ pc[p] # "closed" /\ Quiet(p)
  BY DEF SetIdentity, MayRun
<1> HIDE DEF w
<1>3. \A q \in Pages, x \in Slots :
        \/ q = p /\ x = s /\ calls'[q][x] = w /\ UNCHANGED <<jar, writer>>
        \/ /\ calls'[q][x].stage = calls[q][x].stage
           /\ calls'[q][x].cookie = calls[q][x].cookie
  <2>1. CASE calls' = [OthersNotAlone EXCEPT ![p][s] = w] /\ UNCHANGED <<jar, writer>>
    <3>1. \A q \in Pages, x \in Slots :
            calls'[q][x] = IF q = p /\ x = s THEN w ELSE OthersNotAlone[q][x]
      <4>1. OthersNotAlone \in [Pages -> [Slots -> Work]]
        BY NotAloneKept
      <4> QED
        BY <2>1, <4>1
    <3>2. \A q \in Pages, x \in Slots : SameWork(OthersNotAlone[q][x], calls[q][x])
      BY NotAloneKept
    <3> QED
      BY <2>1, <3>1, <3>2 DEF SameWork
  <2>2. CASE calls' = OthersNotAlone
    BY <2>2, NotAloneKept DEF SameWork
  <2> QED
    BY <1>2, <2>1, <2>2
<1>4. \A q \in Pages : /\ auto'[q].stage = auto[q].stage /\ auto'[q].cookie = auto[q].cookie
  BY <1>2, NotAloneKept DEF SameWork
<1>5. \/ jar' = jar /\ writer' = writer
      \/ /\ jar'.exists /\ writer' = p /\ jar'.cookie = cookie[p]
  BY <1>2 DEF Write
<1>6. ASSUME NEW q \in Pages, q # p PROVE PageAgrees(q)'
  <2>1. clean'[q] = clean[q]
    BY <1>2, <1>6 DEF TypeOK
  <2>2. Untouched(q)
    BY <1>2, <1>3, <1>4, <1>5, <1>6, <2>1 DEF Untouched, pageVars
  <2> QED
    BY <2>2, AgreesElsewhere DEF AgreeInv
<1>7. PageAgrees(p)'
  <2>1. StagesMatch(p) /\ ReadyShows(p) /\ (clean[p] => NothingCrossed(p))
    BY DEF AgreeInv, PageAgrees
  <2>2. Offered(p)' = Offered(p) /\ pc' = pc /\ cookie' = cookie /\ shown' = shown
    BY <1>2 DEF Offered, pageVars
  <2>3. clean'[p] => /\ clean[p] /\ pc[p] = "ready"
                     /\ \A x \in Slots : calls[p][x].stage # "encoding"
    BY <1>2 DEF TypeOK
  <2>4. StagesMatch(p)' /\ ReadyShows(p)'
    BY <1>1, <1>2, <1>3, <1>4, <2>1, <2>2 DEF StagesMatch, ReadyShows, Quiet
  <2>5. clean'[p] => EncodesItsCookie(p)'
    BY <1>1, <1>3, <2>2, <2>3 DEF EncodesItsCookie
  <2>6. clean'[p] => ReadsTheJar(p)' /\ SavesItsCookie(p)'
    BY <2>2, <2>3 DEF ReadsTheJar, SavesItsCookie
  <2>7. clean'[p] => WroteItsCookie(p)'
    BY <1>1, <1>3, <1>5, <2>1, <2>2, <2>3 DEF NothingCrossed, WroteItsCookie
  <2> QED
    BY <2>4, <2>5, <2>6, <2>7 DEF PageAgrees, NothingCrossed
<1> QED
  BY <1>5, <1>6, <1>7 DEF AgreeInv

LEMMA CookieEncodedAgrees ==
    ASSUME TypeOK, AgreeInv, NEW p \in Pages, NEW s \in Slots, CookieEncoded(p, s)
    PROVE  AgreeInv'
<1>1. /\ calls[p][s].stage = "encoding" /\ Write(p, calls[p][s].cookie)
      /\ UNCHANGED <<pc, visit, cookie, prefs, shown, auto, clean>>
      /\ \A q \in Pages : q # p => saved'[q] = saved[q]
  BY DEF CookieEncoded, TypeOK
<1>2. \A q \in Pages, x \in Slots :
        \/ q = p /\ x = s /\ calls'[q][x].stage \in {"idle", "patching"}
        \/ calls'[q][x] = calls[q][x]
  <2>1. \/ calls' = [calls EXCEPT ![p][s].stage = "patching"]
        \/ calls' = [calls EXCEPT ![p][s] = Idle]
    BY DEF CookieEncoded
  <2>2. Idle.stage = "idle" /\ [calls[p][s] EXCEPT !.stage = "patching"].stage = "patching"
    BY DEF Idle, TypeOK, Work
  <2>3. \A q \in Pages, x \in Slots :
          calls'[q][x] \in IF q = p /\ x = s THEN {Idle, [calls[p][s] EXCEPT !.stage = "patching"]}
                           ELSE {calls[q][x]}
    BY <2>1 DEF TypeOK
  <2> QED
    BY <2>2, <2>3
<1>3. ASSUME NEW q \in Pages, q # p PROVE PageAgrees(q)'
  <2>1. Untouched(q)
    BY <1>1, <1>2, <1>3 DEF Untouched, Write
  <2> QED
    BY <2>1, AgreesElsewhere DEF AgreeInv
<1>4. PageAgrees(p)'
  <2>1. StagesMatch(p) /\ ReadyShows(p) /\ (clean[p] => NothingCrossed(p))
    BY DEF AgreeInv, PageAgrees
  <2>2. Offered(p)' = Offered(p)
    BY <1>1 DEF Offered
  <2>3. StagesMatch(p)' /\ ReadyShows(p)'
    BY <1>1, <1>2, <2>1, <2>2 DEF StagesMatch, ReadyShows
  <2>4. ASSUME clean[p] PROVE NothingCrossed(p)'
    <3>1. pc[p] = "ready" /\ calls[p][s].cookie = cookie[p] /\ EncodesItsCookie(p)
      BY <1>1, <2>1, <2>4 DEF NothingCrossed, EncodesItsCookie
    <3>2. EncodesItsCookie(p)' /\ ReadsTheJar(p)' /\ SavesItsCookie(p)'
      BY <1>1, <1>2, <3>1 DEF EncodesItsCookie, ReadsTheJar, SavesItsCookie
    <3>3. WroteItsCookie(p)'
      BY <1>1, <3>1 DEF WroteItsCookie, Write
    <3> QED
      BY <3>2, <3>3 DEF NothingCrossed
  <2> QED
    BY <1>1, <2>3, <2>4 DEF PageAgrees
<1> QED
  BY <1>1, <1>3, <1>4 DEF AgreeInv, Write

LEMMA AnswerAgrees ==
    ASSUME TypeOK, AgreeInv, NEW p \in Pages,
           AutomatedAnswered(p) \/ \E s \in Slots : PatchAnswered(p, s)
    PROVE  AgreeInv'
<1>1. UNCHANGED <<jar, pc, visit, cookie, prefs, saved, shown, writer, clean>>
  BY DEF AutomatedAnswered, PatchAnswered, pageVars, history
<1>2. \A q \in Pages :
        /\ \/ auto'[q] = auto[q]
           \/ auto[q].stage = "patching" /\ auto'[q].stage = "idle"
        /\ \A x \in Slots :
             \/ calls'[q][x] = calls[q][x]
             \/ calls[q][x].stage = "patching" /\ calls'[q][x].stage = "idle"
  <2>1. CASE AutomatedAnswered(p)
    <3>1. auto[p].stage = "patching" /\ auto' = [auto EXCEPT ![p] = Idle] /\ calls' = calls
      BY <2>1 DEF AutomatedAnswered
    <3>2. auto \in [Pages -> Work] /\ Idle.stage = "idle"
      BY DEF TypeOK, Idle
    <3> HIDE DEF Idle
    <3> QED
      BY <3>1, <3>2
  <2>2. ASSUME NEW s \in Slots, PatchAnswered(p, s)
        PROVE  \A q \in Pages, x \in Slots :
                 \/ calls'[q][x] = calls[q][x]
                 \/ calls[q][x].stage = "patching" /\ calls'[q][x].stage = "idle"
    <3>1. calls[p][s].stage = "patching" /\ calls' = [calls EXCEPT ![p][s] = Idle]
      BY <2>2 DEF PatchAnswered
    <3>2. \A q \in Pages, x \in Slots :
            calls'[q][x] = IF q = p /\ x = s THEN Idle ELSE calls[q][x]
      BY <3>1 DEF TypeOK
    <3> QED
      BY <3>1, <3>2 DEF Idle
  <2>3. (\E s \in Slots : PatchAnswered(p, s)) => auto' = auto
    BY DEF PatchAnswered
  <2> QED
    BY <2>1, <2>2, <2>3
<1>3. ASSUME NEW q \in Pages PROVE PageAgrees(q)'
  <2>1. PageAgrees(q)
    BY DEF AgreeInv
  <2>2. StagesMatch(q)' /\ ReadyShows(q)'
    BY <1>1, <1>2, <2>1 DEF PageAgrees, StagesMatch, ReadyShows, Offered
  <2>3. ASSUME clean[q] PROVE NothingCrossed(q)'
    <3>1. NothingCrossed(q)
      BY <2>1, <2>3 DEF PageAgrees
    <3>2. EncodesItsCookie(q)' /\ ReadsTheJar(q)'
      BY <1>1, <1>2, <3>1 DEF NothingCrossed, EncodesItsCookie, ReadsTheJar, Offered
    <3>3. SavesItsCookie(q)'
      <4>1. StagesMatch(q)
        BY <2>1 DEF PageAgrees
      <4> QED
        BY <1>1, <1>2, <3>1, <4>1 DEF NothingCrossed, SavesItsCookie, Offered, Whole, StagesMatch
    <3>4. WroteItsCookie(q)'
      BY <1>1, <1>2, <3>1 DEF NothingCrossed, WroteItsCookie, Offered
    <3> QED
      BY <3>2, <3>3, <3>4 DEF NothingCrossed
  <2> QED
    BY <1>1, <2>2, <2>3 DEF PageAgrees
<1> QED
  BY <1>1, <1>3 DEF AgreeInv

LEMMA ClosePageAgrees ==
    ASSUME TypeOK, AgreeInv, NEW p \in Pages, ClosePage(p)
    PROVE  AgreeInv'
<1>1. /\ UNCHANGED <<jar, writer, clean>>
      /\ pc'[p] = "closed" /\ auto'[p] = Idle /\ \A s \in Slots : calls'[p][s] = Idle
      /\ \A q \in Pages : q # p =>
           /\ pc'[q] = pc[q] /\ visit'[q] = visit[q] /\ cookie'[q] = cookie[q]
           /\ prefs'[q] = prefs[q] /\ saved'[q] = saved[q] /\ shown'[q] = shown[q]
           /\ auto'[q] = auto[q] /\ calls'[q] = calls[q]
  BY DEF ClosePage, TypeOK, history
<1>2. ASSUME NEW q \in Pages, q # p PROVE PageAgrees(q)'
  BY <1>1, <1>2, AgreesElsewhere DEF AgreeInv, Untouched
<1>3. PageAgrees(p)'
  BY <1>1 DEF Idle, PageAgrees, StagesMatch, ReadyShows, NothingCrossed, EncodesItsCookie,
     ReadsTheJar, SavesItsCookie, WroteItsCookie
<1> QED
  BY <1>1, <1>2, <1>3 DEF AgreeInv

LEMMA NextAgrees == TypeOK /\ AgreeInv /\ [Next]_vars => AgreeInv'
<1> SUFFICES ASSUME TypeOK, AgreeInv, [Next]_vars PROVE AgreeInv'
  OBVIOUS
<1>1. CASE UNCHANGED vars
  <2>1. \A q \in Pages : Untouched(q)
    BY <1>1 DEF vars, pageVars, history, Untouched
  <2> QED
    BY <1>1, <2>1, AgreesElsewhere DEF AgreeInv, vars
<1>2. ASSUME NEW p \in Pages, LoadPage(p) PROVE AgreeInv'
  <2>1. PICK o \in Offers, prefetched \in BOOLEAN, gpc \in BOOLEAN,
             string \in Strings, migrated \in Migrations :
               BeginInit(p, o, prefetched, gpc, string, migrated)
    BY <1>2 DEF LoadPage
  <2>2. o \in Offer /\ pc[p] = "closed" /\ clean' = [clean EXCEPT ![p] = TRUE]
    BY <1>2, ConstantsAssumption DEF LoadPage
  <2> QED
    BY <2>1, <2>2, BeginAgrees
<1>3. ASSUME NEW p \in Pages, Reinitialize(p) PROVE AgreeInv'
  <2>1. PICK string \in Strings, migrated \in Migrations :
               BeginInit(p, Offered(p), visit[p].prefetched, visit[p].context.gpc,
                         string, migrated)
    BY <1>3 DEF Reinitialize
  <2>2. /\ Offered(p) \in Offer /\ visit[p].prefetched \in BOOLEAN
        /\ visit[p].context.gpc \in BOOLEAN
    BY DEF TypeOK, Visit, Context, Offered
  <2>3. /\ pc[p] \in {"ready", "bare"} /\ Quiet(p)
        /\ clean' = [clean EXCEPT ![p] =
                       @ /\ \A s \in Slots : calls[p][s].stage # "encoding"]
    BY <1>3 DEF Reinitialize
  <2> QED
    BY <2>1, <2>2, <2>3, BeginAgrees
<1>4. ASSUME NEW p \in Pages, NEW s \in Slots, UserSaves(p, s) \/ UserDismisses(p, s)
      PROVE  AgreeInv'
  BY <1>4, OverlaySavesMap, UpdateConsentAgrees
<1>5. ASSUME NEW p \in Pages, NEW s \in Slots, ScriptCalls(p, s) PROVE AgreeInv'
  BY <1>5, ConstantsAssumption, UpdateConsentAgrees DEF ScriptCalls, Methods
<1> QED
  BY <1>1, <1>2, <1>3, <1>4, <1>5, InitStepAgrees, PreferencesAgree, SetIdentityAgrees,
     CookieEncodedAgrees, AnswerAgrees, ClosePageAgrees DEF Next, CallStep

\* The copies agree: with nothing in progress, the page that wrote the cookie
\* last holds in Fides.cookie and shows in Fides.consent the consent the
\* browser keeps, for any number of tabs and calls, unless saves crossed.
THEOREM CopiesAgree == Spec => []SettledPageAgrees
<1>1. Spec => []AgreeInv
  BY InitAgrees, NextAgrees, TypeCorrect, PTL DEF Spec
<1>2. AgreeInv => SettledPageAgrees
  <2> SUFFICES ASSUME AgreeInv, NEW p \in Pages,
                      pc[p] = "ready", writer = p, clean[p], Settled(p),
                      Offered(p).notices \cap jar.cookie.na = {}
               PROVE  jar.cookie.consent = cookie[p].consent /\ shown[p] = cookie[p].consent
    BY DEF SettledPageAgrees
  <2> QED
    BY DEF AgreeInv, PageAgrees, ReadyShows, NothingCrossed, WroteItsCookie, Settled
<1> QED
  BY <1>1, <1>2, PTL

----------------------------------------------------------------------------
(* The API follows the browser.  Its answers may be out of order, so that  *)
(* only a save which had nothing beside it can vouch for what is recorded: *)
(* such a save is the only work there is, and what it sends is what the    *)
(* browser keeps.                                                          *)

Busy(w) == w.stage # "idle"

CallAlone(p, s) ==
    Busy(calls[p][s]) /\ calls[p][s].alone =>
        /\ \A q \in Pages : ~Busy(auto[q])
        /\ \A q \in Pages, x \in Slots : q # p \/ x # s => ~Busy(calls[q][x])
        /\ calls[p][s].stage = "patching" => jar.cookie = calls[p][s].cookie

AutoAlone(p) ==
    Busy(auto[p]) /\ auto[p].alone =>
        /\ \A q \in Pages : q # p => ~Busy(auto[q])
        /\ \A q \in Pages, x \in Slots : ~Busy(calls[q][x])
        /\ auto[p].stage = "patching" \/ ~Compressed => jar.cookie = auto[p].cookie

\* A cookie that setIdentity saves is nothing the API hears of.
IdentityDoubted ==
    \A p \in Pages, s \in Slots :
        Busy(calls[p][s]) /\ calls[p][s].kind = "identity" => doubt

AloneInv ==
    /\ \A p \in Pages, s \in Slots : CallAlone(p, s)
    /\ \A p \in Pages : AutoAlone(p)
    /\ IdentityDoubted
    /\ ServerAgrees

LEMMA AllSettledIdle ==
    AllSettled <=> \A p \in Pages : ~Busy(auto[p]) /\ \A s \in Slots : ~Busy(calls[p][s])
  BY DEF AllSettled, Settled, Busy

\* A step that leaves the browser, the API and all work as they are, or only
\* takes the claim from some work that it is alone.
LEMMA SameWorkAlone ==
    ASSUME AloneInv, UNCHANGED <<jar, server, doubt>>,
           \A p \in Pages : SameWork(auto'[p], auto[p]) /\ (auto'[p].alone => auto[p].alone),
           \A p \in Pages, s \in Slots : /\ SameWork(calls'[p][s], calls[p][s])
                                         /\ calls'[p][s].alone => calls[p][s].alone
    PROVE  AloneInv'
<1>1. ASSUME NEW p \in Pages, NEW s \in Slots PROVE CallAlone(p, s)'
  BY DEF AloneInv, CallAlone, SameWork, Busy
<1>2. ASSUME NEW p \in Pages PROVE AutoAlone(p)'
  BY DEF AloneInv, AutoAlone, SameWork, Busy
<1>3. IdentityDoubted'
  BY DEF AloneInv, IdentityDoubted, SameWork, Busy
<1>4. AllSettled' <=> AllSettled
  BY DEF AllSettled, Settled, SameWork
<1>5. ServerAgrees'
  BY <1>4 DEF AloneInv, ServerAgrees
<1> QED
  BY <1>1, <1>2, <1>3, <1>5 DEF AloneInv

\* A step that begins a call: it is alone if nothing was in progress.
LEMMA BeginAlone ==
    ASSUME TypeOK, AloneInv, NEW p \in Pages, NEW s \in Slots, NEW w \in Work,
           calls' = [OthersNotAlone EXCEPT ![p][s] = w], auto' = NotAlone(auto),
           Busy(w), w.alone => AllSettled /\ w.stage = "called",
           calls[p][s].stage = "idle", w.kind = "identity" => doubt',
           doubt => doubt'
    PROVE  AloneInv'
<1>1. /\ OthersNotAlone \in [Pages -> [Slots -> Work]]
      /\ \A q \in Pages : SameWork(auto'[q], auto[q]) /\ auto'[q].alone = FALSE
      /\ \A q \in Pages, x \in Slots :
           SameWork(OthersNotAlone[q][x], calls[q][x]) /\ OthersNotAlone[q][x].alone = FALSE
  BY NotAloneKept
<1>2. \A q \in Pages, x \in Slots :
        calls'[q][x] = IF q = p /\ x = s THEN w ELSE OthersNotAlone[q][x]
  BY <1>1
<1>3. CallAlone(p, s)'
  <2>1. ASSUME w.alone
        PROVE  /\ \A q \in Pages : ~Busy(auto'[q])
               /\ \A q \in Pages, x \in Slots : q # p \/ x # s => ~Busy(calls'[q][x])
    <3>1. \A q \in Pages : ~Busy(auto[q]) /\ \A x \in Slots : ~Busy(calls[q][x])
      BY <2>1, AllSettledIdle
    <3>2. \A q \in Pages : auto'[q].stage = auto[q].stage
      BY <1>1 DEF SameWork
    <3>3. \A q \in Pages, x \in Slots : OthersNotAlone[q][x].stage = calls[q][x].stage
      BY <1>1 DEF SameWork
    <3> QED
      BY <1>2, <3>1, <3>2, <3>3 DEF Busy
  <2> QED
    BY <1>2, <2>1 DEF CallAlone
<1>4. ASSUME NEW q \in Pages, NEW x \in Slots PROVE CallAlone(q, x)'
  <2>1. CASE q = p /\ x = s
    BY <1>3, <2>1
  <2>2. CASE ~(q = p /\ x = s)
    BY <1>1, <1>2, <2>2 DEF CallAlone
  <2> QED
    BY <2>1, <2>2
<1>5. \A q \in Pages : AutoAlone(q)'
  BY <1>1 DEF AutoAlone
<1>6. IdentityDoubted'
  BY <1>1, <1>2 DEF AloneInv, IdentityDoubted, SameWork, Busy
<1>7. ServerAgrees'
  <2>1. Busy(calls'[p][s])
    BY <1>2
  <2> QED
    BY <2>1 DEF ServerAgrees, AllSettled, Settled, Busy
<1> QED
  BY <1>4, <1>5, <1>6, <1>7 DEF AloneInv

\* A step that moves a call on, or ends it.
LEMMA CallMovesAlone ==
    ASSUME TypeOK, AloneInv, NEW p \in Pages, NEW s \in Slots, NEW w \in Work,
           Busy(calls[p][s]), calls' = [calls EXCEPT ![p][s] = w], auto' = auto,
           Busy(w) => w.alone = calls[p][s].alone /\ w.kind = calls[p][s].kind,
           w.stage = "patching" => jar'.cookie = w.cookie,
           doubt => doubt' \/ (calls[p][s].alone /\ ~Busy(w)),
           ServerAgrees'
    PROVE  AloneInv'
<1>1. \A q \in Pages, x \in Slots :
        calls'[q][x] = IF q = p /\ x = s THEN w ELSE calls[q][x]
  BY DEF TypeOK
<1>2. \A q \in Pages, x \in Slots : CallAlone(q, x)
  BY DEF AloneInv
<1>3. CallAlone(p, s)'
  BY <1>1, <1>2 DEF CallAlone
<1>4. ASSUME NEW q \in Pages, NEW x \in Slots, ~(q = p /\ x = s)
      PROVE  CallAlone(q, x)'
  BY <1>1, <1>2, <1>4 DEF CallAlone
<1>5. ASSUME NEW q \in Pages PROVE AutoAlone(q)'
  BY <1>1 DEF AloneInv, AutoAlone
<1>6. IdentityDoubted'
  <2>1. ASSUME NEW q \in Pages, NEW x \in Slots,
               Busy(calls'[q][x]), calls'[q][x].kind = "identity"
        PROVE  doubt'
    <3>1. Busy(calls[q][x]) /\ calls[q][x].kind = "identity"
      BY <1>1, <2>1
    <3>2. doubt
      BY <3>1 DEF AloneInv, IdentityDoubted
    <3>3. CASE q = p /\ x = s
      BY <1>1, <2>1, <3>2, <3>3
    <3>4. CASE ~(q = p /\ x = s)
      BY <1>2, <3>1, <3>2, <3>4 DEF CallAlone
    <3> QED
      BY <3>3, <3>4
  <2> QED
    BY <2>1 DEF IdentityDoubted
<1> QED
  BY <1>3, <1>4, <1>5, <1>6 DEF AloneInv

\* A step that moves the automated consent of a page on, or ends it.
LEMMA AutoMovesAlone ==
    ASSUME TypeOK, AloneInv, NEW p \in Pages, NEW w \in Work,
           Busy(auto[p]), auto' = [auto EXCEPT ![p] = w],
           \A q \in Pages, x \in Slots : /\ SameWork(calls'[q][x], calls[q][x])
                                         /\ calls'[q][x].alone = calls[q][x].alone,
           Busy(w) => w.alone = auto[p].alone,
           Busy(w) /\ w.alone => jar'.cookie = w.cookie,
           doubt => doubt' \/ auto[p].alone,
           ServerAgrees'
    PROVE  AloneInv'
<1>1. \A q \in Pages : auto'[q] = IF q = p THEN w ELSE auto[q]
  BY DEF TypeOK
<1>2. \A q \in Pages : AutoAlone(q)
  BY DEF AloneInv
<1>3. ASSUME NEW q \in Pages, NEW x \in Slots PROVE CallAlone(q, x)'
  BY DEF AloneInv, CallAlone, SameWork, Busy
<1>4. AutoAlone(p)'
  BY <1>1, <1>2 DEF AutoAlone, SameWork, Busy
<1>5. ASSUME NEW q \in Pages, q # p PROVE AutoAlone(q)'
  BY <1>1, <1>2, <1>5 DEF AutoAlone
<1>6. IdentityDoubted'
  BY <1>2 DEF AloneInv, IdentityDoubted, AutoAlone, SameWork, Busy
<1> QED
  BY <1>3, <1>4, <1>5, <1>6 DEF AloneInv

LEMMA InitAlone == Init => AloneInv
<1> SUFFICES ASSUME Init PROVE AloneInv
  OBVIOUS
<1>1. \A p \in Pages : ~Busy(auto[p]) /\ \A s \in Slots : ~Busy(calls[p][s])
  BY DEF Init, Idle, Busy
<1>2. Keys(jar.cookie.consent) = {}
  BY DEF Init, NewCookie, Nothing, Keys
<1> QED
  BY <1>1, <1>2 DEF AloneInv, CallAlone, AutoAlone, IdentityDoubted, ServerAgrees

\* What an answer records is what was sent.
LEMMA AnswerRecords ==
    ASSUME TypeOK, AloneInv, NEW w \in Work, Answer(w), jar' = jar,
           w.alone => jar.cookie = w.cookie
    PROVE  ServerAgrees' /\ (~doubt' => w.alone)
<1>1. ASSUME ~doubt' PROVE w.alone /\ server' = Spread(server, w.cookie.consent)
  BY <1>1 DEF Answer, Work
<1>2. ASSUME ~doubt', NEW n \in Keys(jar'.cookie.consent)
      PROVE  server'[n] = jar'.cookie.consent[n]
  BY <1>1, <1>2 DEF Spread, Keys
<1> QED
  BY <1>1, <1>2 DEF ServerAgrees

----------------------------------------------------------------------------

\* The end of init when no source applied, and its beginning, write nothing.
LEMMA DetachedAlone ==
    ASSUME TypeOK, AloneInv, NEW p \in Pages, calls' = Detached(p, calls) \/ calls' = calls,
           UNCHANGED <<jar, server, doubt, auto>>
    PROVE  AloneInv'
<1>1. \A q \in Pages, s \in Slots : /\ SameWork(calls'[q][s], calls[q][s])
                                    /\ calls'[q][s].alone = calls[q][s].alone
  <2>1. calls \in [Pages -> [Slots -> Work]]
    BY DEF TypeOK
  <2>2. CASE calls' = Detached(p, calls)
    BY <2>1, <2>2, DetachedKept
  <2>3. CASE calls' = calls
    BY <2>3 DEF SameWork
  <2> QED
    BY <2>2, <2>3
<1> QED
  BY <1>1, SameWorkAlone DEF SameWork

LEMMA ApplyAlone ==
    ASSUME TypeOK, AloneInv, NEW p \in Pages, ApplyExperience(p), server' = server
    PROVE  AloneInv'
<1> DEFINE o       == Offered(p)
           ctx     == visit[p].context
           c       == [cookie[p] EXCEPT !.consent = Automated(o, saved[p], ctx),
                                        !.method = AutomatedMethod(o, ctx)]
           w       == [Idle EXCEPT !.stage = "encoding", !.cookie = c,
                                   !.kind = "automated", !.alone = AllSettled]
<1>1. CASE Applied(o, saved[p], ctx)
  <2>1. w.stage = "encoding" /\ w.cookie = c /\ (w.alone => AllSettled)
    BY DEF Idle
  <2>2. /\ auto' = [NotAlone(auto) EXCEPT ![p] = w]
        /\ calls' = Detached(p, OthersNotAlone)
        /\ IF Compressed THEN UNCHANGED <<jar, writer>> ELSE Write(p, c)
        /\ doubt' = doubt
    BY <1>1 DEF ApplyExperience
  <2> HIDE DEF c, w, ctx, o
  <2>3. /\ \A q \in Pages, s \in Slots :
             SameWork(OthersNotAlone[q][s], calls[q][s]) /\ OthersNotAlone[q][s].alone = FALSE
        /\ \A q \in Pages :
             SameWork(NotAlone(auto)[q], auto[q]) /\ NotAlone(auto)[q].alone = FALSE
        /\ NotAlone(auto) \in [Pages -> Work]
        /\ OthersNotAlone \in [Pages -> [Slots -> Work]]
    BY NotAloneKept
  <2>4. \A q \in Pages, s \in Slots :
          SameWork(calls'[q][s], calls[q][s]) /\ calls'[q][s].alone = FALSE
    <3>1. \A q \in Pages, s \in Slots :
            /\ SameWork(calls'[q][s], OthersNotAlone[q][s])
            /\ calls'[q][s].alone = OthersNotAlone[q][s].alone
      BY <2>2, <2>3, DetachedKept
    <3> QED
      BY <2>3, <3>1 DEF SameWork
  <2>5. \A q \in Pages : auto'[q] = IF q = p THEN w ELSE NotAlone(auto)[q]
    BY <2>2, <2>3
  <2>6. ASSUME NEW q \in Pages, NEW s \in Slots PROVE CallAlone(q, s)'
    BY <2>4 DEF CallAlone
  <2>7. AutoAlone(p)'
    <3>1. ASSUME w.alone
          PROVE  /\ \A q \in Pages : q # p => ~Busy(auto'[q])
                 /\ \A q \in Pages, s \in Slots : ~Busy(calls'[q][s])
      <4>1. \A q \in Pages : ~Busy(auto[q]) /\ \A s \in Slots : ~Busy(calls[q][s])
        BY <2>1, <3>1, AllSettledIdle
      <4>2. \A q \in Pages : q # p => auto'[q].stage = auto[q].stage
        BY <2>3, <2>5 DEF SameWork
      <4>3. \A q \in Pages, s \in Slots : calls'[q][s].stage = calls[q][s].stage
        BY <2>4 DEF SameWork
      <4> QED
        BY <4>1, <4>2, <4>3 DEF Busy
    <3>2. ~Compressed => jar'.cookie = w.cookie
      BY <2>1, <2>2 DEF Write
    <3> QED
      BY <2>1, <2>5, <3>1, <3>2 DEF AutoAlone
  <2>8. ASSUME NEW q \in Pages, q # p PROVE AutoAlone(q)'
    BY <2>3, <2>5, <2>8 DEF AutoAlone
  <2>9. IdentityDoubted'
    BY <2>2, <2>4 DEF AloneInv, IdentityDoubted, SameWork, Busy
  <2>10. ServerAgrees'
    <3>1. auto'[p].stage # "idle"
      BY <2>1, <2>5
    <3> QED
      BY <3>1 DEF ServerAgrees, AllSettled, Settled
  <2> QED
    BY <2>6, <2>7, <2>8, <2>9, <2>10 DEF AloneInv
<1>2. CASE ~Applied(o, saved[p], ctx)
  <2>1. calls' = Detached(p, calls) /\ UNCHANGED <<jar, auto, doubt>>
    BY <1>2 DEF ApplyExperience, Finish
  <2> QED
    BY <2>1, DetachedAlone
<1> QED
  BY <1>1, <1>2

LEMMA InitStepAlone ==
    ASSUME TypeOK, AgreeInv, AloneInv, NEW p \in Pages, InitStep(p)
    PROVE  AloneInv'
<1>1. ASSUME Locate(p) PROVE AloneInv'
  <2>1. \/ ApplyExperience(p)
        \/ UNCHANGED <<jar, auto, calls, doubt>>
    BY <1>1 DEF Locate, EndBare
  <2>2. server' = server
    BY <1>1 DEF Locate
  <2> QED
    BY <2>1, <2>2, ApplyAlone, DetachedAlone
<1>2. ASSUME FetchExperience(p) PROVE AloneInv'
  <2>1. \/ ApplyExperience(p)
        \/ UNCHANGED <<jar, auto, calls, doubt>>
    BY <1>2 DEF FetchExperience, EndBare
  <2>2. server' = server
    BY <1>2 DEF FetchExperience
  <2> QED
    BY <2>1, <2>2, ApplyAlone, DetachedAlone
<1>3. ASSUME FinishInitialize(p) PROVE AloneInv'
  <2> DEFINE w == [auto[p] EXCEPT !.stage = "patching"]
  <2>1. /\ pc[p] = "saving" /\ calls' = Detached(p, calls) /\ UNCHANGED <<server, doubt>>
        /\ IF Compressed THEN Write(p, auto[p].cookie) ELSE UNCHANGED <<jar, writer>>
        /\ auto' = [auto EXCEPT ![p] = w]
    BY <1>3 DEF FinishInitialize, Finish
  <2>2. auto[p] \in Work
    BY DEF TypeOK
  <2>3. /\ w \in Work /\ w.stage = "patching" /\ w.cookie = auto[p].cookie
        /\ w.alone = auto[p].alone
    BY <2>2 DEF Work
  <2> HIDE DEF w
  <2>4. Busy(auto[p])
    BY <2>1 DEF AgreeInv, PageAgrees, StagesMatch, Busy
  <2>5. \A q \in Pages, s \in Slots : /\ SameWork(calls'[q][s], calls[q][s])
                                      /\ calls'[q][s].alone = calls[q][s].alone
    <3>1. calls \in [Pages -> [Slots -> Work]]
      BY DEF TypeOK
    <3> QED
      BY <2>1, <3>1, DetachedKept
  <2>6. w.alone => jar'.cookie = w.cookie
    <3>1. AutoAlone(p)
      BY DEF AloneInv
    <3>2. CASE Compressed
      BY <2>1, <2>3, <3>2 DEF Write
    <3>3. CASE ~Compressed
      BY <2>1, <2>3, <2>4, <3>1, <3>3 DEF AutoAlone
    <3> QED
      BY <3>2, <3>3
  <2>7. ServerAgrees'
    <3>1. auto'[p].stage # "idle"
      BY <2>1, <2>3 DEF TypeOK
    <3> QED
      BY <3>1 DEF ServerAgrees, AllSettled, Settled
  <2> QED
    BY <2>1, <2>3, <2>4, <2>5, <2>6, <2>7, AutoMovesAlone
<1> QED
  BY <1>1, <1>2, <1>3 DEF InitStep

LEMMA UpdateConsentAlone ==
    ASSUME TypeOK, AloneInv, NEW p \in Pages, NEW s \in Slots, NEW given \in Consents,
           NEW method \in Methods, UpdateConsent(p, s, given, method)
    PROVE  AloneInv'
<1> DEFINE c == CookieFromNoticePreferences(Spread(cookie[p].consent, given), method, Offered(p))
           w == [Idle EXCEPT !.stage = "called", !.kind = "update",
                             !.alone = AllSettled, !.cookie = c]
<1>1. c \in Cookie
  <2>1. Offered(p) \in Offer /\ cookie[p].consent \in Consents
    BY CookieParts DEF TypeOK, Visit, Offered
  <2> QED
    BY <2>1, ConsentMaps, NoticePreferenceTypes
<1>2. /\ calls[p][s].stage = "idle" /\ auto' = NotAlone(auto) /\ doubt' = doubt
      /\ calls' = [OthersNotAlone EXCEPT ![p][s] = w]
  BY DEF UpdateConsent
<1> HIDE DEF c
<1>3. w \in Work
  <2>1. AllSettled \in BOOLEAN
    BY DEF AllSettled, Settled
  <2> QED
    BY <1>1, <2>1, NewWork
<1>4. w.stage = "called" /\ w.kind = "update" /\ (w.alone => AllSettled)
  BY DEF Idle
<1> HIDE DEF w
<1> QED
  BY <1>2, <1>3, <1>4, BeginAlone DEF Busy

LEMMA SetIdentityAlone ==
    ASSUME TypeOK, AloneInv, NEW p \in Pages, NEW s \in Slots, SetIdentity(p, s)
    PROVE  AloneInv'
<1> DEFINE w == [Idle EXCEPT !.stage = "encoding", !.kind = "identity", !.cookie = cookie[p]]
<1>1. /\ w \in Work /\ w.stage = "encoding" /\ w.alone = FALSE
  BY NewWork DEF Idle, TypeOK
<1>2. /\ calls[p][s].stage = "idle" /\ auto' = NotAlone(auto) /\ doubt' = TRUE
      /\ \/ calls' = [OthersNotAlone EXCEPT ![p][s] = w]
         \/ calls' = OthersNotAlone
  BY DEF SetIdentity
<1> HIDE DEF w
<1>3. CASE calls' = [OthersNotAlone EXCEPT ![p][s] = w]
  BY <1>1, <1>2, <1>3, BeginAlone DEF Busy
<1>4. CASE calls' = OthersNotAlone
  <2>1. /\ \A q \in Pages, x \in Slots : calls'[q][x].alone = FALSE
        /\ \A q \in Pages : auto'[q].alone = FALSE
    BY <1>2, <1>4, NotAloneKept
  <2> QED
    BY <1>2, <2>1 DEF AloneInv, CallAlone, AutoAlone, IdentityDoubted, ServerAgrees
<1> QED
  BY <1>2, <1>3, <1>4

LEMMA CallStepAlone ==
    ASSUME TypeOK, AloneInv, NEW p \in Pages, NEW s \in Slots,
           UpdateConsentPreferences(p, s) \/ CookieEncoded(p, s)
    PROVE  AloneInv'
<1> DEFINE v    == calls[p][s]
           W(st) == [v EXCEPT !.stage = st]
<1>1. v \in Work /\ Busy(v)
  BY DEF TypeOK, UpdateConsentPreferences, CookieEncoded, Busy
<1>2. ASSUME NEW st \in {"encoding", "patching"}
      PROVE  /\ W(st) \in Work /\ W(st).stage = st /\ W(st).cookie = v.cookie
             /\ W(st).kind = v.kind /\ W(st).alone = v.alone
  BY ZenonT(60), <1>1, <1>2, WorkTypes DEF Work
<1>3. UNCHANGED <<auto, server, doubt>>
  BY DEF UpdateConsentPreferences, CookieEncoded
<1>4. ASSUME NEW st \in {"encoding", "patching"}, calls' = [calls EXCEPT ![p][s] = W(st)],
             st = "patching" => jar'.cookie = v.cookie
      PROVE  AloneInv'
  <2>1. ServerAgrees'
    <3>1. calls'[p][s] = W(st)
      BY <1>4 DEF TypeOK
    <3>2. calls'[p][s].stage # "idle"
      BY <1>2, <3>1
    <3> QED
      BY <3>2 DEF ServerAgrees, AllSettled, Settled
  <2> HIDE DEF W
  <2> QED
    BY <1>1, <1>2, <1>3, <1>4, <2>1, CallMovesAlone
<1>5. CASE UpdateConsentPreferences(p, s)
  <2>1. \/ calls' = [calls EXCEPT ![p][s] = W("encoding")]
        \/ calls' = [calls EXCEPT ![p][s] = W("patching")] /\ jar'.cookie = v.cookie
    BY <1>5 DEF UpdateConsentPreferences, Write
  <2> HIDE DEF W
  <2> QED
    BY <1>4, <2>1
<1>6. CASE CookieEncoded(p, s)
  <2>1. \/ calls' = [calls EXCEPT ![p][s] = W("patching")] /\ jar'.cookie = v.cookie
        \/ calls' = [calls EXCEPT ![p][s] = Idle] /\ v.kind = "identity"
    BY <1>6 DEF CookieEncoded, Write
  <2>2. ASSUME calls' = [calls EXCEPT ![p][s] = Idle], v.kind = "identity" PROVE AloneInv'
    <3>1. doubt
      BY <1>1, <2>2 DEF AloneInv, IdentityDoubted
    <3>2. Idle \in Work /\ ~Busy(Idle) /\ Idle.stage = "idle"
      BY NewWork DEF Idle, Busy
    <3>3. ServerAgrees'
      BY <1>3, <3>1 DEF ServerAgrees
    <3> QED
      BY <1>1, <1>3, <2>2, <3>1, <3>2, <3>3, CallMovesAlone
  <2> HIDE DEF W
  <2> QED
    BY <1>4, <2>1, <2>2
<1> QED
  BY <1>5, <1>6

LEMMA AnswerAlone ==
    ASSUME TypeOK, AloneInv, NEW p \in Pages,
           AutomatedAnswered(p) \/ \E s \in Slots : PatchAnswered(p, s)
    PROVE  AloneInv'
<1>1. Idle \in Work /\ ~Busy(Idle) /\ Idle.stage = "idle"
  BY NewWork DEF Idle, Busy
<1>2. ASSUME NEW s \in Slots, PatchAnswered(p, s) PROVE AloneInv'
  <2>1. /\ calls[p][s].stage = "patching" /\ Answer(calls[p][s]) /\ UNCHANGED <<jar, auto>>
        /\ calls' = [calls EXCEPT ![p][s] = Idle]
    BY <1>2 DEF PatchAnswered
  <2>2. calls[p][s] \in Work /\ Busy(calls[p][s])
    BY <2>1 DEF TypeOK, Busy
  <2>3. calls[p][s].alone => jar.cookie = calls[p][s].cookie
    BY <2>1, <2>2 DEF AloneInv, CallAlone
  <2>4. ServerAgrees' /\ (~doubt' => calls[p][s].alone)
    BY <2>1, <2>2, <2>3, AnswerRecords
  <2> QED
    BY <1>1, <2>1, <2>2, <2>4, CallMovesAlone
<1>3. ASSUME AutomatedAnswered(p) PROVE AloneInv'
  <2>1. /\ auto[p].stage = "patching" /\ Answer(auto[p]) /\ UNCHANGED <<jar, calls>>
        /\ auto' = [auto EXCEPT ![p] = Idle]
    BY <1>3 DEF AutomatedAnswered
  <2>2. auto[p] \in Work /\ Busy(auto[p])
    BY <2>1 DEF TypeOK, Busy
  <2>3. auto[p].alone => jar.cookie = auto[p].cookie
    BY <2>1, <2>2 DEF AloneInv, AutoAlone
  <2>4. ServerAgrees' /\ (~doubt' => auto[p].alone)
    BY <2>1, <2>2, <2>3, AnswerRecords
  <2>5. \A q \in Pages, x \in Slots : /\ SameWork(calls'[q][x], calls[q][x])
                                      /\ calls'[q][x].alone = calls[q][x].alone
    BY <2>1 DEF SameWork
  <2> QED
    BY <1>1, <2>1, <2>2, <2>4, <2>5, AutoMovesAlone
<1> QED
  BY <1>2, <1>3

LEMMA ClosePageAlone ==
    ASSUME TypeOK, AloneInv, NEW p \in Pages, ClosePage(p)
    PROVE  AloneInv'
<1>1. /\ jar' = jar /\ doubt' = (doubt \/ ~Settled(p))
      /\ auto'[p] = Idle /\ \A s \in Slots : calls'[p][s] = Idle
      /\ \A q \in Pages : q # p => auto'[q] = auto[q] /\ calls'[q] = calls[q]
  BY DEF ClosePage, TypeOK
<1>2. ~Busy(Idle)
  BY DEF Idle, Busy
<1>3. ASSUME NEW q \in Pages, NEW s \in Slots PROVE CallAlone(q, s)'
  BY <1>1, <1>2 DEF AloneInv, CallAlone
<1>4. ASSUME NEW q \in Pages PROVE AutoAlone(q)'
  BY <1>1, <1>2 DEF AloneInv, AutoAlone
<1>5. IdentityDoubted'
  BY <1>1, <1>2 DEF AloneInv, IdentityDoubted
<1>6. ServerAgrees'
  <2>1. ASSUME ~doubt', AllSettled' PROVE AllSettled /\ ~doubt /\ UNCHANGED <<jar, server>>
    <3>1. Settled(p) /\ ~doubt
      BY <1>1, <2>1
    <3>2. AllSettled
      BY <1>1, <2>1, <3>1 DEF AllSettled, Settled
    <3>3. server' = server
      BY <3>1 DEF ClosePage, Settled
    <3> QED
      BY <1>1, <3>1, <3>2, <3>3
  <2> QED
    BY <2>1 DEF AloneInv, ServerAgrees
<1> QED
  BY <1>3, <1>4, <1>5, <1>6 DEF AloneInv

LEMMA NextAlone == TypeOK /\ AgreeInv /\ AloneInv /\ [Next]_vars => AloneInv'
<1> SUFFICES ASSUME TypeOK, AgreeInv, AloneInv, [Next]_vars PROVE AloneInv'
  OBVIOUS
<1>1. CASE UNCHANGED vars
  BY <1>1, SameWorkAlone DEF vars, SameWork
<1>2. ASSUME NEW p \in Pages, LoadPage(p) \/ Reinitialize(p) PROVE AloneInv'
  BY <1>2, DetachedAlone DEF LoadPage, Reinitialize, BeginInit
<1>3. ASSUME NEW p \in Pages, NEW s \in Slots, UserSaves(p, s) \/ UserDismisses(p, s)
      PROVE  AloneInv'
  BY <1>3, OverlaySavesMap, UpdateConsentAlone
<1>4. ASSUME NEW p \in Pages, NEW s \in Slots, ScriptCalls(p, s) PROVE AloneInv'
  BY <1>4, ConstantsAssumption, UpdateConsentAlone DEF ScriptCalls, Methods
<1> QED
  BY <1>1, <1>2, <1>3, <1>4, InitStepAlone, CallStepAlone, SetIdentityAlone,
     AnswerAlone, ClosePageAlone DEF Next, CallStep

\* The API follows the browser: with nothing in progress and no request lost,
\* cut off or overlapped, it has recorded what the cookie keeps of every notice.
THEOREM ServerFollows == Spec => []ServerAgrees
<1>1. Init => AgreeInv /\ AloneInv
  BY InitAgrees, InitAlone
<1>2. TypeOK /\ AgreeInv /\ AloneInv /\ [Next]_vars => AgreeInv' /\ AloneInv'
  BY NextAgrees, NextAlone
<1>3. AloneInv => ServerAgrees
  BY DEF AloneInv
<1> QED
  BY <1>1, <1>2, <1>3, TypeCorrect, PTL DEF Spec

================================================================================
