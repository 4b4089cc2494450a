-------------------------- MODULE ConsentOverlay_proofs --------------------------
(***************************************************************************)
(* The overlay on the pages of ConsentClient.  Every step of it is a step  *)
(* of the pages, or none (OverlayImplements), so that what is proved of    *)
(* ConsentClient holds with the overlay too.  Its own two promises are     *)
(* about what the browser keeps, which other tabs write as well: they are  *)
(* proved for one tab, with any notices, offers, scripts and calls.        *)
(***************************************************************************)
EXTENDS ConsentOverlay, ConsentNotices_proofs

----------------------------------------------------------------------------
(* The overlay adds nothing to what a page may do.                         *)

\* A consent given to SavesAll, cut to the notices on offer.
Given(p, ins) == [n \in Notices |-> IF n \notin Offered(p).notices THEN "unset"
                                    ELSE IF n \in ins THEN "in" ELSE "out"]

LEMMA SavesGiven ==
    ASSUME NEW p \in Pages, NEW s \in Slots, NEW ins, NEW method, SavesAll(p, s, ins, method)
    PROVE  /\ pc[p] = "ready" /\ Quiet(p)
           /\ \A n \in Offered(p).notices : NoticeOnly(n) => n \in ins
           /\ UpdateConsent(p, s, Given(p, ins), method)
  BY DEF SavesAll, Given

LEMMA ChoiceIsSave ==
    ASSUME NEW p \in Pages, NEW s \in Slots, NEW ins, SavesAll(p, s, ins, "choice")
    PROVE  UserSaves(p, s)
<1> DEFINE cut == ins \cap Offered(p).notices
<1>1. Given(p, ins) = Given(p, cut)
  BY DEF Given
<1>2. SavesAll(p, s, cut, "choice")
  BY <1>1, SavesGiven DEF SavesAll, Given
<1> QED
  BY <1>2 DEF UserSaves

LEMMA StepIsClientStep == [OverlayNext]_allVars => [Next]_vars
<1> SUFFICES ASSUME OverlayNext PROVE Next \/ UNCHANGED vars
  BY DEF allVars
<1>1. ASSUME NEW p \in Pages,
             \/ RenderOverlay(p) \/ RunEffects(p) \/ CookieDecoded(p) \/ BannerOpens(p)
             \/ OpenModal(p) \/ \E n \in Notices : Toggle(p, n)
      PROVE  UNCHANGED vars
  BY <1>1 DEF RenderOverlay, RunEffects, CookieDecoded, BannerOpens, OpenModal, Toggle
<1>2. ASSUME NEW p \in Pages, NEW s \in Slots, Choose(p, s)
      PROVE  UserSaves(p, s)
  BY <1>2, ChoiceIsSave DEF Choose
<1>3. ASSUME NEW p \in Pages, NEW s \in Slots, Dismiss(p, s)
      PROVE  UserDismisses(p, s) \/ UNCHANGED vars
  BY <1>3 DEF Dismiss, UserDismisses, Undecided, DismissMethod
<1>4. ASSUME NEW p \in Pages, NEW s \in Slots, ScriptSpeaks(p, s) \/ Updating(p, s)
      PROVE  ScriptCalls(p, s) \/ UpdateConsentPreferences(p, s)
  BY <1>4 DEF ScriptSpeaks, Updating
<1>5. ASSUME NEW p \in Pages, InitOverlay(p) PROVE InitStep(p)
  BY <1>5 DEF InitOverlay
<1> QED
  BY <1>1, <1>2, <1>3, <1>4, <1>5 DEF OverlayNext, Next, CallStep

\* The overlay implements the client: whatever it shows, remembers or saves,
\* its executions are executions of the pages without it.
THEOREM OverlayImplements == OverlaySpec => Spec
<1>1. OverlayInit => Init
  BY DEF OverlayInit
<1> QED
  BY <1>1, StepIsClientStep, PTL DEF OverlaySpec, Spec

----------------------------------------------------------------------------
(* Types.                                                                  *)

\* The fields of a rendered overlay.
LEMMA UIFields ==
    /\ NoUI \in UI
    /\ \A u \in UI :
         /\ \A b \in {"absent", "waiting", "rendered", "never", "due", "open", "closed"} :
              [u EXCEPT !.banner = b] \in UI
         /\ \A x \in BOOLEAN : /\ [u EXCEPT !.modal = x] \in UI
                               /\ [u EXCEPT !.listening = x] \in UI
                               /\ [u EXCEPT !.unsaid = x] \in UI
                               /\ [u EXCEPT !.decoded = x] \in UI
         /\ \A d \in SUBSET Notices : /\ [u EXCEPT !.draft = d] \in UI
                                      /\ [u EXCEPT !.parsed = d] \in UI
  BY DEF NoUI, UI

LEMMA OverlayInitTypes == OverlayInit => OverlayTypeOK
  BY InitTypes, UIFields DEF OverlayInit, OverlayTypeOK, Nothing, Consents

LEMMA OfferedTypes ==
    ASSUME TypeOK, NEW p \in Pages
    PROVE  /\ Offered(p).notices \subseteq Notices
           /\ \A c : Enabled(Offered(p), c) \subseteq Notices
           /\ \A c : Keys(c) \subseteq Notices
           /\ \A ins : Given(p, ins) \in Consents
<1>1. Offered(p) \in Offer
  BY DEF TypeOK, Visit, Offered
<1> QED
  BY <1>1 DEF Offer, Enabled, Keys, Given, Consents, Choice

\* Rendering, the timer and the toggles.
LEMMA RenderTypes ==
    ASSUME OverlayTypeOK, NEW p \in Pages,
           \/ RenderOverlay(p) \/ RunEffects(p) \/ CookieDecoded(p) \/ BannerOpens(p)
           \/ OpenModal(p) \/ \E n \in Notices : Toggle(p, n)
    PROVE  ui' \in [Pages -> UI]
<1>1. ui \in [Pages -> UI] /\ ui[p] \in UI
  BY DEF OverlayTypeOK
<1>2. CASE RenderOverlay(p)
  <2>1. Enabled(Offered(p), cookie[p].consent) \subseteq Notices
    BY OfferedTypes DEF OverlayTypeOK
  <2> QED
    BY <1>1, <1>2, <2>1 DEF RenderOverlay, UI
<1>3. CASE RunEffects(p)
  <2>1. Keys(jar.cookie.consent) \subseteq Notices
    BY OfferedTypes DEF OverlayTypeOK
  <2> QED
    BY <1>1, <1>3, <2>1, ConstantsAssumption DEF RunEffects, UI
<1>4. CASE CookieDecoded(p) \/ BannerOpens(p)
  BY <1>1, <1>4, UIFields DEF CookieDecoded, BannerOpens
<1>6. CASE OpenModal(p)
  <2>1. PICK b \in {"absent", "waiting", "rendered", "never", "due", "open", "closed"} :
          ui' = [ui EXCEPT ![p].modal = TRUE, ![p].banner = b]
    BY <1>1, <1>6 DEF OpenModal, UI
  <2>2. [ui[p] EXCEPT !.modal = TRUE, !.banner = b] \in UI
    BY <1>1 DEF UI
  <2> QED
    BY <1>1, <2>1, <2>2
<1>5. CASE \E n \in Notices : Toggle(p, n)
  <2>1. PICK n \in Notices : Toggle(p, n)
    BY <1>5
  <2>2. PICK d \in SUBSET Notices : ui' = [ui EXCEPT ![p].draft = d]
    <3>1. /\ ui[p].draft \cup {n} \in SUBSET Notices
          /\ ui[p].draft \ {n} \in SUBSET Notices
      BY <1>1 DEF UI
    <3> QED
      BY <2>1, <3>1 DEF Toggle
  <2>3. [ui[p] EXCEPT !.draft = d] \in UI
    BY <1>1, UIFields
  <2> QED
    BY <1>1, <2>2, <2>3
<1> QED
  BY <1>2, <1>3, <1>4, <1>5, <1>6

\* What the visitor closes, with or without new toggles.
LEMMA CloseTypes ==
    ASSUME OverlayTypeOK, NEW p \in Pages,
           Closes(p) \/ \E ins \in SUBSET Notices : ClosesWith(p, ins)
    PROVE  /\ ui' \in [Pages -> UI]
           /\ ui'[p].parsed = ui[p].parsed
<1>1. ui \in [Pages -> UI] /\ ui[p] \in UI
  BY DEF OverlayTypeOK
<1>2. CASE Closes(p)
  <2>1. PICK u \in UI : ui' = [ui EXCEPT ![p] = u] /\ u.parsed = ui[p].parsed
    <3>1. /\ [ui[p] EXCEPT !.banner = "closed"] \in UI
          /\ [ui[p] EXCEPT !.modal = FALSE] \in UI
      BY <1>1, UIFields
    <3> QED
      BY <1>1, <1>2, <3>1 DEF Closes, UI
  <2> QED
    BY <1>1, <2>1
<1>3. ASSUME NEW ins \in SUBSET Notices, ClosesWith(p, ins)
      PROVE  ui' \in [Pages -> UI] /\ ui'[p].parsed = ui[p].parsed
  <2>1. PICK u \in UI : ui' = [ui EXCEPT ![p] = u] /\ u.parsed = ui[p].parsed
    <3> DEFINE v == [ui[p] EXCEPT !.banner = "closed", !.draft = ins]
               w == [ui[p] EXCEPT !.modal = FALSE, !.draft = ins]
    <3>1. v \in UI /\ w \in UI /\ v.parsed = ui[p].parsed /\ w.parsed = ui[p].parsed
      BY <1>1 DEF UI
    <3>2. ui' = [ui EXCEPT ![p] = v] \/ ui' = [ui EXCEPT ![p] = w]
      BY <1>1, <1>3 DEF ClosesWith
    <3> HIDE DEF v, w
    <3> QED
      BY <3>1, <3>2
  <2> QED
    BY <1>1, <2>1
<1> QED
  BY <1>2, <1>3

LEMMA ChoicesTypes ==
    ASSUME OverlayTypeOK, NEW p \in Pages
    PROVE  \A ins \in Choices(p) : ins \in SUBSET Notices
<1>1. Offered(p).notices \subseteq Notices
  BY OfferedTypes DEF OverlayTypeOK
<1>2. ui[p].draft \subseteq Notices
  BY DEF OverlayTypeOK, UI
<1> QED
  BY <1>1, <1>2 DEF Choices

\* One step of the overlay keeps the types.
LEMMA OverlayNextTypes == OverlayTypeOK /\ [OverlayNext]_allVars => OverlayTypeOK'
<1> SUFFICES ASSUME OverlayTypeOK, [OverlayNext]_allVars PROVE OverlayTypeOK'
  OBVIOUS
<1>1. TypeOK'
  BY StepIsClientStep, NextTypes DEF OverlayTypeOK
<1>2. /\ ui \in [Pages -> UI] /\ closed \in [Pages -> BOOLEAN]
      /\ chosen \in [Pages -> Consents] /\ Nothing \in Consents
  BY DEF OverlayTypeOK, Nothing, Consents
<1> DEFINE Goal == ui' \in [Pages -> UI] /\ closed' \in [Pages -> BOOLEAN]
                   /\ chosen' \in [Pages -> Consents]
<1>3. ASSUME UNCHANGED allVars PROVE Goal
  BY <1>2, <1>3 DEF allVars, overlayVars
<1>4. ASSUME NEW p \in Pages, NoOverlay(p) PROVE Goal
  BY <1>2, <1>4, UIFields DEF NoOverlay
<1>5. ASSUME NEW p \in Pages, InitOverlay(p) PROVE Goal
  <2>1. \A b \in BOOLEAN : [NoUI EXCEPT !.banner = "waiting", !.unsaid = b] \in UI
    BY DEF NoUI, UI
  <2> QED
    BY <1>2, <1>5, <2>1 DEF InitOverlay
<1>6. ASSUME NEW p \in Pages,
             \/ RenderOverlay(p) \/ RunEffects(p) \/ CookieDecoded(p) \/ BannerOpens(p)
             \/ OpenModal(p) \/ \E n \in Notices : Toggle(p, n)
      PROVE  Goal
  <2>1. UNCHANGED <<closed, chosen>>
    BY <1>6 DEF RenderOverlay, RunEffects, CookieDecoded, BannerOpens, OpenModal, Toggle
  <2> QED
    BY <1>2, <1>6, <2>1, RenderTypes
<1>7. ASSUME NEW p \in Pages, NEW s \in Slots, Choose(p, s) PROVE Goal
  <2>1. PICK ins \in Choices(p) :
          ClosesWith(p, ins) /\ chosen' = [chosen EXCEPT ![p] = Given(p, ins)]
    BY <1>7 DEF Choose, Given
  <2>2. Given(p, ins) \in Consents /\ ins \in SUBSET Notices
    BY OfferedTypes, ChoicesTypes DEF OverlayTypeOK
  <2>3. closed' = [closed EXCEPT ![p] = TRUE]
    BY <1>7 DEF Choose
  <2>4. ui' \in [Pages -> UI]
    BY <2>1, <2>2, CloseTypes
  <2> QED
    BY <1>2, <2>1, <2>2, <2>3, <2>4
<1>8. ASSUME NEW p \in Pages, NEW s \in Slots, Dismiss(p, s) PROVE Goal
  <2>1. Undecided(p) \in SUBSET Notices
    BY OfferedTypes DEF OverlayTypeOK, Undecided
  <2>2. ui' \in [Pages -> UI]
    BY <1>8, <2>1, CloseTypes DEF Dismiss
  <2>3. closed' = [closed EXCEPT ![p] = TRUE] /\ UNCHANGED chosen
    BY <1>8 DEF Dismiss
  <2> QED
    BY <1>2, <2>2, <2>3
<1>9. ASSUME NEW p \in Pages, NEW s \in Slots, ScriptSpeaks(p, s) PROVE Goal
  BY <1>2, <1>9 DEF ScriptSpeaks
<1>10. ASSUME NEW p \in Pages, NEW s \in Slots, Updating(p, s) PROVE Goal
  <2>1. Enabled(Offered(p), cookie'[p].consent) \subseteq Notices
    BY OfferedTypes DEF OverlayTypeOK
  <2>2. \A d \in SUBSET Notices : [ui[p] EXCEPT !.listening = FALSE, !.draft = d] \in UI
    BY <1>2 DEF UI
  <2> QED
    BY <1>2, <1>10, <2>1, <2>2 DEF Updating
<1>11. ASSUME UNCHANGED overlayVars PROVE Goal
  BY <1>2, <1>11 DEF overlayVars
<1>12. Goal
  BY <1>3, <1>4, <1>5, <1>6, <1>7, <1>8, <1>9, <1>10, <1>11 DEF OverlayNext
<1> QED
  BY <1>1, <1>12 DEF OverlayTypeOK

\* Type correctness with the overlay: what it remembers is made of notices, and
\* what the visitor chose is a consent map.
THEOREM OverlayTypes == OverlaySpec => []OverlayTypeOK
  BY OverlayInitTypes, OverlayNextTypes, PTL DEF OverlaySpec

----------------------------------------------------------------------------
(* What closing the overlay leaves in the browser.  Neither promise is      *)
(* inductive: a choice is on its way through a call, the cookie of the      *)
(* page and its compression before it is in the jar, and the dismissal of   *)
(* a later banner relies on keys read from the jar long before.             *)

\* One tab: what the jar has was written by this page or an earlier visit.
OneTab == \A p, q \in Pages : p = q

Recorded(p) == Complete(jar.cookie.consent, Offered(p))
Writing(p)  == \E s \in Slots : calls[p][s].stage \in {"called", "encoding"}

\* The notices on offer as the visitor chose them.
\* The overlay chooses for every notice on offer, and gives the notice-only ones.
AsChosen(c, p) ==
    \A n \in Offered(p).notices :
        /\ c[n] = chosen[p][n] /\ c[n] # "unset"
        /\ NoticeOnly(n) => c[n] = "in"

NotYet(p) == pc[p] # "ready" => ~closed[p] /\ chosen[p] = Nothing

ClosedSaves(p) == closed[p] => Recorded(p) \/ Writing(p)

\* What was read from the cookie is there still.
ParsedStays(p) == Offered(p).notices \subseteq ui[p].parsed => Recorded(p)

ChoiceKept(p) ==
    chosen[p] # Nothing =>
        /\ \A s \in Slots : calls[p][s].stage = "called" => AsChosen(calls[p][s].cookie.consent, p)
        /\ Quiet(p) => AsChosen(cookie[p].consent, p)
        /\ ~Writing(p) => AsChosen(jar.cookie.consent, p)

Kept(p) == ClosedSaves(p) /\ ParsedStays(p) /\ ChoiceKept(p)

OverlayInv == \A p \in Pages : NotYet(p) /\ (pc[p] = "ready" /\ clean[p] => Kept(p))

LEMMA RecordedKeys ==
    ASSUME TypeOK, NEW p \in Pages
    PROVE  Recorded(p) <=> Offered(p).notices \subseteq Keys(jar.cookie.consent)
<1>1. Offered(p).notices \subseteq Notices
  BY OfferedTypes
<1> QED
  BY <1>1 DEF Recorded, Complete, Keys

LEMMA InitKeeps == OverlayInit => OverlayInv
  BY DEF OverlayInit, Init, OverlayInv, NotYet

\* A step that neither begins nor ends a save.
LEMMA NothingSaved ==
    ASSUME NEW p \in Pages, Kept(p),
           jar' = jar, visit' = visit, cookie' = cookie,
           closed'[p] = closed[p] \/ Recorded(p), chosen' = chosen,
           ui'[p].parsed = ui[p].parsed \/ Recorded(p)
             \/ ~(Offered(p).notices \subseteq ui'[p].parsed),
           \A s \in Slots :
             \/ /\ calls'[p][s].stage = calls[p][s].stage
                /\ calls'[p][s].cookie = calls[p][s].cookie
             \/ {calls'[p][s].stage, calls[p][s].stage} \subseteq {"idle", "patching"}
    PROVE  Kept(p)'
<1>1. /\ Offered(p)' = Offered(p) /\ Recorded(p)' = Recorded(p)
      /\ Writing(p)' = Writing(p) /\ Quiet(p)' = Quiet(p)
  BY DEF Offered, Recorded, Complete, Writing, Quiet
<1>2. ClosedSaves(p)' /\ ParsedStays(p)'
  BY <1>1 DEF Kept, ClosedSaves, ParsedStays
<1>3. ChoiceKept(p)'
  BY <1>1 DEF Kept, ChoiceKept, AsChosen
<1> QED
  BY <1>2, <1>3 DEF Kept

\* updateConsent: the new call, and what it leaves alone.
LEMMA CallBegins ==
    ASSUME TypeOK, NEW p \in Pages, NEW s \in Slots, NEW given \in Consents,
           NEW method \in Methods, UpdateConsent(p, s, given, method)
    PROVE  /\ calls'[p][s].stage = "called"
           /\ calls'[p][s].cookie.consent
                = Only(Spread(cookie[p].consent, given), Offered(p).notices)
           /\ \A x \in Slots \ {s} : /\ calls'[p][x].stage = calls[p][x].stage
                                     /\ calls'[p][x].cookie = calls[p][x].cookie
           /\ UNCHANGED <<jar, pageVars, clean>>
<1> DEFINE c == CookieFromNoticePreferences(
                  Spread(cookie[p].consent, given), method, Offered(p))
           w == [Idle EXCEPT !.stage = "called", !.kind = "update",
                             !.alone = AllSettled, !.cookie = c]
<1>1. w.stage = "called" /\ w.cookie = c
  BY DEF Idle
<1>2. c.consent = Only(Spread(cookie[p].consent, given), Offered(p).notices)
  BY DEF CookieFromNoticePreferences
<1>3. calls' = [OthersNotAlone EXCEPT ![p][s] = w] /\ UNCHANGED <<jar, pageVars, clean>>
  BY DEF UpdateConsent
<1> HIDE DEF c, w
<1>4. \A x \in Slots : calls'[p][x] = IF x = s THEN w ELSE OthersNotAlone[p][x]
  BY <1>3, NotAloneKept
<1>5. \A x \in Slots : SameWork(OthersNotAlone[p][x], calls[p][x])
  BY NotAloneKept
<1> QED
  BY <1>1, <1>2, <1>3, <1>4, <1>5 DEF SameWork

LEMMA BeginKeeps ==
    ASSUME TypeOK, NEW p \in Pages, NEW s \in Slots, NEW given \in Consents,
           NEW method \in Methods, UpdateConsent(p, s, given, method),
           pc[p] = "ready" /\ clean[p] => Kept(p),
           ui'[p].parsed = ui[p].parsed,
           \/ chosen'[p] = Nothing
           \/ Quiet(p) /\ Complete(given, Offered(p))
              /\ \A n \in Offered(p).notices : given[n] = chosen'[p][n]
    PROVE  (pc[p] = "ready" /\ clean[p])' => Kept(p)'
<1> SUFFICES ASSUME pc'[p] = "ready", clean'[p] PROVE Kept(p)'
  OBVIOUS
<1>1. /\ calls'[p][s].stage = "called"
      /\ calls'[p][s].cookie.consent
           = Only(Spread(cookie[p].consent, given), Offered(p).notices)
      /\ \A x \in Slots \ {s} : /\ calls'[p][x].stage = calls[p][x].stage
                                /\ calls'[p][x].cookie = calls[p][x].cookie
      /\ UNCHANGED <<jar, pageVars, clean>>
  BY CallBegins
<1>2. Offered(p)' = Offered(p) /\ Recorded(p)' = Recorded(p) /\ Kept(p)
  BY <1>1 DEF Offered, Recorded, Complete, pageVars
<1>3. Writing(p)' /\ ~Quiet(p)'
  BY <1>1 DEF Writing, Quiet
<1>4. ClosedSaves(p)' /\ ParsedStays(p)'
  BY <1>2, <1>3 DEF Kept, ClosedSaves, ParsedStays
<1>5. ChoiceKept(p)'
  <2> SUFFICES ASSUME chosen'[p] # Nothing, NEW x \in Slots, calls'[p][x].stage = "called",
                      NEW n \in Offered(p).notices
               PROVE  /\ calls'[p][x].cookie.consent[n] = chosen'[p][n]
                      /\ calls'[p][x].cookie.consent[n] # "unset"
                      /\ NoticeOnly(n) => calls'[p][x].cookie.consent[n] = "in"
    BY <1>2, <1>3 DEF ChoiceKept, AsChosen
  <2>1. x = s
    BY <1>1 DEF Quiet
  <2>2. n \in Notices
    BY OfferedTypes
  <2>3. given[n] = chosen'[p][n] /\ given[n] # "unset"
    BY DEF Complete
  <2>4. NoticeOnly(n) => given[n] = "in"
    BY <2>2, <2>3 DEF UpdateConsent, Valid, Keys
  <2> QED
    BY <1>1, <2>1, <2>2, <2>3, <2>4 DEF Only, Spread
<1> QED
  BY <1>4, <1>5 DEF Kept

\* A choice is what its call carries.
LEMMA ChooseKeeps ==
    ASSUME OverlayTypeOK, NEW p \in Pages, NEW s \in Slots, Choose(p, s),
           pc[p] = "ready" /\ clean[p] => Kept(p)
    PROVE  (pc[p] = "ready" /\ clean[p])' => Kept(p)'
<1>1. PICK ins \in Choices(p) :
        /\ SavesAll(p, s, ins, "choice") /\ ClosesWith(p, ins)
        /\ chosen' = [chosen EXCEPT ![p] = Given(p, ins)]
  BY DEF Choose, Given
<1>2. Given(p, ins) \in Consents /\ ins \in SUBSET Notices
  BY OfferedTypes, ChoicesTypes DEF OverlayTypeOK
<1>3. UpdateConsent(p, s, Given(p, ins), "choice") /\ Quiet(p)
  BY <1>1, SavesGiven
<1>4. ui'[p].parsed = ui[p].parsed
  BY <1>1, <1>2, CloseTypes
<1>5. chosen'[p] = Given(p, ins)
  BY <1>1 DEF OverlayTypeOK
<1>6. Complete(Given(p, ins), Offered(p))
  BY OfferedTypes DEF OverlayTypeOK, Complete, Given
<1> QED
  BY <1>2, <1>3, <1>4, <1>5, <1>6, BeginKeeps DEF OverlayTypeOK, Methods

\* A dismissal saves what was chosen over again, since the cookie of the page
\* has it, or what nobody chose.
LEMMA DismissKeeps ==
    ASSUME OverlayTypeOK, NEW p \in Pages, NEW s \in Slots, Dismiss(p, s),
           pc[p] = "ready" /\ clean[p] => Kept(p)
    PROVE  (pc[p] = "ready" /\ clean[p])' => Kept(p)'
<1> SUFFICES ASSUME (pc[p] = "ready" /\ clean[p])' PROVE Kept(p)'
  OBVIOUS
<1>1. TypeOK /\ chosen'[p] = chosen[p] /\ chosen' = chosen
  BY DEF OverlayTypeOK, Dismiss
<1>2. CASE NothingToRecord(p) /\ Closes(p) /\ UNCHANGED vars
  <2>1. Kept(p) /\ UNCHANGED <<jar, visit, cookie, calls>>
    BY <1>2 DEF vars, pageVars, history
  <2>2. Recorded(p)
    BY <1>2, <2>1 DEF NothingToRecord, Kept, ParsedStays
  <2>3. ui'[p].parsed = ui[p].parsed
    BY <1>2, CloseTypes
  <2> QED
    BY <1>1, <2>1, <2>2, <2>3, NothingSaved
<1>3. CASE SavesAll(p, s, Undecided(p), DismissMethod) /\ ClosesWith(p, Undecided(p))
  <2> DEFINE given == Given(p, Undecided(p))
  <2>1. given \in Consents /\ Undecided(p) \in SUBSET Notices
    BY <1>1, OfferedTypes DEF Undecided
  <2>2. UpdateConsent(p, s, given, "dismiss") /\ Quiet(p) /\ pc[p] = "ready"
    BY <1>3, SavesGiven DEF DismissMethod
  <2>3. clean[p]
    BY <2>2 DEF UpdateConsent
  <2>4. ui'[p].parsed = ui[p].parsed
    BY <1>3, <2>1, CloseTypes
  <2>5. Complete(given, Offered(p))
    BY <1>1, OfferedTypes DEF Complete, Given
  <2>6. chosen[p] = Nothing \/ \A n \in Offered(p).notices : given[n] = chosen[p][n]
    <3> SUFFICES ASSUME chosen[p] # Nothing, NEW n \in Offered(p).notices
                 PROVE  given[n] = chosen[p][n]
      OBVIOUS
    <3>1. AsChosen(cookie[p].consent, p)
      BY <2>2, <2>3 DEF Kept, ChoiceKept
    <3>2. n \in Notices /\ cookie[p].consent[n] \in Choice
      <4>1. cookie[p].consent \in Consents
        BY <1>1, CookieParts DEF TypeOK
      <4> QED
        BY <1>1, <3>1, <4>1, OfferedTypes DEF AsChosen, Consents, Choice
    <3>3. NoticeOnly(n) => cookie[p].consent[n] = "in"
      BY <3>1 DEF AsChosen
    <3>4. n \in Undecided(p) <=> cookie[p].consent[n] = "in"
      BY <3>2, <3>3 DEF Undecided, Enabled, Choice
    <3> QED
      BY <3>1, <3>2, <3>4 DEF AsChosen, Given, Choice
  <2> HIDE DEF given
  <2> QED
    BY <1>1, <2>1, <2>2, <2>4, <2>5, <2>6, BeginKeeps DEF Methods
<1> QED
  BY <1>2, <1>3 DEF Dismiss

LEMMA ScriptKeeps ==
    ASSUME OverlayTypeOK, NEW p \in Pages, NEW s \in Slots, ScriptSpeaks(p, s),
           pc[p] = "ready" /\ clean[p] => Kept(p)
    PROVE  (pc[p] = "ready" /\ clean[p])' => Kept(p)'
<1>1. PICK given \in ScriptConsents : UpdateConsent(p, s, given, "script")
  BY DEF ScriptSpeaks, ScriptCalls
<1>2. given \in Consents /\ ui' = ui /\ chosen'[p] = Nothing
  BY ConstantsAssumption DEF ScriptSpeaks, OverlayTypeOK
<1> QED
  BY <1>1, <1>2, BeginKeeps DEF OverlayTypeOK, Methods

\* A save that reaches the page or the browser: of a cookie whose consent is
\* complete and, when the visitor chose, the one that was chosen.
LEMMA SaveKeeps ==
    ASSUME NEW p \in Pages, Kept(p), visit' = visit,
           closed'[p] = closed[p], chosen' = chosen, ui'[p].parsed = ui[p].parsed,
           NEW c, Complete(c, Offered(p)), chosen[p] # Nothing => AsChosen(c, p),
           \A s \in Slots : calls'[p][s].stage = "called" =>
             calls[p][s].stage = "called" /\ calls'[p][s].cookie = calls[p][s].cookie,
           Quiet(p)' => cookie'[p].consent = c,
           \/ jar'.cookie.consent = c
           \/ jar' = jar /\ Writing(p)'
    PROVE  Kept(p)'
<1>1. Offered(p)' = Offered(p)
  BY DEF Offered
<1>2. Recorded(p) => Recorded(p)'
  BY <1>1 DEF Recorded, Complete
<1>3. Recorded(p)' \/ Writing(p)'
  BY <1>1 DEF Recorded, Complete
<1>4. ClosedSaves(p)'
  BY <1>3 DEF ClosedSaves
<1>5. ParsedStays(p)'
  BY <1>1, <1>2 DEF Kept, ParsedStays
<1>6. ChoiceKept(p)'
  <2> SUFFICES ASSUME chosen[p] # Nothing
               PROVE  /\ \A s \in Slots : calls'[p][s].stage = "called"
                                            => AsChosen(calls[p][s].cookie.consent, p)
                      /\ AsChosen(c, p)
    BY <1>1 DEF ChoiceKept, AsChosen
  <2> QED
    BY DEF Kept, ChoiceKept
<1> QED
  BY <1>4, <1>5, <1>6 DEF Kept

LEMMA UpdatingKeeps ==
    ASSUME OverlayTypeOK, NoticeInv, NEW p \in Pages, NEW s \in Slots, Updating(p, s),
           pc[p] = "ready" /\ clean[p] => Kept(p)
    PROVE  (pc[p] = "ready" /\ clean[p])' => Kept(p)'
<1> SUFFICES ASSUME (pc[p] = "ready" /\ clean[p])' PROVE Kept(p)'
  OBVIOUS
<1> DEFINE c == calls[p][s].cookie
<1>1. /\ TypeOK /\ UpdateConsentPreferences(p, s)
      /\ UNCHANGED <<visit, pc, closed, chosen>>
  BY DEF OverlayTypeOK, Updating, UpdateConsentPreferences
<1>2. pc[p] = "ready" /\ clean[p] /\ calls[p][s].stage = "called" /\ cookie'[p] = c
  BY <1>1 DEF UpdateConsentPreferences, TypeOK
<1>3. Kept(p) /\ Complete(c.consent, Offered(p))
  BY <1>2 DEF NoticeInv, PageStands, CallsAreWhole
<1>4. chosen[p] # Nothing => AsChosen(c.consent, p)
  BY <1>2, <1>3 DEF Kept, ChoiceKept
<1>5. ui'[p].parsed = ui[p].parsed
  BY DEF Updating, OverlayTypeOK, UI
<1>6. PICK st \in {"encoding", "patching"} :
        /\ calls' = [calls EXCEPT ![p][s].stage = st]
        /\ (st = "encoding" /\ jar' = jar) \/ jar'.cookie = c
  <2>1. CASE Compressed
    BY <1>1, <2>1 DEF UpdateConsentPreferences
  <2>2. CASE ~Compressed
    <3>1. jar'.cookie = c
      BY <1>1, <2>2 DEF UpdateConsentPreferences, Write
    <3> QED
      BY <1>1, <2>2, <3>1 DEF UpdateConsentPreferences
  <2> QED
    BY <2>1, <2>2
<1>7. /\ calls'[p][s].stage = st
      /\ \A x \in Slots : x # s => calls'[p][x] = calls[p][x]
  <2>1. [calls[p][s] EXCEPT !.stage = st].stage = st
    BY <1>1 DEF TypeOK, Work
  <2> QED
    BY <1>1, <1>6, <2>1 DEF TypeOK
<1>8. \A x \in Slots : calls'[p][x].stage = "called" =>
        calls[p][x].stage = "called" /\ calls'[p][x].cookie = calls[p][x].cookie
  <2>1. st # "called"
    BY <1>6
  <2> QED
    BY <1>7, <2>1
<1>9. jar'.cookie.consent = c.consent \/ (jar' = jar /\ Writing(p)')
  <2>1. st = "encoding" => Writing(p)'
    BY <1>7 DEF Writing
  <2> HIDE DEF c
  <2> QED
    BY <1>6, <2>1
<1> HIDE DEF c
<1> QED
  BY <1>1, <1>2, <1>3, <1>4, <1>5, <1>8, <1>9, SaveKeeps

LEMMA IdentityKeeps ==
    ASSUME OverlayTypeOK, NoticeInv, NEW p \in Pages, NEW s \in Slots,
           SetIdentity(p, s), UNCHANGED overlayVars,
           pc[p] = "ready" /\ clean[p] => Kept(p)
    PROVE  (pc[p] = "ready" /\ clean[p])' => Kept(p)'
<1> SUFFICES ASSUME (pc[p] = "ready" /\ clean[p])' PROVE Kept(p)'
  OBVIOUS
<1> DEFINE w == [Idle EXCEPT !.stage = "encoding", !.kind = "identity", !.cookie = cookie[p]]
<1>1. w.stage = "encoding"
  BY DEF Idle
<1>2. /\ \/ calls' = [OthersNotAlone EXCEPT ![p][s] = w] /\ jar' = jar
         \/ calls' = OthersNotAlone /\ jar'.cookie = cookie[p]
      /\ UNCHANGED <<visit, cookie, pc, ui, closed, chosen>> /\ Quiet(p) /\ TypeOK
  BY DEF SetIdentity, Write, pageVars, overlayVars, OverlayTypeOK
<1> HIDE DEF w
<1>3. pc[p] = "ready" /\ clean[p]
  BY <1>2 DEF SetIdentity, TypeOK
<1>4. Kept(p) /\ Complete(cookie[p].consent, Offered(p))
  BY <1>3 DEF NoticeInv, PageStands, ReadyIsComplete
<1>5. chosen[p] # Nothing => AsChosen(cookie[p].consent, p)
  BY <1>2, <1>4 DEF Kept, ChoiceKept
<1>6. \A x \in Slots :
        \/ x = s /\ calls' = [OthersNotAlone EXCEPT ![p][s] = w] /\ calls'[p][x] = w
        \/ calls'[p][x].stage = calls[p][x].stage
  <2>1. /\ OthersNotAlone \in [Pages -> [Slots -> Work]]
        /\ \A x \in Slots : OthersNotAlone[p][x].stage = calls[p][x].stage
    BY <1>2, NotAloneKept DEF SameWork
  <2>2. CASE calls' = [OthersNotAlone EXCEPT ![p][s] = w]
    <3>1. \A x \in Slots : calls'[p][x] = IF x = s THEN w ELSE OthersNotAlone[p][x]
      BY <2>1, <2>2
    <3> QED
      BY <2>1, <2>2, <3>1
  <2>3. CASE calls' = OthersNotAlone
    BY <2>1, <2>3
  <2> QED
    BY <1>2, <2>2, <2>3
<1>7. \A x \in Slots : calls'[p][x].stage # "called"
  BY <1>1, <1>2, <1>6 DEF Quiet
<1>8. jar'.cookie = cookie[p] \/ (jar' = jar /\ Writing(p)')
  <2>1. calls' = [OthersNotAlone EXCEPT ![p][s] = w] => calls'[p][s] = w
    <3>1. OthersNotAlone \in [Pages -> [Slots -> Work]]
      BY <1>2, NotAloneKept
    <3> QED
      BY <3>1
  <2>2. calls'[p][s] = w => Writing(p)'
    BY <1>1 DEF Writing
  <2> QED
    BY <1>2, <2>1, <2>2
<1> QED
  BY <1>2, <1>4, <1>5, <1>7, <1>8, SaveKeeps

LEMMA EncodedKeeps ==
    ASSUME OverlayTypeOK, NoticeInv, AgreeInv, NEW p \in Pages, NEW s \in Slots,
           CookieEncoded(p, s), UNCHANGED overlayVars,
           pc[p] = "ready" /\ clean[p] => Kept(p)
    PROVE  (pc[p] = "ready" /\ clean[p])' => Kept(p)'
<1> SUFFICES ASSUME (pc[p] = "ready" /\ clean[p])' PROVE Kept(p)'
  OBVIOUS
<1>1. /\ UNCHANGED <<visit, cookie, pc, clean, ui, closed, chosen>> /\ Quiet(p) /\ TypeOK
      /\ calls[p][s].stage = "encoding" /\ jar'.cookie = calls[p][s].cookie
  BY DEF CookieEncoded, Write, overlayVars, OverlayTypeOK
<1>2. jar'.cookie = cookie[p]
  BY <1>1 DEF AgreeInv, PageAgrees, NothingCrossed, EncodesItsCookie
<1>3. Kept(p) /\ Complete(cookie[p].consent, Offered(p))
  BY <1>1 DEF NoticeInv, PageStands, ReadyIsComplete
<1>4. chosen[p] # Nothing => AsChosen(cookie[p].consent, p)
  BY <1>1, <1>3 DEF Kept, ChoiceKept
<1>5. \A x \in Slots : calls'[p][x].stage # "called"
  <2>1. Idle.stage = "idle" /\ [calls[p][s] EXCEPT !.stage = "patching"].stage = "patching"
    BY <1>1 DEF Idle, TypeOK, Work
  <2>2. \/ calls' = [calls EXCEPT ![p][s] = [calls[p][s] EXCEPT !.stage = "patching"]]
        \/ calls' = [calls EXCEPT ![p][s] = Idle]
    BY <1>1 DEF CookieEncoded
  <2>3. \A x \in Slots :
          calls'[p][x] \in IF x = s THEN {Idle, [calls[p][s] EXCEPT !.stage = "patching"]}
                         ELSE {calls[p][x]}
    BY <1>1, <2>2 DEF TypeOK
  <2> QED
    BY <1>1, <2>1, <2>3 DEF Quiet
<1> QED
  BY <1>1, <1>2, <1>3, <1>4, <1>5, SaveKeeps

\* An answer ends a call that no longer writes.
LEMMA AnsweredKeeps ==
    ASSUME OverlayTypeOK, NEW p \in Pages, UNCHANGED overlayVars,
           AutomatedAnswered(p) \/ \E s \in Slots : PatchAnswered(p, s),
           pc[p] = "ready" /\ clean[p] => Kept(p)
    PROVE  (pc[p] = "ready" /\ clean[p])' => Kept(p)'
<1>1. TypeOK /\ UNCHANGED <<jar, visit, cookie, pc, clean, ui, closed, chosen>>
  BY DEF OverlayTypeOK, overlayVars, PatchAnswered, AutomatedAnswered, pageVars, history
<1>2. ASSUME NEW x \in Slots
      PROVE  \/ calls'[p][x] = calls[p][x]
             \/ calls'[p][x] = Idle /\ calls[p][x].stage = "patching"
  BY <1>1 DEF PatchAnswered, AutomatedAnswered, TypeOK
<1>3. Idle.stage = "idle"
  BY DEF Idle
<1>4. \A x \in Slots :
        \/ /\ calls'[p][x].stage = calls[p][x].stage
           /\ calls'[p][x].cookie = calls[p][x].cookie
        \/ {calls'[p][x].stage, calls[p][x].stage} \subseteq {"idle", "patching"}
  BY <1>2, <1>3
<1> QED
  BY <1>1, <1>4, NothingSaved

\* Rendering, the timer and the toggles; the effects read the jar.
LEMMA RenderKeeps ==
    ASSUME OverlayTypeOK, NEW p \in Pages,
           \/ RenderOverlay(p) \/ RunEffects(p) \/ CookieDecoded(p) \/ BannerOpens(p)
           \/ OpenModal(p) \/ \E n \in Notices : Toggle(p, n),
           pc[p] = "ready" /\ clean[p] => Kept(p)
    PROVE  (pc[p] = "ready" /\ clean[p])' => Kept(p)'
<1>1. TypeOK /\ ui[p] \in UI /\ UNCHANGED <<vars, closed, chosen>>
  BY DEF OverlayTypeOK, RenderOverlay, RunEffects, CookieDecoded, BannerOpens, OpenModal, Toggle
<1>2. ui'[p].parsed \in {ui[p].parsed, Keys(jar.cookie.consent)}
  BY <1>1 DEF OverlayTypeOK, UI, RenderOverlay, RunEffects, CookieDecoded, BannerOpens,
     OpenModal, Toggle
<1>3. ui'[p].parsed = ui[p].parsed \/ Recorded(p) \/ ~(Offered(p).notices \subseteq ui'[p].parsed)
  BY <1>1, <1>2, RecordedKeys
<1> QED
  BY <1>1, <1>3, NothingSaved DEF vars, pageVars, history

LEMMA NewOverlayKeeps ==
    ASSUME OverlayTypeOK, NEW p \in Pages, InitOverlay(p), NotYet(p)
    PROVE  NotYet(p)' /\ ((pc[p] = "ready" /\ clean[p])' => Kept(p)')
<1>1. ~closed[p] /\ chosen[p] = Nothing /\ UNCHANGED <<closed, chosen>>
  BY DEF InitOverlay, InitStep, Locate, FetchExperience, FinishInitialize, NotYet
<1>2. NotYet(p)'
  BY <1>1 DEF NotYet
<1>3. ASSUME pc'[p] = "ready" PROVE Kept(p)'
  <2>1. ui'[p].parsed = {}
    BY <1>3 DEF InitOverlay, NoUI, OverlayTypeOK
  <2>2. ParsedStays(p)'
    BY <2>1 DEF ParsedStays, Recorded, Complete
  <2> QED
    BY <1>1, <2>2 DEF Kept, ClosedSaves, ChoiceKept
<1> QED
  BY <1>2, <1>3

LEMMA OverlayNextKeeps ==
    ASSUME OneTab
    PROVE  OverlayTypeOK /\ NoticeInv /\ AgreeInv /\ OverlayInv /\ [OverlayNext]_allVars
             => OverlayInv'
<1> SUFFICES ASSUME OverlayTypeOK, NoticeInv, AgreeInv, OverlayInv, [OverlayNext]_allVars,
                    NEW p \in Pages
             PROVE  NotYet(p)' /\ ((pc[p] = "ready" /\ clean[p])' => Kept(p)')
  BY DEF OverlayInv
<1>1. NotYet(p) /\ (pc[p] = "ready" /\ clean[p] => Kept(p))
  BY DEF OverlayInv
<1> DEFINE Goal == (pc[p] = "ready" /\ clean[p])' => Kept(p)'
<1>2. ASSUME UNCHANGED allVars PROVE NotYet(p)' /\ Goal
  BY <1>1, <1>2, NothingSaved DEF allVars, overlayVars, vars, pageVars, history, NotYet
<1>3. ASSUME LoadPage(p) \/ Reinitialize(p) \/ ClosePage(p), NoOverlay(p)
      PROVE  NotYet(p)' /\ Goal
  <2>1. pc'[p] # "ready"
    BY <1>3 DEF LoadPage, Reinitialize, ClosePage, BeginInit, OverlayTypeOK, TypeOK
  <2>2. ~closed'[p] /\ chosen'[p] = Nothing
    BY <1>3 DEF NoOverlay, OverlayTypeOK
  <2> QED
    BY <2>1, <2>2 DEF NotYet
<1>4. ASSUME \/ RenderOverlay(p) \/ RunEffects(p) \/ CookieDecoded(p) \/ BannerOpens(p)
             \/ OpenModal(p) \/ \E n \in Notices : Toggle(p, n)
      PROVE  NotYet(p)' /\ Goal
  <2>1. UNCHANGED <<vars, closed, chosen>>
    BY <1>4 DEF RenderOverlay, RunEffects, CookieDecoded, BannerOpens, OpenModal, Toggle
  <2>2. NotYet(p)'
    BY <1>1, <2>1 DEF NotYet, vars, pageVars
  <2> QED
    BY <1>1, <1>4, <2>2, RenderKeeps
<1>5. ASSUME NEW s \in Slots, Choose(p, s) PROVE NotYet(p)' /\ Goal
  <2>1. pc[p] = "ready" /\ pc' = pc
    BY <1>5 DEF Choose, SavesAll, UpdateConsent, pageVars
  <2> QED
    BY <1>1, <1>5, <2>1, ChooseKeeps DEF NotYet
<1>6. ASSUME NEW s \in Slots, Dismiss(p, s) PROVE NotYet(p)' /\ Goal
  <2>1. pc[p] = "ready" /\ pc' = pc
    BY <1>6 DEF Dismiss, SavesAll, UpdateConsent, vars, pageVars
  <2> QED
    BY <1>1, <1>6, <2>1, DismissKeeps DEF NotYet
<1>7. ASSUME NEW s \in Slots, ScriptSpeaks(p, s) PROVE NotYet(p)' /\ Goal
  <2>1. pc' = pc /\ closed' = closed /\ chosen'[p] = Nothing
    BY <1>7 DEF ScriptSpeaks, ScriptCalls, UpdateConsent, pageVars, OverlayTypeOK
  <2> QED
    BY <1>1, <1>7, <2>1, ScriptKeeps DEF NotYet
<1>8. ASSUME NEW s \in Slots, Updating(p, s) PROVE NotYet(p)' /\ Goal
  <2>1. UNCHANGED <<pc, closed, chosen>>
    BY <1>8 DEF Updating, UpdateConsentPreferences
  <2> QED
    BY <1>1, <1>8, <2>1, UpdatingKeeps DEF NotYet
<1>9. ASSUME \/ AutomatedAnswered(p)
             \/ \E s \in Slots : SetIdentity(p, s) \/ CookieEncoded(p, s) \/ PatchAnswered(p, s),
             UNCHANGED overlayVars
      PROVE  NotYet(p)' /\ Goal
  <2>1. UNCHANGED <<pc, closed, chosen>>
    BY <1>9 DEF SetIdentity, CookieEncoded, PatchAnswered, AutomatedAnswered, pageVars, overlayVars
  <2>2. NotYet(p)'
    BY <1>1, <2>1 DEF NotYet
  <2> QED
    BY <1>1, <1>9, <2>2, IdentityKeeps, EncodedKeeps, AnsweredKeeps
<1>10. \A q \in Pages : q = p
  BY DEF OneTab
<1> HIDE DEF Goal
<1>11. NotYet(p)' /\ Goal
  BY <1>1, <1>2, <1>3, <1>4, <1>5, <1>6, <1>7, <1>8, <1>9, <1>10, NewOverlayKeeps
     DEF OverlayNext, Goal
<1> QED
  BY <1>11 DEF Goal

LEMMA OverlayInvHolds ==
    ASSUME OneTab
    PROVE  OverlaySpec => [](OverlayTypeOK /\ AgreeInv /\ OverlayInv)
<1>1. Spec => [](NoticeInv /\ AgreeInv)
  BY InitStands, NextStands, InitAgrees, NextAgrees, TypeCorrect, PTL DEF Spec
<1> QED
  BY <1>1, OverlayImplements, OverlayTypes, InitKeeps, OverlayNextKeeps, PTL DEF OverlaySpec

\* Whoever closed the overlay is not asked again: when the saves are through,
\* the jar has a preference of every notice that was on offer, whether the
\* visitor chose, dismissed, or handleDismiss relied on a cookie read long ago.
THEOREM ClosedIsRecordedHolds ==
    ASSUME OneTab
    PROVE  OverlaySpec => []ClosedIsRecorded
<1>1. OverlayTypeOK /\ OverlayInv => ClosedIsRecorded
  <2> SUFFICES ASSUME OverlayTypeOK, OverlayInv, NEW p \in Pages,
                      pc[p] = "ready", closed[p], clean[p], Settled(p)
               PROVE  Offered(p).notices \subseteq Keys(jar.cookie.consent)
    BY DEF ClosedIsRecorded
  <2>1. ClosedSaves(p)
    BY DEF OverlayInv, Kept
  <2>2. ~Writing(p)
    BY DEF Settled, Writing
  <2> QED
    BY <2>1, <2>2, RecordedKeys DEF ClosedSaves, OverlayTypeOK
<1> QED
  BY <1>1, OverlayInvHolds, PTL

\* A choice made in the overlay stands, in the browser and on the page, until
\* someone chooses or speaks again: whatever is toggled, closed or dismissed
\* later, in whatever order the saves and the late banner come.
THEOREM LastChoiceStandsHolds ==
    ASSUME OneTab
    PROVE  OverlaySpec => []LastChoiceStands
<1>1. AgreeInv /\ OverlayInv => LastChoiceStands
  <2> SUFFICES ASSUME AgreeInv, OverlayInv, NEW p \in Pages, pc[p] = "ready",
                      chosen[p] # Nothing, clean[p], Settled(p), NEW n \in Offered(p).notices
               PROVE  jar.cookie.consent[n] = chosen[p][n] /\ shown[p][n] = chosen[p][n]
    BY DEF LastChoiceStands
  <2>1. ChoiceKept(p)
    BY DEF OverlayInv, Kept
  <2>2. ~Writing(p) /\ Quiet(p)
    BY DEF Settled, Writing, Quiet
  <2>3. shown[p] = cookie[p].consent
    BY DEF AgreeInv, PageAgrees, ReadyShows
  <2> QED
    BY <2>1, <2>2, <2>3 DEF ChoiceKept, AsChosen
<1> QED
  BY <1>1, OverlayInvHolds, PTL
==================================================================================
