----------------------------- MODULE ConsentOverlay -----------------------------
(***************************************************************************)
(* The overlay of fides-js (Overlay.tsx, NoticeOverlay.tsx) on the pages   *)
(* of ConsentClient: a banner that opens by a timer, a modal with a toggle *)
(* per notice, and what closing either of them saves.  Its components      *)
(* remember what they were rendered with (the cookie of the browser, the   *)
(* toggles) while scripts and the overlay itself go on to save.            *)
(***************************************************************************)
EXTENDS ConsentClient

VARIABLES
    ui,          \* the overlay of each page
    closed,      \* history: the visitor has closed the banner or the modal
    chosen       \* history: what the visitor chose last, if nobody spoke since

overlayVars == <<ui, closed, chosen>>
allVars     == <<vars, overlayVars>>

\* banner: "waiting" until the document is interactive, "rendered" until its
\* effects have run, then "never", or "due" until the timer opens it.
\* unsaid: a notice without saved consent, when init ended.  parsed: the keys
\* of the browser's cookie, once it was read and decoded.
UI == [banner : {"absent", "waiting", "rendered", "never", "due", "open", "closed"},
       modal : BOOLEAN, draft : SUBSET Notices, listening : BOOLEAN,
       unsaid : BOOLEAN, parsed : SUBSET Notices, decoded : BOOLEAN]

NoUI == [banner |-> "absent", modal |-> FALSE, draft |-> {}, listening |-> FALSE,
         unsaid |-> FALSE, parsed |-> {}, decoded |-> FALSE]

OverlayTypeOK ==
    /\ TypeOK
    /\ ui \in [Pages -> UI]
    /\ closed \in [Pages -> BOOLEAN]
    /\ chosen \in [Pages -> Consents]

----------------------------------------------------------------------------
(* Rendering.                                                               *)

Rendered(p) == ui[p].banner \notin {"absent", "waiting"}
Painted(p)  == Rendered(p) /\ ui[p].banner # "rendered"

OverlayInit ==
    /\ Init
    /\ ui = [p \in Pages |-> NoUI]
    /\ closed = [p \in Pages |-> FALSE]
    /\ chosen = [p \in Pages |-> Nothing]

\* A page that is loaded, initialized again or closed has no overlay in use.
NoOverlay(p) ==
    /\ ui' = [ui EXCEPT ![p] = NoUI]
    /\ closed' = [closed EXCEPT ![p] = FALSE]
    /\ chosen' = [chosen EXCEPT ![p] = Nothing]

\* At its end, init hands over a copy of window.Fides to initOverlay.
InitOverlay(p) ==
    /\ InitStep(p)
    /\ ui' = IF pc'[p] # "ready" THEN ui
             ELSE [ui EXCEPT ![p] = [NoUI EXCEPT !.banner = "waiting",
                     !.unsaid = \E n \in Offered(p).notices : saved[p][n] = "unset"]]
    /\ UNCHANGED <<closed, chosen>>

\* The first render: the toggles are those of the cookie, and the listener of
\* FidesUpdating is there.
RenderOverlay(p) ==
    /\ ui[p].banner = "waiting" /\ Quiet(p)
    /\ ui' = [ui EXCEPT ![p].banner = "rendered", ![p].listening = TRUE,
                        ![p].draft = Enabled(Offered(p), cookie[p].consent)]
    /\ UNCHANGED <<vars, closed, chosen>>

\* The effects after the first paint: whether there is to be a banner is
\* decided once and for all, and the cookie of the browser is read.
RunEffects(p) ==
    /\ ui[p].banner = "rendered" /\ Quiet(p)
    /\ ui' = [ui EXCEPT
         ![p].banner = IF \/ cookie[p].method = "gpc"
                          \/ cookie[p].method \in Resurface
                          \/ ui[p].unsaid
                       THEN "due" ELSE "never",
         ![p].parsed = Keys(jar.cookie.consent),
         ![p].decoded = ~Compressed]
    /\ UNCHANGED <<vars, closed, chosen>>

CookieDecoded(p) ==
    /\ Painted(p) /\ ~ui[p].decoded /\ Quiet(p)
    /\ ui' = [ui EXCEPT ![p].decoded = TRUE]
    /\ UNCHANGED <<vars, closed, chosen>>

\* The timer does not ask whether the modal is open by now.
BannerOpens(p) ==
    /\ ui[p].banner = "due" /\ Quiet(p)
    /\ ui' = [ui EXCEPT ![p].banner = "open"]
    /\ UNCHANGED <<vars, closed, chosen>>

----------------------------------------------------------------------------
(* The visitor.                                                             *)

\* handleOpenModal, by the link, the banner or Fides.showModal.
OpenModal(p) ==
    /\ pc[p] = "ready" /\ Painted(p) /\ ~ui[p].modal /\ Quiet(p)
    /\ ui' = [ui EXCEPT ![p].modal = TRUE,
                        ![p].banner = IF @ = "open" THEN "closed" ELSE @]
    /\ UNCHANGED <<vars, closed, chosen>>

Toggle(p, n) ==
    /\ pc[p] = "ready" /\ ui[p].modal /\ Quiet(p)
    /\ n \in Offered(p).notices /\ ~NoticeOnly(n)
    /\ ui' = [ui EXCEPT ![p].draft = IF n \in @ THEN @ \ {n} ELSE @ \cup {n}]
    /\ UNCHANGED <<vars, closed, chosen>>

\* The banner, or the modal, is closed.
Closes(p) ==
    \/ ui[p].banner = "open" /\ ui' = [ui EXCEPT ![p].banner = "closed"]
    \/ ui[p].modal /\ ui' = [ui EXCEPT ![p].modal = FALSE]

\* The same, and the toggles become those that are saved.
ClosesWith(p, ins) ==
    \/ ui[p].banner = "open" /\ ui' = [ui EXCEPT ![p].banner = "closed", ![p].draft = ins]
    \/ ui[p].modal /\ ui' = [ui EXCEPT ![p].modal = FALSE, ![p].draft = ins]

\* handleAcceptAll, handleRejectAll, and the save (or acknowledgement) of the
\* toggles as they are, each of which closes what its button is on.
Choices(p) == {Offered(p).notices,
               {n \in Offered(p).notices : NoticeOnly(n)},
               ui[p].draft}

Choose(p, s) ==
    /\ Painted(p)
    /\ \E ins \in Choices(p) :
         /\ SavesAll(p, s, ins, "choice")
         /\ ClosesWith(p, ins)
         /\ chosen' = [chosen EXCEPT ![p] =
              [n \in Notices |-> IF n \notin Offered(p).notices THEN "unset"
                                 ELSE IF n \in ins THEN "in" ELSE "out"]]
    /\ closed' = [closed EXCEPT ![p] = TRUE]

\* A slip in NothingToRecord the runs must notice: asks only whether there was a cookie.
CookieWasThere(p) == ui[p].decoded /\ ui[p].parsed # {}

\* Every notice on offer has a preference in the cookie that was read.
NothingToRecord(p) == ui[p].decoded /\ Offered(p).notices \subseteq ui[p].parsed

\* A slip in Undecided the runs must notice: takes the toggles.
UndecidedAsToggled(p) == ui[p].draft

\* What a dismissal saves: the consent of the page as it is by now.
Undecided(p) == Enabled(Offered(p), cookie[p].consent)

\* A slip in DismissMethod the runs must notice: a name the rest of the code does not know.
DismissMethodUnnamed == "dismissed"

DismissMethod == "dismiss"

\* handleDismiss: what nobody decided is saved as it is.
Dismiss(p, s) ==
    /\ Painted(p)
    /\ \/ /\ NothingToRecord(p)
          /\ pc[p] = "ready" /\ Quiet(p)
          /\ Closes(p)
          /\ UNCHANGED vars
       \/ /\ ~NothingToRecord(p)
          /\ SavesAll(p, s, Undecided(p), DismissMethod)
          /\ ClosesWith(p, Undecided(p))
    /\ closed' = [closed EXCEPT ![p] = TRUE]
    /\ UNCHANGED chosen

----------------------------------------------------------------------------
(* Everything else, as far as the overlay sees it.                          *)

ScriptSpeaks(p, s) ==
    /\ ScriptCalls(p, s)
    /\ chosen' = [chosen EXCEPT ![p] = Nothing]
    /\ UNCHANGED <<ui, closed>>

\* FidesUpdating: the toggles follow the first update after the render, and
\* that one only.
Updating(p, s) ==
    /\ UpdateConsentPreferences(p, s)
    /\ ui' = IF ~ui[p].listening THEN ui
             ELSE [ui EXCEPT ![p].listening = FALSE,
                             ![p].draft = Enabled(Offered(p), cookie'[p].consent)]
    /\ UNCHANGED <<closed, chosen>>

OverlayNext ==
    \E p \in Pages :
        \/ (LoadPage(p) \/ Reinitialize(p) \/ ClosePage(p)) /\ NoOverlay(p)
        \/ InitOverlay(p)
        \/ RenderOverlay(p) \/ RunEffects(p) \/ CookieDecoded(p) \/ BannerOpens(p)
        \/ OpenModal(p)
        \/ \E n \in Notices : Toggle(p, n)
        \/ \E s \in Slots : Choose(p, s) \/ Dismiss(p, s) \/ ScriptSpeaks(p, s) \/ Updating(p, s)
        \/ (\E s \in Slots : SetIdentity(p, s) \/ CookieEncoded(p, s) \/ PatchAnswered(p, s))
             /\ UNCHANGED overlayVars
        \/ AutomatedAnswered(p) /\ UNCHANGED overlayVars

OverlaySpec == OverlayInit /\ [][OverlayNext]_allVars

----------------------------------------------------------------------------
(* Properties.                                                              *)

\* Whoever closed the overlay is not asked about the same notices again: once
\* the saves are through, the browser has a preference of every notice that
\* was on offer, whether one was saved or handleDismiss found nothing to record
\* in a cookie it read long before ("causing the banner to resurface on every
\* reload", NoticeOverlay.tsx).
ClosedIsRecorded ==
    \A p \in Pages : pc[p] = "ready" /\ closed[p] /\ clean[p] /\ Settled(p) =>
        Offered(p).notices \subseteq Keys(jar.cookie.consent)

\* A choice made in the overlay stands until someone chooses or speaks again:
\* toggles that were never saved, a modal closed without saving, and the
\* dismissal of a banner that opened late leave it as it is, in the browser and
\* on the page.
LastChoiceStands ==
    \A p \in Pages :
        pc[p] = "ready" /\ chosen[p] # Nothing /\ clean[p] /\ Settled(p) =>
            \A n \in Offered(p).notices :
                jar.cookie.consent[n] = chosen[p][n] /\ shown[p][n] = chosen[p][n]
==============================================================================
