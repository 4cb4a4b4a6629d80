---------------------------- MODULE BundleButton ----------------------------
(***************************************************************************)
(* The compliance bundle (demo/compliance_button.js): a dialog that loads  *)
(* the bundle's summary, and a button in it that downloads the signed PDF. *)
(* The user closes and reopens the dialog while requests are under way.    *)
(***************************************************************************)
EXTENDS Integers

CONSTANTS
    MaxBundleGestures,  \* bound: gestures of the user
    MaxToasts           \* bound: toasts that wait to be removed

VARIABLES
    dialog,     \* the dialog in the document, or the last one opened
    hears,      \* the dialogs with a listener for Escape
    downloads,  \* the button of each dialog with a dashboard, by its number
    summaries,  \* the dialogs that await their summary
    toasts,     \* timers of toasts
    bundleGestures

bundleVars == <<dialog, hears, downloads, summaries, toasts, bundleGestures>>

\* A button of a dialog that is gone still runs to its end.
BundleInit ==
    /\ dialog = [no |-> 0, shows |-> "closed"]
    /\ hears = {} /\ summaries = {}
    /\ downloads = [n \in 1 .. MaxBundleGestures |-> "none"]
    /\ toasts = 0
    /\ bundleGestures = 0

BundleGesture ==
    /\ bundleGestures < MaxBundleGestures
    /\ bundleGestures' = bundleGestures + 1

IsOpen == dialog.shows # "closed"

Closing == dialog' = [dialog EXCEPT !.shows = "closed"]

-----------------------------------------------------------------------------
\* openModal up to its await: any dialog goes, its listener stays.
OpenBundle ==
    /\ BundleGesture
    /\ dialog' = [no |-> bundleGestures + 1, shows |-> "loading"]
    /\ hears' = hears \cup {bundleGestures + 1}
    /\ summaries' = summaries \cup {bundleGestures + 1}
    /\ UNCHANGED <<downloads, toasts>>

\* The dashboard or the error is rendered in the dialog that asked, in the
\* document or not.
SummaryArrives(n) ==
    /\ summaries' = summaries \ {n}
    /\ \E shows \in {"dashboard", "error"} :
           /\ dialog' = IF IsOpen /\ dialog.no = n THEN [dialog EXCEPT !.shows = shows] ELSE dialog
           /\ downloads' = IF shows = "dashboard" THEN [downloads EXCEPT ![n] = "ready"] ELSE downloads
    /\ UNCHANGED <<hears, toasts, bundleGestures>>

\* Each listener removes its dialog and itself.
Escape ==
    /\ BundleGesture
    /\ hears' = {}
    /\ IF dialog.no \in hears THEN Closing ELSE UNCHANGED dialog
    /\ UNCHANGED <<downloads, summaries, toasts>>

\* The close button of the dashboard removes the listener too; a click beside
\* the dialog and the close button of an error do not.
CloseDashboard ==
    /\ BundleGesture
    /\ dialog.shows = "dashboard"
    /\ Closing
    /\ hears' = hears \ {dialog.no}
    /\ UNCHANGED <<downloads, summaries, toasts>>

CloseOther ==
    /\ BundleGesture
    /\ IsOpen
    /\ Closing
    /\ UNCHANGED <<hears, downloads, summaries, toasts>>

-----------------------------------------------------------------------------
\* The button is disabled for the whole download.
Download ==
    /\ BundleGesture
    /\ dialog.shows = "dashboard"
    /\ downloads[dialog.no] = "ready"
    /\ downloads' = [downloads EXCEPT ![dialog.no] = "working"]
    /\ UNCHANGED <<dialog, hears, summaries, toasts>>

\* Mutant: an error leaves the button as it is.
StuckAfter(outcome) == IF outcome = "failed" THEN "stuck" ELSE outcome

\* The text of the button until its timer restores it.
Told(outcome) == outcome

\* The PDF is saved and a toast shown, or the error is told.
PdfArrives(n) ==
    /\ downloads[n] = "working"
    /\ \E outcome \in {"saved", "failed"} :
           /\ downloads' = [downloads EXCEPT ![n] = Told(outcome)]
           /\ outcome = "saved" => toasts < MaxToasts
           /\ toasts' = IF outcome = "saved" THEN toasts + 1 ELSE toasts
    /\ UNCHANGED <<dialog, hears, summaries, bundleGestures>>

\* The timer of either outcome restores the button.
Restore(n) ==
    /\ downloads[n] \in {"saved", "failed"}
    /\ downloads' = [downloads EXCEPT ![n] = "ready"]
    /\ UNCHANGED <<dialog, hears, summaries, toasts, bundleGestures>>

ToastGoes ==
    /\ toasts > 0
    /\ toasts' = toasts - 1
    /\ UNCHANGED <<dialog, hears, downloads, summaries, bundleGestures>>

BundleNext ==
    \/ OpenBundle \/ Escape \/ CloseDashboard \/ CloseOther \/ Download \/ ToastGoes
    \/ \E n \in summaries : SummaryArrives(n)
    \/ \E n \in DOMAIN downloads : PdfArrives(n) \/ Restore(n)

\* Requests end and timers fire.
BundleFairness ==
    /\ WF_bundleVars(ToastGoes)
    /\ WF_bundleVars(\E n \in summaries : SummaryArrives(n))
    /\ WF_bundleVars(\E n \in DOMAIN downloads : PdfArrives(n) \/ Restore(n))

BundleSpec == BundleInit /\ [][BundleNext]_bundleVars /\ BundleFairness

-----------------------------------------------------------------------------
\* A dialog that is open hears Escape, even one opened over another whose
\* listener stayed, and a button that started a download is ready again,
\* whatever became of it (compliance_button.js:500-590).
DownloadComesBack ==
    /\ [](IsOpen => dialog.no \in hears)
    /\ []<>(\A n \in DOMAIN downloads : downloads[n] \in {"none", "ready"})
=============================================================================
