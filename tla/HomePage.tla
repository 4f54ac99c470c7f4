------------------------------ MODULE HomePage ------------------------------
(***************************************************************************)
(* The restart of the router on the home page (view/admin_web/home.htm):   *)
(* the dialog that asks, the box that waits, autoLink of web/js/util.js    *)
(* that asks for an image every five seconds until one comes, and the      *)
(* function windows (artDialog.open), whose pages close their window and   *)
(* open dialogs over it.                                                   *)
(***************************************************************************)
EXTENDS Naturals, Dialog

CONSTANTS Probe,           \* calls of autoLink
          Images,          \* bound on the images of a probe that are on their way
          Limit            \* the errors after which autoLink gives up: 30 in the code

Wait == "wating_box"
Func == "func_box"
Notes == DialogId \ {Wait, Func}       \* dialogs without an id get one of their own

ASSUME HomeAssumption ==
  Images \in Nat \ {0} /\ Limit \in Nat /\ {Wait, Func} \subseteq DialogId

VARIABLES
  ui,          \* the dialogs of the window
  interval,    \* interval[p]: "none", "delayed" for 15 s, "running", "cleared"
  images,      \* images[p]: the images of p that have neither come nor failed
  fails,       \* fails[p]: timecounter, in steps of five seconds
  flash,       \* the probes after whose success the page is left: need_flash
  pending,     \* requests to restart that are not answered
  leaving,     \* the page is about to go to the router's address
  dismissed,   \* only for the properties: the user has closed the waiting box
  overtaken,   \* only for the properties: the outcome of another call of autoLink has
               \* taken the place of the waiting box
  interrupted  \* only for the properties: a drag ended when another dialog had the focus,
               \* and left a part hidden

probes == <<interval, images, fails, flash>>
boxMarks == <<dismissed, overtaken>>
homeVars == <<ui, probes, pending, leaving, boxMarks, interrupted>>

Texts == {"nothing", "confirm", "wait", "success", "failed", "note", "loading", "frame", "late"}

\* The objects that are in the list are the ones on the screen, each once, whatever
\* closes and opens dialogs within one callback: the focus and the timers are of open
\* dialogs only, a mask has its dialog over it, and no object is both in the pool and open;
\* exactly the open windows are found by their frames.
ListIsScreen ==
  /\ \A i, j \in DialogId : ui.list[i] = ui.list[j] => i = j \/ ui.list[i] = NoObject
  /\ ui.pool \notin OpenObjects(ui)
  /\ Range(ui.stack) \ {Mask(o) : o \in Object} = OpenObjects(ui)
  /\ {o \in Object : Locked(ui, o)} \subseteq OpenObjects(ui)
  /\ ui.focus \in OpenObjects(ui) \cup {NoObject}
  /\ ui.timer \subseteq OpenObjects(ui)
  /\ \A i \in DialogId : ui.data[i] \in {NoObject, ui.list[i]}
  /\ ui.full = {o \in OpenObjects(ui) : ui.shows[o] = "frame"}
  /\ ui.full \subseteq Range(ui.data)

\* Types, and ListIsScreen.
HomeTypeOK ==
  /\ ui.list \in [DialogId -> Object \cup {NoObject}]
  /\ ui.pool \in Object \cup {NoObject}
  /\ ui.shows \in [Object -> Texts] /\ ui.config \in [Object -> Texts]
  /\ interval \in [Probe -> {"none", "delayed", "running", "cleared"}]
  /\ images \in [Probe -> 0 .. Images]
  /\ fails \in [Probe -> Nat] /\ flash \subseteq Probe
  /\ pending \in BOOLEAN /\ leaving \in BOOLEAN /\ dismissed \in BOOLEAN
  /\ overtaken \in BOOLEAN /\ interrupted \in BOOLEAN
  /\ ListIsScreen

HomeInit ==
  /\ ui = NoDialogs
  /\ interval = [p \in Probe |-> "none"]
  /\ images = [p \in Probe |-> 0]
  /\ fails = [p \in Probe |-> 0] /\ flash = {}
  /\ pending = FALSE
  /\ leaving = FALSE
  /\ dismissed = FALSE /\ overtaken = FALSE
  /\ interrupted = FALSE

\* Calls that the page chains: art.dialog({...}).lock(), with or without .time().
Opened(u, i, text) == LET v == artDialog(u, i, text) IN lock(v, v.list[i])
TimedOpened(u, i, text) == LET v == Opened(u, i, text) IN setTime(v, v.list[i])
ClosedById(u, i) == IF u.list[i] = NoObject THEN u ELSE close(u, u.list[i])
HasRoom(u) == u.pool # NoObject \/ OpenObjects(u) # Object

-----------------------------------------------------------------------------
\* reboot_window, reset_window: a click on the page.
AskRestart ==
  /\ PageReachable(ui) /\ ui.drag = NoObject /\ HasRoom(ui) /\ ~leaving
  /\ ui' = Opened(ui, Wait, "confirm")
  /\ UNCHANGED <<probes, pending, leaving, boxMarks, interrupted>>

\* Bounds: a call of autoLink is only made when none has a second or a late image,
\* and such an image is only asked for when there is no other call.
NewProbe == CHOOSE p \in Probe : interval[p] = "none"
HasProbe ==
  /\ \E p \in Probe : interval[p] = "none"
  /\ \A p \in Probe : images[p] <= IF interval[p] = "cleared" THEN 0 ELSE 1

\* global_dorestart: the waiting box, and autoLink in fifteen seconds.
DoRestart(u, p) ==
  /\ HasProbe
  /\ ui' = Opened(u, Wait, "wait")
  /\ interval' = [interval EXCEPT ![p] = "delayed"]
  /\ flash' = flash \cup {p}
  /\ dismissed' = FALSE /\ overtaken' = FALSE
  /\ UNCHANGED <<images, fails, leaving, interrupted>>

\* Mutant: ok does not return false, so that the dialog is closed once more.
ConfirmedTwice ==
  LET p == NewProbe
      o == ui.list[Wait]
      v == Opened(close(ui, o), Wait, "wait")
  IN /\ o # NoObject /\ ui.config[o] = "confirm" /\ Reachable(ui, o) /\ ui.drag = NoObject
     /\ HasProbe
     /\ ui' = close(v, o)
     /\ interval' = [interval EXCEPT ![p] = "delayed"]
     /\ flash' = flash \cup {p}
     /\ dismissed' = FALSE /\ overtaken' = FALSE
     /\ pending' = TRUE
     /\ UNCHANGED <<images, fails, leaving, interrupted>>

\* ok of the question, whatever words a late image has written over it: it closes itself,
\* and the box gets its object; false is returned, or _click would close the object again.
Confirmed ==
  LET o == ui.list[Wait]
  IN /\ o # NoObject /\ ui.config[o] = "confirm" /\ Reachable(ui, o) /\ ui.drag = NoObject
     /\ DoRestart(close(ui, o), NewProbe)
     /\ pending' = TRUE

\* The router refuses: an error is displayed; the this.close() that follows is called
\* on the request, which has none, so that the waiting box stays.
Refused ==
  /\ pending /\ HasRoom(ui)
  /\ pending' = FALSE
  /\ \E i \in Notes : ui.list[i] = NoObject /\ ui' = TimedOpened(ui, i, "note")
  /\ UNCHANGED <<probes, leaving, boxMarks, interrupted>>

Accepted == pending /\ pending' = FALSE /\ UNCHANGED <<ui, probes, leaving, boxMarks, interrupted>>

\* _click(cancelVal) and what leads to it: the cross, the button, a double click on the mask;
\* the escape key for the dialog that has the focus.
Cancelled(o) ==
  /\ ui' = close(ui, o)
  /\ dismissed' = (dismissed \/ ui.list[Wait] = o)
  /\ UNCHANGED <<probes, pending, leaving, overtaken, interrupted>>

Click(o) == o \in OpenObjects(ui) /\ Reachable(ui, o) /\ ui.drag = NoObject /\ Cancelled(o)
Escape == ui.focus # NoObject /\ Cancelled(ui.focus)

\* The end of time() calls _click as well, but nobody has closed the dialog then.
TimeOver(o) ==
  /\ o \in ui.timer
  /\ ui' = close(ui, o)
  /\ UNCHANGED <<probes, pending, leaving, boxMarks, interrupted>>

\* open_windows: the window that is open is closed first; artDialog.open puts a page in a frame.
OpenWindow ==
  /\ PageReachable(ui) /\ ui.drag = NoObject /\ HasRoom(ui) /\ ~leaving
  /\ LET v == openPage(ClosedById(ui, Func), Func) IN ui' = lock(v, v.list[Func])
  /\ UNCHANGED <<probes, pending, leaving, boxMarks, interrupted>>

FrameLoaded ==
  /\ ui.data[Func] # NoObject /\ ui.data[Func] \notin ui.full
  /\ ui' = load(ui, Func)
  /\ UNCHANGED <<probes, pending, leaving, boxMarks, interrupted>>

\* A click into the page of a window brings the window to the top.
FrameClicked ==
  /\ ui.data[Func] \in ui.full /\ Reachable(ui, ui.data[Func]) /\ ui.drag = NoObject
  /\ ui' = zIndex(ui, ui.data[Func])
  /\ UNCHANGED <<probes, pending, leaving, boxMarks, interrupted>>

\* The corner of a window is dragged; the window may be closed, and others opened,
\* before the mouse button is released.  (The drag of a dialog without a frame hides
\* nothing, and is no more than a click.)
DragStart ==
  /\ ui.data[Func] \in ui.full /\ Reachable(ui, ui.data[Func]) /\ ui.drag = NoObject
  /\ ui' = start(zIndex(ui, ui.data[Func]), ui.data[Func])
  /\ UNCHANGED <<probes, pending, leaving, boxMarks, interrupted>>

DragEnd ==
  /\ ui.drag # NoObject
  /\ ui' = end(ui)
  /\ interrupted' = ((interrupted \/ ui.focus # ui.drag) /\ ui'.hidden # {})
  /\ UNCHANGED <<probes, pending, leaving, boxMarks>>

\* The page of a window is done: it opens a timed dialog in the parent and closes its
\* own window; or it restarts the router, as the page of the disk does, without need_flash.
FrameDone ==
  /\ ui.data[Func] \in ui.full /\ HasRoom(ui)
  /\ \E i \in Notes :
       ui.list[i] = NoObject /\ ui' = ClosedById(TimedOpened(ui, i, "note"), Func)
  /\ UNCHANGED <<probes, pending, leaving, boxMarks, interrupted>>

FrameRestarts ==
  /\ ui.data[Func] \in ui.full
  /\ ui.list[Wait] # NoObject \/ HasRoom(ui)
  /\ HasProbe
  /\ ui' = ClosedById(Opened(ui, Wait, "wait"), Func)
  /\ interval' = [interval EXCEPT ![NewProbe] = "delayed"]
  /\ dismissed' = FALSE
  /\ overtaken' = (ui.list[Wait] # NoObject /\ ui.config[ui.list[Wait]] # "wait")
  /\ UNCHANGED <<images, fails, flash, pending, leaving, interrupted>>

\* autoLink, after the delay: the interval is set, and asks for an image each time.
autoLink(p) ==
  /\ interval[p] = "delayed"
  /\ interval' = [interval EXCEPT ![p] = "running"]
  /\ UNCHANGED <<ui, images, fails, flash, pending, leaving, boxMarks, interrupted>>

Ask(p) ==
  /\ interval[p] = "running"
  /\ images[p] < Images
  /\ images[p] > 0 => \A q \in Probe \ {p} : interval[q] = "none"
  /\ images' = [images EXCEPT ![p] = @ + 1]
  /\ UNCHANGED <<ui, interval, fails, flash, pending, leaving, boxMarks, interrupted>>

Ended(p) == images[p] > 0 /\ images' = [images EXCEPT ![p] = @ - 1]

\* What an image leaves of the call of autoLink that asked for it: a call whose interval
\* is cleared is gone with its last image.
Leaves(p, i, f) ==
  LET over == i = "cleared" /\ images'[p] = 0
  IN /\ interval' = [interval EXCEPT ![p] = IF over THEN "none" ELSE i]
     /\ fails' = [fails EXCEPT ![p] = IF over THEN 0 ELSE f]
     /\ flash' = IF over THEN flash \ {p} ELSE flash

\* What a call displays in the end takes the place of the box, which another may wait with.
Waits(p) == interval[p] \in {"delayed", "running"}
Overtakes(p) == overtaken' = (overtaken \/ \E q \in Probe \ {p} : Waits(q))

\* onload: the interval is cleared; success() puts a timed box in the place of the
\* waiting one, and leaves the page in three seconds, if need_flash says so.
ImageLoaded(p) ==
  /\ Ended(p) /\ (ui.list[Wait] # NoObject \/ HasRoom(ui))
  /\ Leaves(p, "cleared", fails[p])
  /\ ui' = TimedOpened(ClosedById(ui, Wait), Wait, "success")
  /\ leaving' = (leaving \/ p \in flash)
  /\ Overtakes(p)
  /\ UNCHANGED <<pending, dismissed, interrupted>>

\* onerror, within the limit: error() writes into the box, if it is there, whatever that
\* box says and though the interval may be cleared ("late": the words are those of "wait").
ImageFailed(p) ==
  /\ Ended(p)
  /\ fails[p] < Limit
  /\ Leaves(p, interval[p], fails[p] + 1)
  /\ ui' = IF ui.list[Wait] = NoObject THEN ui
           ELSE content(ui, ui.list[Wait], IF interval[p] = "cleared" THEN "late" ELSE "wait")
  /\ UNCHANGED <<pending, leaving, boxMarks, interrupted>>

\* Mutant: the end of the trials is not displayed.
GivesUpSilently(p) ==
  /\ Ended(p)
  /\ fails[p] >= Limit
  /\ Leaves(p, "cleared", fails[p])
  /\ UNCHANGED <<ui, pending, leaving, boxMarks, interrupted>>

\* onerror beyond the limit: the interval is cleared, and timeout() says so.
GivesUp(p) ==
  /\ Ended(p) /\ (ui.list[Wait] # NoObject \/ HasRoom(ui))
  /\ fails[p] >= Limit
  /\ Leaves(p, "cleared", fails[p])
  /\ ui' = Opened(ClosedById(ui, Wait), Wait, "failed")
  /\ Overtakes(p)
  /\ UNCHANGED <<pending, leaving, dismissed, interrupted>>

\* The button of the box that was opened when autoLink gave up.
ConnectByHand ==
  LET o == ui.list[Wait]
  IN /\ o # NoObject /\ ui.config[o] = "failed" /\ Reachable(ui, o) /\ ui.drag = NoObject
     /\ ui' = close(ui, o)
     /\ leaving' = TRUE
     /\ dismissed' = TRUE
     /\ UNCHANGED <<probes, pending, overtaken, interrupted>>

\* The browser goes to the router's address and loads the page anew.
Leave ==
  /\ leaving
  /\ ui' = NoDialogs
  /\ interval' = [p \in Probe |-> "none"]
  /\ images' = [p \in Probe |-> 0]
  /\ fails' = [p \in Probe |-> 0] /\ flash' = {}
  /\ pending' = FALSE
  /\ leaving' = FALSE
  /\ dismissed' = FALSE /\ overtaken' = FALSE
  /\ interrupted' = FALSE

HomeNext ==
  \/ AskRestart \/ Refused \/ Accepted \/ Escape \/ OpenWindow \/ FrameDone
  \/ ConnectByHand \/ Leave \/ FrameLoaded \/ FrameClicked \/ DragStart \/ DragEnd
  \/ Confirmed \/ FrameRestarts
  \/ \E p \in Probe : autoLink(p) \/ Ask(p) \/ ImageFailed(p) \/ ImageLoaded(p) \/ GivesUp(p)
  \/ \E o \in Object : Click(o) \/ TimeOver(o)

\* The browser's timers and intervals fire, those of the dialogs too, and an image comes
\* or fails, with whatever callback (a callback at the limit needs room, in the model only).
ImageEnds(p) == Ended(p) /\ (fails[p] < Limit \/ ui.list[Wait] # NoObject \/ HasRoom(ui))

HomeFairness ==
  /\ \A p \in Probe : WF_homeVars(autoLink(p)) /\ WF_homeVars(Ask(p)) /\ WF_images(ImageEnds(p))
  /\ \A o \in Object : WF_homeVars(TimeOver(o))

HomeSpec == HomeInit /\ [][HomeNext]_homeVars /\ HomeFairness

-----------------------------------------------------------------------------
\* While a restart is waited for, the box that says so is open, with its mask over the
\* page, until the user closes it: neither the question, whose object the box takes over,
\* nor a timer nor another window closes it, and no outcome is told in its place.  The one
\* exception is a restart during which an earlier one, whose box the user had closed, is
\* still probed for: its outcome takes the box's place, a success for four seconds only,
\* or is in it already when the page of a window restarts the router (home.htm:525-553).
\* And the content of a dialog is not hidden, though its object may have been one that was
\* dragged, except after a drag that another dialog has interrupted: the end of a drag
\* shows the part of the dialog that has the focus then.
WaitsVisibly ==
  /\ (\E p \in Probe : Waits(p)) /\ ~dismissed /\ ~overtaken
       => LET o == ui.list[Wait]
          IN o # NoObject /\ ui.config[o] = "wait" /\ Locked(ui, o)
  /\ ~interrupted => ui.hidden \subseteq {ui.drag}

\* The box does not wait for ever: it says what came of the restart, or is closed.  The
\* words that an image writes over the success, or over the next question, when it fails
\* after another has come ("late", util.js:38-49) may stay for ever, and are not meant.
WaitingEnds ==
  (ui.list[Wait] # NoObject /\ ui.shows[ui.list[Wait]] = "wait")
    ~> ~(ui.list[Wait] # NoObject /\ ui.shows[ui.list[Wait]] = "wait")
=============================================================================
