---------------------------- MODULE VirtualMouse ----------------------------
(***************************************************************************)
(* The touches of the pages for telephones: vmouse of mobile/js/           *)
(* jquery.mobile-1.1.0.js, which makes a vclick of a touch at once and has *)
(* to keep the click that the browser sends afterwards from doing it       *)
(* again; the label of a checkbox (wifi_setup.htm: display the password),  *)
(* which toggles at a vclick and refuses the click; and a link, which      *)
(* hides its address at the vclick and takes it back at the click.  Both   *)
(* are buttons that look pressed while they are touched (buttonMarkup).    *)
(* One finger.  The document listens to vclick, so that every element does.*)
(***************************************************************************)
EXTENDS Naturals, SequencesExt

CONSTANTS MaxClicks,       \* bound on the clicks that the browser has not sent yet, and
                           \* on the timers of a button
          Nothing

Label == "label"
Anchor == "link"
Element == {Label, Anchor}

ASSUME MouseAssumption == MaxClicks \in Nat /\ Nothing \notin Element \cup {"address", "#"}

VARIABLES
  finger,          \* what is touched
  didScroll,
  lastTouch,       \* the element of lastTouchID
  blockMouse, blockTouch,
  resetTimer,
  blockedAt,       \* clickBlockList, by the places of the touches
  blockedId,       \* the elements whose last touch is in clickBlockList
  clicks,          \* the clicks to come: [at, done: the touch has made a vclick]
  checked,         \* the checkbox
  href, saved,     \* of the link: the attribute, and jqmData("href")
  gone,            \* where the last click on the link went
  down,            \* the buttons that look pressed
  hover,           \* hover[e]: the timers that will make it look so
  hov,             \* the button of the timer that can be cleared
  scrolling,       \* of scrollstart, for 50 ms
  wanted,          \* only for the properties: checked, were each tap to toggle it once
  late, stray,     \* only for the properties: a click came after the reset, or after the
                   \* next touch; it came to another element than was touched
  stuck            \* only for the properties: the buttons whose touch ended after the
                   \* reset, that mouse events pressed, or whose timer was lost

block == <<blockMouse, blockTouch, blockedAt, blockedId>>
link == <<href, saved, gone>>
press == <<down, hover, hov, stuck>>
mouseVars == <<finger, didScroll, lastTouch, block, resetTimer, clicks, checked, link, press,
               scrolling, wanted, late, stray>>

\* The link never loses its address, whatever vclicks come without a click and clicks
\* without a vclick: it goes to its address, or stays.
LinkKeepsAddress == gone \in {Nothing, "address"} /\ (href = "#" => saved = "address")

\* Types, and LinkKeepsAddress.
MouseTypeOK ==
  /\ finger \in Element \cup {Nothing} /\ lastTouch \in Element \cup {Nothing}
  /\ {didScroll, blockMouse, blockTouch, resetTimer, checked, wanted, late, stray} \subseteq BOOLEAN
  /\ blockedAt \subseteq Element /\ blockedId \subseteq Element
  /\ clicks \in Seq([at : Element, done : BOOLEAN])
  /\ {href, saved, gone} \subseteq {"address", "#", Nothing}
  /\ down \subseteq Element /\ stuck \subseteq Element
  /\ hover \in [Element -> 0 .. MaxClicks] /\ hov \in Element \cup {Nothing}
  /\ scrolling \in BOOLEAN
  /\ hov # Nothing => hover[hov] > 0
  /\ LinkKeepsAddress

MouseInit ==
  /\ finger = Nothing /\ didScroll = FALSE /\ lastTouch = Nothing
  /\ blockMouse = FALSE /\ blockTouch = FALSE /\ resetTimer = FALSE
  /\ blockedAt = {} /\ blockedId = {}
  /\ clicks = <<>>
  /\ checked = FALSE /\ wanted = FALSE
  /\ href = "address" /\ saved = Nothing /\ gone = Nothing
  /\ late = FALSE /\ stray = FALSE
  /\ down = {} /\ hover = [e \in Element |-> 0] /\ hov = Nothing /\ stuck = {}
  /\ scrolling = FALSE

-----------------------------------------------------------------------------
\* attachEvents: vmousedown sets a timer, and forgets the one before, be it running.
vmousedown(e) ==
  /\ hover[e] < MaxClicks
  /\ hover' = [hover EXCEPT ![e] = @ + 1]
  /\ hov' = e

\* Mutant: the timer is not cleared.
vmouseoutOnly(e) == down' = down \ {e} /\ UNCHANGED <<hover, hov>>

\* vmouseout and scrollstart: the button does not look pressed, and the timer is cleared.
vmouseout(e) ==
  /\ down' = down \ {e}
  /\ hover' = IF hov = Nothing THEN hover ELSE [hover EXCEPT ![hov] = @ - 1]
  /\ hov' = Nothing

\* The timer is over; of two of a button the older one is.
HoverOver(e) ==
  /\ hover[e] > 0
  /\ down' = down \cup {e}
  /\ hover' = [hover EXCEPT ![e] = @ - 1]
  /\ hov' = IF hov = e /\ hover[e] = 1 THEN Nothing ELSE hov
  /\ UNCHANGED <<finger, didScroll, lastTouch, block, resetTimer, clicks, checked, link, stuck,
                 scrolling, wanted, late, stray>>

\* handleTouchStart
TouchStart(e) ==
  /\ finger = Nothing /\ Len(clicks) < MaxClicks
  /\ finger' = e
  /\ lastTouch' = e
  /\ resetTimer' = FALSE
  /\ blockTouch' = FALSE
  /\ didScroll' = FALSE
  /\ blockedId' = blockedId \ {e}
  /\ late' = (late \/ \E k \in DOMAIN clicks : ~clicks[k].done)
  /\ vmousedown(e)
  /\ stuck' = stuck \cup ({hov} \ {Nothing})
  /\ UNCHANGED <<blockMouse, blockedAt, clicks, checked, link, down, scrolling, wanted, stray>>

\* handleTouchMove, by less or more than the threshold, and handleScroll.
Moves(far) ==
  /\ IF blockTouch THEN UNCHANGED <<didScroll, resetTimer>>
     ELSE didScroll' = (didScroll \/ far) /\ resetTimer' = TRUE
  /\ scrolling' = TRUE
  /\ UNCHANGED <<finger, lastTouch, block, clicks, checked, link, stuck, wanted, late, stray>>

\* A move of the finger is a scrollstart, if no other has been for 50 ms, and a
\* vmousecancel, if it is the first that is far; a scroll is one of the document only.
TouchMove(far) ==
  /\ finger # Nothing /\ Moves(far)
  /\ IF ~scrolling THEN vmouseout(finger)
     ELSE /\ down' = IF far /\ ~blockTouch /\ ~didScroll THEN down \ {finger} ELSE down
          /\ UNCHANGED <<hover, hov>>

Scroll == Moves(TRUE) /\ UNCHANGED <<down, hover, hov>>

ScrollStop ==
  /\ scrolling /\ scrolling' = FALSE
  /\ UNCHANGED <<finger, didScroll, lastTouch, block, resetTimer, clicks, checked, link, press,
                 wanted, late, stray>>

\* The handler of vclick on the document: the address goes to the data, unless the
\* attribute holds none.
HideAddress(e) ==
  IF e = Anchor /\ href # "#" THEN saved' = href /\ href' = "#"
  ELSE UNCHANGED <<href, saved>>

\* handleTouchEnd: vclick, which the label refuses; then the list keeps the clicks
\* of this touch away.
TouchEnd ==
  /\ finger # Nothing /\ ~blockTouch
  /\ blockTouch' = TRUE
  /\ IF didScroll THEN UNCHANGED <<blockMouse, blockedAt, blockedId, checked, link>>
     ELSE /\ checked' = (checked # (finger = Label))
          /\ blockMouse' = (blockMouse \/ finger = Label)
          /\ blockedAt' = blockedAt \cup ({finger} \cap {Label})
          /\ blockedId' = blockedId \cup ({finger} \cap {Label})
          /\ HideAddress(finger)
          /\ UNCHANGED gone
  /\ didScroll' = FALSE
  /\ resetTimer' = TRUE
  /\ vmouseout(finger)
  /\ stuck' = IF hover'[finger] = 0 THEN stuck \ {finger} ELSE stuck
  /\ UNCHANGED lastTouch

\* The same, after the reset timer: nothing is done.
TouchEndIgnored ==
  /\ finger # Nothing /\ blockTouch
  /\ stuck' = stuck \cup {finger}
  /\ UNCHANGED <<didScroll, lastTouch, block, resetTimer, checked, link, down, hover, hov>>

\* A browser sends a click for a touch that did not scroll, or none.
Lift(sends) ==
  /\ \/ TouchEnd /\ wanted' = (wanted # (~didScroll /\ finger = Label))
     \/ TouchEndIgnored /\ wanted' = (wanted # (sends /\ finger = Label))
  /\ sends => ~didScroll
  /\ clicks' = IF sends THEN Append(clicks, [at |-> finger, done |-> ~blockTouch]) ELSE clicks
  /\ finger' = Nothing
  /\ UNCHANGED <<scrolling, late, stray>>

\* enableMouseBindings, a second and a half after the last touch.
Reset ==
  /\ resetTimer
  /\ resetTimer' = FALSE
  /\ lastTouch' = Nothing
  /\ blockedAt' = {} /\ blockedId' = {}
  /\ blockMouse' = FALSE /\ blockTouch' = TRUE
  /\ late' = (late \/ \E k \in DOMAIN clicks : clicks[k].done)
  /\ UNCHANGED <<finger, didScroll, clicks, checked, link, press, scrolling, wanted, stray>>

-----------------------------------------------------------------------------
\* Mutant: the click is not captured.
notBlocked(at, e) == FALSE

\* The click that is captured first: by its place, or by the touch of its target.
isBlocked(at, e) == at \in blockedAt \/ e \in blockedId

\* mouseEventCallback: whether a vclick is made of the click.
makesVclick(e) == ~blockMouse /\ lastTouch # e

\* A click on the label that is not blocked: by a vclick, or by the browser itself.
\* A click on the link takes the address back and goes there.  The mousedown and the
\* mouseup before it, if they count, press the button and release it, and leave a timer.
NativeClick(e) ==
  /\ clicks # <<>>
  /\ clicks' = Tail(clicks)
  /\ stray' = (stray \/ e # Head(clicks).at)
  /\ IF isBlocked(Head(clicks).at, e) THEN UNCHANGED <<checked, link>>
     ELSE /\ checked' = (checked # (e = Label))
          /\ LET hides == e = Anchor /\ makesVclick(e) /\ href # "#"
                 kept == IF hides THEN href ELSE saved
             IN IF e # Anchor THEN UNCHANGED link
                ELSE /\ saved' = kept
                     /\ href' = IF kept = Nothing THEN href ELSE kept
                     /\ gone' = href'
  /\ IF makesVclick(e)
     THEN vmousedown(e) /\ down' = down \ {e} /\ stuck' = stuck \cup ({e, hov} \ {Nothing})
     ELSE UNCHANGED press
  /\ UNCHANGED <<finger, didScroll, lastTouch, block, resetTimer, scrolling, wanted, late>>

MouseNext ==
  \/ \E e \in Element : TouchStart(e) \/ NativeClick(e) \/ HoverOver(e)
  \/ \E b \in BOOLEAN : TouchMove(b) \/ Lift(b)
  \/ Scroll \/ ScrollStop \/ Reset

MouseSpec == MouseInit /\ [][MouseNext]_mouseVars

-----------------------------------------------------------------------------
\* Each tap on the label toggles the checkbox once: by the vclick of the touch, or, when
\* the finger stayed so long that the timer has ended the touch, by the
\* click.  It fails for a click that comes only after the reset, for the list is empty
\* then (jquery.mobile-1.1.0.js:160-168); for the click of such a long touch, if the next touch
\* comes before it, whose list swallows it; and for one that the browser sends to
\* another element than was touched.
TapTogglesOnce ==
  finger = Nothing /\ clicks = <<>> /\ ~late /\ ~stray => checked = wanted

\* Nothing looks pressed but what is touched, whatever the timers, moves and scrolls: the
\* touch that ends takes the look back, or the timer that would bring it.  It fails for
\* a touch that ends after the reset, for nothing is done then (:294); and for mouse events
\* that count, whose timer nobody clears, and which forget that of a touch (:4387).
ButtonsRelease == down \subseteq {finger} \cup stuck
=============================================================================
