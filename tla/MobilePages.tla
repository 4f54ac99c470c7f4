---------------------------- MODULE MobilePages ----------------------------
(***************************************************************************)
(* How the pages for telephones (view/admin_mobile) follow one another in  *)
(* one document: changePage and loadPage of mobile/js/jquery.mobile-1.1.0.js*)
(* with the lock and the queue of transitions, urlHistory, and pushState,  *)
(* which keeps the history of the browser in step.  A page stands for its  *)
(* address; this firmware has no dialogs and no embedded pages.  The       *)
(* hashchange event that follows a change of location.hash is part of the  *)
(* step that makes it, for the browser delivers it before it goes back or  *)
(* forward.  A call that changes pages is an operator on the state n, for  *)
(* one call may serve the next request in the queue.                       *)
(***************************************************************************)
EXTENDS Naturals, SequencesExt

CONSTANTS Page,            \* the pages
          First,           \* the one of the document
          MaxHistory,      \* bound on the history of the browser, and on urlHistory
          MaxQueue,        \* bound on the requests that wait
          MaxErrors        \* bound on the error messages that are not taken back

ASSUME PagesAssumption ==
  /\ First \in Page
  /\ {MaxHistory, MaxQueue, MaxErrors} \subseteq Nat

VARIABLES
  nav,         \* the state of the pages:
               \*   entries, at     the history of the browser, and where it is
               \*   stack, index    urlHistory
               \*   page            activePage
               \*   dom             the pages in the document
               \*   phase           "idle" if isPageTransitioning is not set
               \*   to              the request that is loaded
               \*   leaving         the page that the transition hides
               \*   queue           pageTransitionQueue, the newest first
               \*   loader          what the loading message says
               \*   showTimer       loadMsgDelay is set
  errTimers,   \* the timers that take an error message back
  raced,       \* only for the properties: the browser went elsewhere while a link
               \* waited to change the address, or a request was left in the queue
  unreached    \* only for the properties: a page the browser went to has not come

pageVars == <<nav, errTimers, raced, unreached>>

\* fromHash: the request is of the browser's buttons, and not of a link.
Request == [page : Page, fromHash : BOOLEAN]
Link(p) == [page |-> p, fromHash |-> FALSE]
Popped(p) == [page |-> p, fromHash |-> TRUE]

\* urlHistory knows the page that is displayed: its title and the place it was scrolled
\* to are those of the entry at activeIndex.
HistoryIsPage == nav.stack[nav.index] = nav.page

\* Types, and HistoryIsPage; the page that is displayed is in the document.
PagesTypeOK ==
  /\ nav \in [entries : Seq(Page), at : Nat, stack : Seq(Page), index : Nat,
              page : Page, dom : SUBSET Page, phase : {"idle", "loading", "moving"},
              to : Request, leaving : Page, queue : Seq(Request),
              loader : {"off", "loading", "error"}, showTimer : BOOLEAN]
  /\ nav.at \in DOMAIN nav.entries /\ nav.index \in DOMAIN nav.stack
  /\ {nav.page, First} \subseteq nav.dom
  /\ errTimers \in Nat
  /\ raced \in BOOLEAN /\ unreached \in BOOLEAN
  /\ HistoryIsPage

\* initializePage
PagesInit ==
  /\ nav = [entries |-> <<First>>, at |-> 1, stack |-> <<First>>, index |-> 1,
            page |-> First, dom |-> {First}, phase |-> "idle", to |-> Link(First),
            leaving |-> First, queue |-> <<>>, loader |-> "off", showTimer |-> FALSE]
  /\ errTimers = 0
  /\ raced = FALSE /\ unreached = FALSE

-----------------------------------------------------------------------------
\* addNew: the pages ahead are forgotten.
addNew(n, p) == [n EXCEPT !.stack = Append(SubSeq(@, 1, n.index), p), !.index = n.index + 1]

\* directHashChange: the last entry with this address, be it the one the browser
\* went to or not.
Known(n, p) == \E k \in DOMAIN n.stack : n.stack[k] = p
LastWith(n, p) == CHOOSE k \in DOMAIN n.stack :
                    n.stack[k] = p /\ \A j \in DOMAIN n.stack : n.stack[j] = p => j <= k
directHashChange(n, p) == IF Known(n, p) THEN [n EXCEPT !.index = LastWith(n, p)]
                          ELSE addNew(n, p)

\* path.set, and the handlers of pushState that make an address of the hash.
setPath(n, p) == [n EXCEPT !.entries = Append(SubSeq(@, 1, n.at), p), !.at = n.at + 1]

\* transitionPages: the loading message goes, and the animation starts.
transitionPages(n, p) ==
  [n EXCEPT !.page = p, !.leaving = n.page, !.phase = "moving", !.loader = "off"]

\* Mutant: the address is not set.
showPageOnly(n, r) ==
  IF r.page = n.page THEN [n EXCEPT !.phase = "idle"]
  ELSE LET m == IF r.fromHash THEN directHashChange(n, r.page) ELSE addNew(n, r.page)
       IN transitionPages(m, r.page)

\* changePage, for a page in the document: the one that is displayed is not changed,
\* and the lock is given up without a look at the queue.
showPage(n, r) ==
  IF r.page = n.page THEN [n EXCEPT !.phase = "idle"]
  ELSE LET m == IF r.fromHash THEN directHashChange(n, r.page)
                ELSE addNew(setPath(n, r.page), r.page)
       IN transitionPages(m, r.page)

\* loadPage: the page is in the document, or asked for.
loadPage(n, r) ==
  IF r.page \in n.dom THEN showPage(n, r)
  ELSE [n EXCEPT !.phase = "loading", !.to = r, !.showTimer = TRUE]

\* changePage, for an address: it waits while another is under way.
changePage(n, r) ==
  IF n.phase # "idle" THEN [n EXCEPT !.queue = <<r>> \o @]
  ELSE loadPage(n, r)

\* releasePageTransitionLock: the request that has waited the longest is served.
release(n) ==
  LET free == [n EXCEPT !.phase = "idle"]
  IN IF n.queue = <<>> THEN free
     ELSE changePage([free EXCEPT !.queue = Front(@)], Last(n.queue))

\* _bindPageRemove: a page that was loaded is taken out when it is hidden.
hidePage(n) == [n EXCEPT !.dom = @ \ ({n.leaving} \ {First})]

\* Mutant: the message is taken away, but not the timer that will display it.
hideMsgOnly(n) == [n EXCEPT !.loader = "off"]

\* hidePageLoadingMsg, and the timer of loadPage that would display it.
hideMsg(n) == [n EXCEPT !.showTimer = FALSE, !.loader = "off"]

-----------------------------------------------------------------------------
Bounded(n) == Len(n.entries) <= MaxHistory /\ Len(n.stack) <= MaxHistory
              /\ Len(n.queue) <= MaxQueue

\* The step makes n of the state of the pages.
Becomes(n) ==
  /\ Bounded(n)
  /\ nav' = n

IsStuck(n) == n.phase = "idle" /\ n.queue # <<>>
LinkWaits == \/ nav.phase = "loading" /\ ~nav.to.fromHash
             \/ \E k \in DOMAIN nav.queue : ~nav.queue[k].fromHash

\* A link that is shown sets the address right, if nobody went elsewhere meanwhile.
Causes(race, failure) ==
  IF nav'.at # nav.at
  THEN raced' = (\E k \in DOMAIN nav'.queue : nav'.queue[k].fromHash) /\ unreached' = FALSE
  ELSE raced' = (raced \/ race) /\ unreached' = (unreached \/ failure)

\* A link is clicked.
ClickLink(p) ==
  /\ Becomes(changePage(nav, Link(p)))
  /\ Causes(FALSE, FALSE)
  /\ UNCHANGED errTimers

\* popstate, after a step of the browser: the address has changed already.
Traverse(k) ==
  /\ k \in {nav.at - 1, nav.at + 1} \cap DOMAIN nav.entries
  /\ Becomes(changePage([nav EXCEPT !.at = k], Popped(nav.entries[k])))
  /\ raced' = (raced \/ LinkWaits \/ IsStuck(nav'))
  /\ UNCHANGED <<errTimers, unreached>>

\* The page has come: it is put into the document and shown.
Loaded ==
  /\ nav.phase = "loading"
  /\ LET n == hideMsg([nav EXCEPT !.dom = @ \cup {nav.to.page}, !.phase = "idle"])
     IN Becomes(changePage(n, nav.to))
  /\ Causes(FALSE, FALSE)
  /\ UNCHANGED errTimers

\* It has not: an error is displayed for a while, and the next request is served.
LoadFails ==
  /\ nav.phase = "loading" /\ errTimers < MaxErrors
  /\ Becomes(release([hideMsg(nav) EXCEPT !.loader = "error"]))
  /\ errTimers' = errTimers + 1
  /\ Causes(IsStuck(nav'), nav.to.fromHash)

\* The animation ends: the page that was hidden goes, and the next request is served.
AnimationEnds ==
  /\ nav.phase = "moving"
  /\ Becomes(release(hidePage(nav)))
  /\ Causes(IsStuck(nav'), FALSE)
  /\ UNCHANGED errTimers

\* The timers of the message, which know nothing of one another.
ShowMsg ==
  /\ nav.showTimer
  /\ Becomes([nav EXCEPT !.showTimer = FALSE, !.loader = "loading"])
  /\ UNCHANGED <<errTimers, raced, unreached>>

ErrorOver ==
  /\ errTimers > 0
  /\ errTimers' = errTimers - 1
  /\ Becomes([nav EXCEPT !.loader = "off"])
  /\ UNCHANGED <<raced, unreached>>

PagesNext ==
  \/ \E p \in Page \ {First} : ClickLink(p)
  \/ \E k \in 1 .. MaxHistory : Traverse(k)
  \/ Loaded \/ LoadFails \/ AnimationEnds \/ ShowMsg \/ ErrorOver

PagesSpec == PagesInit /\ [][PagesNext]_pageVars

-----------------------------------------------------------------------------
\* When nothing is under way, the address is that of the page that is displayed, unless
\* the user went back or forward while a link was still waiting to change the address
\* (a link that is loaded then adds its entry behind the one that was gone
\* to, and the step back is served after it), or a page that was gone back to failed.
AddressIsPage ==
  nav.phase = "idle" /\ ~raced /\ ~unreached => nav.entries[nav.at] = nav.page

\* A message does not stay when nothing is under way, whatever order loads, failures
\* and the timers come in.
MessageGoes == nav.loader # "off" => nav.phase = "loading" \/ errTimers > 0

\* What the comment of changePage says (jquery.mobile-1.1.0.js:3214-3216): a request that came in the midst of
\* a transition is served once that is done.
QueueIsServed == nav.phase = "idle" => nav.queue = <<>>
=============================================================================
