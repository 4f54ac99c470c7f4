------------------------------- MODULE Dialog -------------------------------
(***************************************************************************)
(* The dialogs of artDialog (web/js/artDialog/jquery.artDialog.js): what   *)
(* each call makes of the state of a window.  Callbacks call one another   *)
(* without a break, so that the calls are operators on the state u:        *)
(*   u.list    artDialog.list: the open dialogs by their id                *)
(*   u.pool    the object of a closed dialog that the next one will use    *)
(*   u.focus   artDialog.focus                                             *)
(*   u.stack   the dialogs and the masks of the locked ones, by z-index;   *)
(*             each is in it once at most                                  *)
(*   u.shows   what is displayed in an object                              *)
(*   u.config  what it was opened with, by the words: its buttons          *)
(*   u.timer   the objects whose time() runs                               *)
(*   u.data    artDialog.data: the object of an open window by its id      *)
(*   u.full    the objects that display the page of a frame                *)
(*   u.drag    the object that the mouse drags or resizes                  *)
(*   u.hidden  the objects whose main part is hidden                       *)
(* The last four are of plugins/iframeTools.source.js, but for the drag.   *)
(***************************************************************************)
EXTENDS SequencesExt

CONSTANTS Object,          \* the objects of artDialog
          DialogId,        \* the ids of dialogs
          NoObject         \* null

Mask(o) == <<"mask", o>>

ASSUME DialogAssumption == NoObject \notin Object /\ \A o \in Object : Mask(o) \notin Object

NoDialogs == [list  |-> [i \in DialogId |-> NoObject],
              pool  |-> NoObject,
              focus |-> NoObject,
              stack |-> <<>>,
              shows |-> [o \in Object |-> "nothing"],
              config |-> [o \in Object |-> "nothing"],
              timer |-> {},
              data  |-> [i \in DialogId |-> NoObject],
              full  |-> {},
              drag  |-> NoObject,
              hidden |-> {}]

OpenObjects(u) == {u.list[i] : i \in DialogId} \ {NoObject}
IdOf(u, o) == CHOOSE i \in DialogId : u.list[i] = o
Locked(u, o) == Contains(u.stack, Mask(o))

\* zIndex: the dialog comes to the top and has the focus; its mask stays where it is.
zIndex(u, o) == [u EXCEPT !.stack = Append(RemoveFirst(@, o), o), !.focus = o]

\* lock: the mask is put over all that was there, and the dialog over the mask.
lock(u, o) ==
  IF Locked(u, o) THEN u
  ELSE [u EXCEPT !.stack = RemoveFirst(@, o) \o <<Mask(o), o>>, !.focus = o]

unlock(u, o) == [u EXCEPT !.stack = RemoveFirst(@, Mask(o))]

\* time: any timer of the dialog is cleared, and set if there is a time.
clearTime(u, o) == [u EXCEPT !.timer = @ \ {o}]
setTime(u, o) == [u EXCEPT !.timer = @ \cup {o}]

\* content: other words are displayed; the buttons, and a timer, stay.
content(u, o, text) == [u EXCEPT !.shows[o] = text]

\* The object a new dialog gets: the one in the pool, or a new one.
NewObject(u) ==
  IF u.pool # NoObject THEN u.pool
  ELSE CHOOSE o \in Object : o \notin OpenObjects(u)

\* artDialog: a dialog with this id that is open is only brought to the top,
\* whatever the new configuration says; otherwise _init.
artDialog(u, i, text) ==
  IF u.list[i] # NoObject THEN zIndex(u, u.list[i])
  ELSE LET o == NewObject(u)
           opened == [u EXCEPT !.list[i] = o, !.pool = NoObject,
                               !.timer = @ \ {o}, !.shows[o] = text, !.config[o] = text]
       IN zIndex(opened, o)

\* artDialog.data, removeData: what the page of a frame finds its window by.
data(u, i, o) == [u EXCEPT !.data[i] = o]
removeData(u, i) == [u EXCEPT !.data[i] = NoObject]

\* artDialog.open: a dialog with a frame, whose page finds the object by the window's name.
openPage(u, i) ==
  IF u.list[i] # NoObject THEN zIndex(u, u.list[i])
  ELSE LET v == artDialog(u, i, "loading")
       IN data(v, i, v.list[i])

\* load: the page of the frame is there, and takes the place of "loading".
load(u, i) == [content(u, u.data[i], "frame") EXCEPT !.full = @ \cup {u.data[i]}]

\* start and end of a drag: the main part of a dialog with a frame (larger than 307200
\* pixels) is hidden, and the one of the dialog that has the focus then is shown.
start(u, o) == [u EXCEPT !.drag = o, !.hidden = @ \cup (u.full \cap {o})]
end(u) == [u EXCEPT !.drag = NoObject, !.hidden = @ \ {u.focus}]

\* close, for a dialog whose close callback does not veto: the object goes to
\* the pool, or is dropped when there is one in it.  Its frame is removed, and
\* with it what the frame finds by its name; a hidden part stays hidden.
close(u, o) ==
  IF o \notin OpenObjects(u) THEN u
  ELSE LET bare == unlock(clearTime(removeData(u, IdOf(u, o)), o), o)
       IN [bare EXCEPT !.list[IdOf(u, o)] = NoObject,
                       !.stack = RemoveFirst(@, o),
                       !.focus = IF @ = o THEN NoObject ELSE @,
                       !.full = @ \ {o},
                       !.hidden = IF u.pool = NoObject THEN @ ELSE @ \ {o},
                       !.shows[o] = "nothing",
                       !.config[o] = "nothing",
                       !.pool = IF @ = NoObject THEN o ELSE @]

\* A dialog can be clicked if no mask lies over it; the page if there is none.
Above(u, o) == {u.stack[k] : k \in {j \in 1 .. Len(u.stack) :
                              \E h \in 1 .. j - 1 : u.stack[h] = o}}
Reachable(u, o) == \A x \in OpenObjects(u) : Mask(x) \notin Above(u, o)
PageReachable(u) == \A x \in OpenObjects(u) : ~Locked(u, x)
=============================================================================
