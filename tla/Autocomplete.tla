---------------------------- MODULE Autocomplete ----------------------------
(***************************************************************************)
(* The search box of the home page (web/js/jquery.autocomplete.js, with    *)
(* the changes made to it for this router: what is displayed of a          *)
(* suggestion is its "n", the list is cut at suggestionlimit and ends with *)
(* a line that counts it).  home.htm looks the functions up in an array;   *)
(* the code can also ask a server, with a cache.  A text stands for what   *)
(* its case and its inner characters make of it.                           *)
(***************************************************************************)
EXTENDS Integers, Sequences, FiniteSets

CONSTANTS Text,            \* values of the input
          Typed,           \* those the user types
          Trimmed,         \* Trimmed[t]: t without the blanks around it
          Results,         \* Results[q]: the "n" of what matches q, in order
          Prefix,          \* Prefix[q]: the queries that q starts with
          SuggestionLimit, \* suggestionlimit: 7 in home.htm
          NoRequest,
          MaxIndex         \* bound on selectedIndex

Blank == ""
Query == {Trimmed[t] : t \in Text}

ASSUME AutocompleteAssumption ==
  /\ Typed \subseteq Text /\ Blank \in Query
  /\ Trimmed \in [Text -> Text]
  /\ Results \in [Query -> Seq(Text)]
  /\ Prefix \in [Query -> SUBSET Query]
  /\ SuggestionLimit \in Nat \ {0}
  /\ NoRequest \notin Query
  /\ MaxIndex \in Nat /\ SuggestionLimit <= MaxIndex

Undefined == -2            \* the data-index of the line that counts

VARIABLES
  options,         \* whether the suggestions are local, and requests deferred
  val,             \* el.val()
  currentValue,
  suggestions,
  selectedIndex,   \* from 0; -1 for none
  visible,
  cached,          \* the queries in cachedResponse
  badQueries,
  request,         \* the query of currentRequest, while it is open
  onChange,        \* onChangeInterval runs
  killer,          \* killerFn is bound to the clicks of the document
  killing,         \* the interval of killSuggestions runs
  disabled,
  unanswered,      \* only for the properties: no answer will come for currentValue
  over             \* only for the properties: an answer came over a selection

list == <<suggestions, selectedIndex, visible, over>>
cache == <<cached, badQueries>>
blurring == <<killer, killing, disabled>>
autoVars == <<options, val, currentValue, list, cache, request, onChange, blurring, unanswered>>

AutoInit ==
  /\ options \in [local : BOOLEAN, defer : BOOLEAN]
  /\ val = Blank /\ currentValue = Blank
  /\ suggestions = <<>> /\ selectedIndex = -1
  /\ cached = {} /\ badQueries = {}
  /\ request = NoRequest
  /\ visible = FALSE /\ onChange = FALSE /\ disabled = FALSE
  /\ killer = FALSE /\ killing = FALSE
  /\ unanswered = FALSE /\ over = FALSE

-----------------------------------------------------------------------------
getQuery(t) == Trimmed[t]
isBadQuery(q) == Prefix[q] \cap badQueries # {}

hide == visible' = FALSE /\ selectedIndex' = -1

\* suggest: the list is displayed, be it empty; what was selected stays so.
suggest(found) == suggestions' = found /\ visible' = TRUE

\* What is displayed: the suggestions within the limit, and the line that counts.
Shown == IF Len(suggestions) < SuggestionLimit THEN Len(suggestions) ELSE SuggestionLimit

Type(t) ==
  /\ val' = t
  /\ UNCHANGED <<options, currentValue, list, cache, request, onChange, blurring, unanswered>>

\* getSuggestions: from the array or the cache at once; for a bad query not at all;
\* otherwise a request takes the place of the one that is open.
getSuggestions(q) ==
  \/ /\ options.local \/ q \in cached
     /\ suggest(Results[q])
     /\ unanswered' = FALSE
     /\ UNCHANGED request
  \/ /\ ~options.local /\ q \notin cached /\ isBadQuery(q)
     /\ unanswered' = TRUE
     /\ UNCHANGED <<suggestions, visible, request>>
  \/ /\ ~options.local /\ q \notin cached /\ ~isBadQuery(q)
     /\ request' = q
     /\ unanswered' = FALSE
     /\ UNCHANGED <<suggestions, visible>>

onValueChange ==
  /\ currentValue' = val
  /\ onChange' = FALSE
  /\ selectedIndex' = -1
  /\ IF getQuery(val) = Blank
     THEN hide /\ unanswered' = FALSE /\ UNCHANGED <<suggestions, request>>
     ELSE getSuggestions(getQuery(val))
  /\ UNCHANGED <<options, val, cache, blurring, over>>

\* onKeyUp, and the change event: the arrows are ignored; a lookup that was put off
\* is given up when the text is what it was.
onKeyUp ==
  /\ ~disabled
  /\ \/ currentValue # val /\ ~options.defer /\ onValueChange
     \/ /\ onChange' = (options.defer /\ currentValue # val)
        /\ currentValue = val \/ options.defer
        /\ UNCHANGED <<options, val, currentValue, list, cache, request, blurring, unanswered>>

Deferred == onChange /\ onValueChange

\* Mutant: an answer is displayed whatever was typed since.
AnswerShown ==
  /\ request # NoRequest
  /\ cached' = cached \cup {request}
  /\ badQueries' = IF Results[request] = <<>> THEN badQueries \cup {request} ELSE badQueries
  /\ suggest(Results[request]) /\ over' = (over \/ selectedIndex # -1)
  /\ request' = NoRequest
  /\ UNCHANGED <<options, val, currentValue, selectedIndex, onChange, blurring, unanswered>>

\* processResponse
Answer ==
  /\ request # NoRequest
  /\ cached' = cached \cup {request}
  /\ badQueries' = IF Results[request] = <<>> THEN badQueries \cup {request} ELSE badQueries
  /\ IF getQuery(currentValue) = request
     THEN suggest(Results[request]) /\ over' = (over \/ selectedIndex # -1)
     ELSE UNCHANGED <<suggestions, visible, over>>
  /\ request' = NoRequest
  /\ UNCHANGED <<options, val, currentValue, selectedIndex, onChange, blurring, unanswered>>

RequestFails ==
  /\ request # NoRequest
  /\ unanswered' = (unanswered \/ request = getQuery(currentValue))
  /\ request' = NoRequest
  /\ UNCHANGED <<options, val, currentValue, list, cache, onChange, blurring>>

-----------------------------------------------------------------------------
(* onKeyPress: all keys but the arrow down need a list that is visible.    *)

KeepOthers == UNCHANGED <<options, cache, request, onChange, blurring, unanswered, over>>
Key == ~disabled /\ visible

\* The arrow down brings the last list back.
ShowAgain ==
  /\ ~disabled /\ ~visible /\ currentValue # Blank
  /\ suggest(suggestions)
  /\ UNCHANGED <<selectedIndex, val, currentValue>> /\ KeepOthers

Escape ==
  /\ Key
  /\ val' = currentValue
  /\ hide
  /\ UNCHANGED <<suggestions, currentValue>> /\ KeepOthers

\* select, onSelect: for an index that there is not, the code stops at suggestion.n,
\* with the list hidden.
select(i) ==
  /\ hide
  /\ IF i \in 0 .. Len(suggestions) - 1
     THEN /\ val' = suggestions[i + 1]
          /\ currentValue' = suggestions[i + 1]
          /\ suggestions' = <<>>
     ELSE UNCHANGED <<val, currentValue, suggestions>>

\* return and tab
Enter ==
  /\ Key
  /\ IF selectedIndex = -1 THEN hide /\ UNCHANGED <<val, currentValue, suggestions>>
     ELSE select(selectedIndex)
  /\ KeepOthers

\* activate, adjustScroll: an index beyond the line that counts is selected but
\* not displayed; an index that is no number stays one.
adjustScroll(i) ==
  /\ selectedIndex' = i
  /\ val' = IF i \in 0 .. Shown /\ i < Len(suggestions) THEN suggestions[i + 1] ELSE val

moveUp ==
  /\ Key /\ selectedIndex # -1
  /\ \/ selectedIndex = 0 /\ selectedIndex' = -1 /\ val' = currentValue
     \/ selectedIndex > 0 /\ adjustScroll(selectedIndex - 1)
     \/ selectedIndex = Undefined /\ adjustScroll(Undefined)
  /\ UNCHANGED <<suggestions, visible, currentValue>> /\ KeepOthers

\* Mutant: the arrow down does not stop at the last suggestion.
moveDownOver ==
  /\ Key /\ selectedIndex < MaxIndex
  /\ adjustScroll(IF selectedIndex = Undefined THEN Undefined ELSE selectedIndex + 1)
  /\ UNCHANGED <<suggestions, visible, currentValue>> /\ KeepOthers

moveDown ==
  /\ Key /\ selectedIndex # Len(suggestions) - 1 /\ selectedIndex < MaxIndex
  /\ adjustScroll(IF selectedIndex = Undefined THEN Undefined ELSE selectedIndex + 1)
  /\ UNCHANGED <<suggestions, visible, currentValue>> /\ KeepOthers

\* The mouse, over a line and out of the list: the line that counts is one of them.
Lines == 0 .. Shown - 1 \cup {Undefined}

MouseOver(i) ==
  /\ visible /\ i \in Lines
  /\ selectedIndex' = i
  /\ UNCHANGED <<suggestions, visible, val, currentValue>> /\ KeepOthers

MouseOut ==
  /\ visible
  /\ selectedIndex' = -1
  /\ UNCHANGED <<suggestions, visible, val, currentValue>> /\ KeepOthers

ClickLine(i) == visible /\ i \in Lines /\ select(i) /\ KeepOthers

-----------------------------------------------------------------------------
KeepInput == UNCHANGED <<options, val, currentValue, cache, request, onChange, unanswered, disabled>>

\* onBlur, a click elsewhere, and the interval of 300 ms that hides the list.
onBlur == killer' = TRUE /\ UNCHANGED <<list, killing>> /\ KeepInput

ClickElsewhere ==
  /\ killer
  /\ killer' = FALSE
  /\ killing' = TRUE
  /\ UNCHANGED list /\ KeepInput

Kill ==
  /\ killing
  /\ hide
  /\ killing' = FALSE
  /\ UNCHANGED <<suggestions, over, killer>> /\ KeepInput

Switch ==
  /\ disabled' = ~disabled
  /\ UNCHANGED <<options, val, currentValue, list, cache, request, onChange, killer, killing, unanswered>>

clearCache ==
  /\ cached' = {} /\ badQueries' = {}
  /\ UNCHANGED <<options, val, currentValue, list, request, onChange, blurring, unanswered>>

AutoNext ==
  \/ \E t \in Typed : Type(t)
  \/ onKeyUp \/ Deferred \/ Answer \/ RequestFails
  \/ ShowAgain \/ Escape \/ Enter \/ moveUp \/ moveDown \/ MouseOut
  \/ \E i \in 0 .. SuggestionLimit \cup {Undefined} : MouseOver(i) \/ ClickLine(i)
  \/ onBlur \/ ClickElsewhere \/ Kill \/ Switch \/ clearCache

AutoSpec == AutoInit /\ [][AutoNext]_autoVars

-----------------------------------------------------------------------------
\* Return never meets a selection that there is not, and so never breaks off half way,
\* unless the mouse is on the line that counts, or an answer came when something
\* was selected in the list before it (jquery.autocomplete.js:584-587 keeps the index).
SelectionInRange ==
  \/ selectedIndex \in {-1, Undefined} \cup 0 .. Len(suggestions) - 1
  \/ over

\* When nothing is under way a list that is displayed is the one for what is in the
\* box.  Else the request has failed; or none was sent, for the query starts with one
\* that found nothing, and the code leaves the old list (:431); or only blanks
\* were typed, and the arrow down brings the old list back (:295).
QuietListFits ==
  /\ visible /\ suggestions # <<>>
  /\ request = NoRequest /\ ~onChange /\ val = currentValue
  => LET q == getQuery(currentValue)
     IN suggestions = Results[q] \/ unanswered \/ q = Blank

\* Types, with SelectionInRange and QuietListFits.
AutoTypeOK ==
  /\ options \in [local : BOOLEAN, defer : BOOLEAN]
  /\ val \in Text /\ currentValue \in Text
  /\ suggestions \in Seq(Text)
  /\ selectedIndex \in -2 .. MaxIndex
  /\ cached \subseteq Query /\ badQueries \subseteq Query
  /\ request \in Query \cup {NoRequest}
  /\ {visible, onChange, killer, killing, disabled, unanswered, over} \subseteq BOOLEAN
  /\ SelectionInRange /\ QuietListFits

\* A late answer never replaces the list for what was typed since: the list only becomes
\* the one of the current value, or is emptied (jquery.autocomplete.js:428-430, 584-587).
NoStaleAnswer ==
  [][suggestions' # suggestions
       => suggestions' = <<>> \/ suggestions' = Results[getQuery(currentValue')]]_autoVars
=============================================================================
