----------------------------- MODULE MobileLinks -----------------------------
(***************************************************************************)
(* Where a link of a page for telephones leads: the addresses of           *)
(* mobile/js/jquery.mobile-1.1.0.js ("path"), the click handler that makes *)
(* one of a link, and the element "base" that follows the pages.  All the  *)
(* pages live in the document of the first one, so that a relative link    *)
(* is made absolute by hand, with what is known of the page it is on.      *)
(*                                                                         *)
(* A text that is split at "/" is the sequence of its parts: "/a/b" is     *)
(* <<"", "a", "b">>, "b" is <<"b">> and "" is <<"">>.  A hash without its  *)
(* "#" is such a text, and <<>> if there is none.  One request at a time:  *)
(* MobilePages has the others.                                             *)
(***************************************************************************)
EXTENDS Integers, SequencesExt

CONSTANTS Href,            \* what the links of the pages say
          Home,            \* documentUrl, which is documentBase here
          MaxDepth,        \* bound on the parts of an address
          NoAddress

Rooted(text) == Len(text) > 1 /\ text[1] = ""
NoHash == <<>>

Address == [domain : STRING, path : Seq(STRING), search : STRING]

\* A part of a path that is not one of the dots.
Name == STRING \ {".", ".."}

\* A rooted path has no dots, and a relative one does not end in them; no part in the
\* middle is empty: see LinksResolve.
Plain(path) ==
  /\ path # <<>> /\ Last(path) \in Name
  /\ Rooted(path) => path \in Seq(Name)
  /\ \A k \in 2 .. Len(path) - 1 : path[k] # ""

\* A path with a domain is rooted.
ASSUME LinksAssumption ==
  /\ Href \subseteq [domain : STRING, path : Seq(STRING), search : STRING, hash : Seq(STRING)]
  /\ \A h \in Href : /\ Plain(h.path) /\ (h.hash # NoHash => Plain(h.hash))
                     /\ h.domain # "" => Rooted(h.path)
  /\ Home \in Address /\ Home.domain # "" /\ Rooted(Home.path) /\ Plain(Home.path)
  /\ MaxDepth \in Nat
  /\ NoAddress \notin Address

VARIABLES
  page,        \* data-url of activePage
  base,        \* the element "base"
  loading,     \* the address that is loaded
  address,     \* only for the properties: where the browser would be, were each link
               \* followed in a document of its own
  kept         \* only for the properties: the base was reset, and the page stayed

linksVars == <<page, base, loading, address, kept>>

LinksTypeOK ==
  /\ {page, base, address} \subseteq Address
  /\ loading \in Address \cup {NoAddress}
  /\ kept \in BOOLEAN

-----------------------------------------------------------------------------
(* path                                                                    *)

\* One turn of the loop of makePathAbsolute.
Push(stack, d) ==
  CASE d = "." -> stack
    [] d = ".." -> IF stack = <<>> THEN stack ELSE Front(stack)
    [] OTHER -> Append(stack, d)

\* The loop.
Pushed(stack, relStack) ==
  LET after[k \in 0 .. Len(relStack)] == IF k = 0 THEN stack ELSE Push(after[k - 1], relStack[k])
  IN after[Len(relStack)]

\* Mutant: the file of the address is not taken off.
makePathBeside(relPath, absPath) ==
  IF Rooted(relPath) THEN relPath
  ELSE LET absStack == Pushed(Tail(absPath), relPath)
       IN <<"">> \o IF absStack = <<>> THEN <<"">> ELSE absStack

makePathAbsolute(relPath, absPath) ==
  IF Rooted(relPath) THEN relPath
  ELSE LET absStack == Pushed(SubSeq(absPath, 2, Len(absPath) - 1), relPath)
       IN <<"">> \o IF absStack = <<>> THEN <<"">> ELSE absStack

makeUrlAbsolute(rel, abs) ==
  LET hasPath == rel.path # <<"">>
  IN [domain |-> IF rel.domain = "" THEN abs.domain ELSE rel.domain,
      path |-> makePathAbsolute(IF hasPath THEN rel.path ELSE <<Last(abs.path)>>, abs.path),
      search |-> IF rel.search = "" /\ ~hasPath THEN abs.search ELSE rel.search]

\* The domain of the document is taken off.
convertUrlToDataUrl(url) == IF url.domain = Home.domain THEN [url EXCEPT !.domain = ""] ELSE url

isFirstPageUrl(url) == makeUrlAbsolute(url, Home) = Home

\* The address of the page that a link is on.
getClosestBaseUrl == makeUrlAbsolute(page, Home)

isExternal(url) == url.domain # Home.domain

LinksInit ==
  /\ page = convertUrlToDataUrl(Home) /\ base = Home /\ address = Home
  /\ loading = NoAddress /\ kept = FALSE

-----------------------------------------------------------------------------
(* The links.                                                              *)

\* The click handler: the hash is an address if it has a "/" in it, else the name of
\* a page in the document, which these pages do not have, or nothing.
Ignored(h) == h.hash = <<"">>
Embedded(h) == Len(h.hash) = 1 /\ h.hash # <<"">>
Target(h) ==
  IF h.hash = NoHash THEN makeUrlAbsolute(h, getClosestBaseUrl)
  ELSE makeUrlAbsolute([domain |-> "", path |-> h.hash, search |-> ""], getClosestBaseUrl)

\* What the browser makes of a link (RFC 3986, 5.2): of the directory and the path, the
\* names that no ".." behind them takes back, those where the height of the path never
\* falls below what it is there.
IsName(d) == d \notin {".", ".."}
Rise(d) == IF IsName(d) THEN 1 ELSE IF d = ".." THEN -1 ELSE 0
Height(s) ==
  LET height[k \in 0 .. Len(s)] == IF k = 0 THEN 0 ELSE height[k - 1] + Rise(s[k])
  IN height
Only(s, places) ==
  LET only[k \in 0 .. Len(s)] ==
        IF k = 0 THEN <<>> ELSE IF k \in places THEN Append(only[k - 1], s[k]) ELSE only[k - 1]
  IN only[Len(s)]
Stays(s, n) ==
  LET height == Height(s)
  IN {k \in 1 .. n : IsName(s[k]) /\ \A j \in k .. n : height[k] <= height[j]}
Remain(s) == Only(s, Stays(s, Len(s)))

Resolved(h, from) ==
  LET path == IF h.hash = NoHash THEN h.path ELSE h.hash
      search == IF h.hash = NoHash THEN h.search ELSE ""
      directory == SubSeq(from.path, 2, Len(from.path) - 1)
  IN [domain |-> from.domain,
      path |-> IF Rooted(path) THEN path
               ELSE IF path = <<"">> THEN from.path ELSE <<"">> \o Remain(directory \o path),
      search |-> IF path = <<"">> /\ search = "" THEN from.search ELSE search]

\* A link is followed to a page of the document: the first one, or that of the link.
\* The base is reset before it is looked for.
FollowHere(h) ==
  /\ loading = NoAddress
  /\ ~isExternal(Target(h)) /\ ~Ignored(h) /\ ~Embedded(h)
  /\ Target(h) = getClosestBaseUrl \/ isFirstPageUrl(Target(h))
  /\ page' = convertUrlToDataUrl(Target(h))
  /\ base' = Home
  /\ kept' = (page' = page /\ getClosestBaseUrl # Home)
  /\ address' = Resolved(h, address)
  /\ UNCHANGED loading

\* Or to another one, which is asked for.
Follow(h) ==
  /\ loading = NoAddress
  /\ ~isExternal(Target(h)) /\ ~Ignored(h) /\ ~Embedded(h)
  /\ Target(h) # getClosestBaseUrl /\ ~isFirstPageUrl(Target(h))
  /\ Len(Target(h).path) <= MaxDepth
  /\ loading' = Target(h)
  /\ base' = Home
  /\ kept' = (getClosestBaseUrl # Home)
  /\ address' = Resolved(h, address)
  /\ UNCHANGED page

\* The page has come, and the base is its address.
PageLoaded ==
  /\ loading # NoAddress
  /\ page' = convertUrlToDataUrl(loading)
  /\ base' = makeUrlAbsolute(loading, Home)
  /\ loading' = NoAddress
  /\ kept' = FALSE
  /\ UNCHANGED address

\* It has not: the base is set to what is in the hash, which is nothing.
PageFails ==
  /\ loading # NoAddress
  /\ base' = makeUrlAbsolute([domain |-> "", path |-> <<"">>, search |-> ""], Home)
  /\ loading' = NoAddress
  /\ address' = getClosestBaseUrl
  /\ UNCHANGED <<page, kept>>

\* A link to elsewhere is left to the browser, which loads the document anew for the
\* way back.
GoElsewhere(h) ==
  /\ isExternal(Target(h))
  /\ page' = convertUrlToDataUrl(Home) /\ base' = Home /\ address' = Home
  /\ loading' = NoAddress /\ kept' = FALSE

LinksNext ==
  \/ \E h \in Href : FollowHere(h) \/ Follow(h) \/ GoElsewhere(h)
  \/ PageLoaded \/ PageFails

LinksSpec == LinksInit /\ [][LinksNext]_linksVars

-----------------------------------------------------------------------------
\* After any sequence of links the page is the one the browser itself would have come
\* to, and so is the base, unless a request has reset it and the page stayed: of a
\* failed load the comment says "set base back to current path"
\* (jquery.mobile-1.1.0.js:3158), but the hash it is taken from is empty.  Three
\* kinds of link are excepted, which these pages have not: a rooted path with dots, which is
\* not made shorter; a relative one that ends in a dot, which loses its last "/"; and one
\* with an empty part in the middle, which may be lost.
LinksResolve ==
  /\ IF loading = NoAddress THEN getClosestBaseUrl = address ELSE loading = address
  /\ loading = NoAddress /\ ~kept => base = address
=============================================================================
