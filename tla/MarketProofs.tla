---------------------------- MODULE MarketProofs ----------------------------
(***************************************************************************)
(* Proofs about Market, for every set of workers, apps and versions.       *)
(***************************************************************************)
EXTENDS Market, TLAPS

\* A command for an app whose lock was never collected has the lock.
Owns == \A c \in Worker : Inside(c) /\ app[c] \notin unsafe => owner = c

Full(a, v) == effect[a][v] = "installed"
Nothing(a) == \A v \in Version : ~Full(a, v)
Only(a, w) == \A v \in Version : Full(a, v) <=> v = w

\* What AppWhole says of one app.
Whole(a) == script[a] = info[a] /\ \A v \in Version : Full(a, v) <=> script[a] = v

\* What a command has made of its app when it comes to each of its steps.
Made(c) ==
  /\ at[c] \in {"fetch", "uninstall", "unlock"} => Whole(app[c])
  /\ at[c] = "rmscript" => Nothing(app[c])
  /\ at[c] = "rminfo" => Nothing(app[c]) /\ script[app[c]] = None
  /\ at[c] = "install" => Nothing(app[c]) /\ script[app[c]] = None /\ info[app[c]] = None
  /\ at[c] = "cpscript" => Only(app[c], package[c]) /\ script[app[c]] = None /\ info[app[c]] = None
  /\ at[c] = "cpinfo" => Only(app[c], package[c]) /\ script[app[c]] = package[c]

Progress == \A c \in Worker : Inside(c) /\ app[c] \notin unsafe => Made(c)

IInv == TypeOK /\ Owns /\ Progress /\ AppWhole

LEMMA InitIInv == Init => IInv
BY MarketAssumption
DEF Init, IInv, TypeOK, Places, Owns, Progress, Inside, AppWhole

\* Type correctness, for each step.
LEMMA TypeStep == TypeOK /\ [Next]_vars => TypeOK'
<1> SUFFICES ASSUME TypeOK, [Next]_vars PROVE TypeOK'
  OBVIOUS
<1> USE MarketAssumption DEF TypeOK, Places, Goes, disk, command, Released, Inside
<1>1. ASSUME NEW c \in Worker, Work(c) PROVE TypeOK'
  <2>1. CASE Command(c)      BY <2>1 DEF Command
  <2>2. CASE Lock(c)         BY <2>2 DEF Lock
  <2>3. CASE Fetch(c)        BY <2>3 DEF Fetch
  <2>4. CASE FetchFails(c)   BY <2>4 DEF FetchFails
  <2>0. ASSUME NEW a \in App, NEW v \in Version, NEW e \in {"none", "remains", "installed"},
               effect' = [effect EXCEPT ![a][v] = e]
        PROVE  effect' \in [App -> [Version -> {"none", "remains", "installed"}]]
    BY <2>0
  <2>5. CASE RunUninstall(c)
    <3>1. effect' \in [App -> [Version -> {"none", "remains", "installed"}]]
      <4>1. CASE script[app[c]] = None
        BY <2>5, <4>1 DEF RunUninstall
      <4>2. CASE script[app[c]] # None
        <5>1. app[c] \in App /\ script[app[c]] \in Version
          BY <2>5, <4>2 DEF RunUninstall
        <5> QED
          BY <2>0, <2>5, <4>2, <5>1 DEF RunUninstall
      <4> QED
        BY <4>1, <4>2
    <3> QED
      BY <2>5, <3>1 DEF RunUninstall
  <2>6. CASE RemoveScript(c) BY <2>6 DEF RemoveScript
  <2>7. CASE RemoveInfo(c)   BY <2>7 DEF RemoveInfo
  <2>8. CASE Install(c)      BY <2>8 DEF Install
  <2>9. CASE InstallFails(c)
    <3>1. app[c] \in App /\ package[c] \in Version
      BY <2>9 DEF InstallFails
    <3>2. effect' \in [App -> [Version -> {"none", "remains", "installed"}]]
      BY <2>0, <2>9, <3>1 DEF InstallFails
    <3> QED
      BY <2>9, <3>2 DEF InstallFails
  <2>10. CASE CopyScript(c)  BY <2>10 DEF CopyScript
  <2>11. CASE CopyInfo(c)    BY <2>11 DEF CopyInfo
  <2>12. CASE Unlock(c)      BY <2>12 DEF Unlock
  <2>13. CASE Exit(c)        BY <2>13 DEF Exit
  <2>14. CASE Collect(c)     BY <2>14 DEF Collect
  <2> QED
    BY <1>1, <2>1, <2>2, <2>3, <2>4, <2>5, <2>6, <2>7, <2>8, <2>9, <2>10, <2>11, <2>12,
       <2>13, <2>14 DEF Work
<1>2. CASE PowerCut
  BY <1>2 DEF PowerCut
<1>3. CASE UNCHANGED vars
  BY <1>3 DEF vars
<1> QED
  BY <1>1, <1>2, <1>3 DEF Next
-----------------------------------------------------------------------------
\* The lock of a command whose lock was not collected, for each step.
LEMMA OwnsStep == TypeOK /\ Owns /\ [Next]_vars => Owns'
<1> SUFFICES ASSUME TypeOK, Owns, [Next]_vars PROVE Owns'
  OBVIOUS
<1> USE MarketAssumption DEF TypeOK, Places, Goes, disk, command, Released, Inside, Owns
<1>1. ASSUME NEW c \in Worker, Work(c) PROVE Owns'
  <2>1. CASE Command(c)      BY <2>1 DEF Command
  <2>2. CASE Lock(c)         BY <2>2 DEF Lock
  <2>3. CASE Fetch(c)        BY <2>3 DEF Fetch
  <2>4. CASE FetchFails(c)   BY <2>4 DEF FetchFails
  <2>5. CASE RunUninstall(c) BY <2>5 DEF RunUninstall
  <2>6. CASE RemoveScript(c) BY <2>6 DEF RemoveScript
  <2>7. CASE RemoveInfo(c)   BY <2>7 DEF RemoveInfo
  <2>8. CASE Install(c)      BY <2>8 DEF Install
  <2>9. CASE InstallFails(c) BY <2>9 DEF InstallFails
  <2>10. CASE CopyScript(c)  BY <2>10 DEF CopyScript
  <2>11. CASE CopyInfo(c)    BY <2>11 DEF CopyInfo
  <2>12. CASE Unlock(c)      BY <2>12 DEF Unlock
  <2>13. CASE Exit(c)        BY <2>13 DEF Exit
  <2>14. CASE Collect(c)     BY <2>14 DEF Collect
  <2> QED
    BY <1>1, <2>1, <2>2, <2>3, <2>4, <2>5, <2>6, <2>7, <2>8, <2>9, <2>10, <2>11, <2>12,
       <2>13, <2>14 DEF Work
<1>2. CASE PowerCut
  BY <1>2 DEF PowerCut
<1>3. CASE UNCHANGED vars
  BY <1>3 DEF vars
<1> QED
  BY <1>1, <1>2, <1>3 DEF Next
-----------------------------------------------------------------------------
\* A command leaves every app but its own alone.
LEMMA OthersKept ==
  ASSUME TypeOK, NEW c \in Worker, Work(c), NEW a \in App, at[c] = "idle" \/ a # app[c]
  PROVE  script'[a] = script[a] /\ info'[a] = info[a] /\ effect'[a] = effect[a]
<1> USE MarketAssumption DEF TypeOK, Goes, disk
<1>1. CASE Command(c) \/ Lock(c) \/ Fetch(c) \/ FetchFails(c)
  BY <1>1 DEF Command, Lock, Fetch, FetchFails
<1>2. CASE RunUninstall(c) \/ RemoveScript(c) \/ RemoveInfo(c)
  BY <1>2 DEF RunUninstall, RemoveScript, RemoveInfo
<1>3. CASE Install(c) \/ InstallFails(c) \/ CopyScript(c) \/ CopyInfo(c)
  BY <1>3 DEF Install, InstallFails, CopyScript, CopyInfo
<1>4. CASE Unlock(c) \/ Exit(c) \/ Collect(c)
  BY <1>4 DEF Unlock, Exit, Collect
<1> QED
  BY <1>1, <1>2, <1>3, <1>4 DEF Work

\* A command leaves the others where they are.
LEMMA WorkersKept ==
  ASSUME TypeOK, NEW c \in Worker, Work(c), NEW d \in Worker, d # c
  PROVE  at'[d] = at[d] /\ app'[d] = app[d] /\ package'[d] = package[d]
BY DEF TypeOK, Goes, command, Work, Command, Lock, Fetch, FetchFails, RunUninstall,
   RemoveScript, RemoveInfo, Install, InstallFails, CopyScript, CopyInfo, Unlock, Exit,
   Collect

\* What a command has made of its app, for each of its own steps.
LEMMA MadeStep ==
  ASSUME IInv, TypeOK', NEW c \in Worker, Work(c), Inside(c)', app'[c] \notin unsafe'
  PROVE  Made(c)'
<1> USE MarketAssumption
    DEF IInv, TypeOK, Goes, disk, command, Inside, Made, Whole, Nothing, Only, Full, Places
<1>1. CASE Command(c) \/ Exit(c) \/ FetchFails(c) \/ Unlock(c)
  BY <1>1 DEF Command, Exit, FetchFails, Unlock
<1>2. CASE Lock(c)
  <2>1. \A d \in Worker : Inside(d) => app[d] # app[c]
    BY <1>2 DEF Lock, Owns
  <2>2. Whole(app[c])
    BY <1>2, <2>1 DEF Lock, AppWhole
  <2> QED
    BY <1>2, <2>2 DEF Lock
<1>3. ASSUME Inside(c), app[c] \notin unsafe PROVE Made(c)
  BY <1>3 DEF Progress
<1>4. CASE Fetch(c)        BY <1>3, <1>4 DEF Fetch
<1>5. CASE RunUninstall(c) BY <1>3, <1>5 DEF RunUninstall
<1>6. CASE RemoveScript(c) BY <1>3, <1>6 DEF RemoveScript
<1>7. CASE RemoveInfo(c)   BY <1>3, <1>7 DEF RemoveInfo
<1>8. CASE Install(c)      BY <1>3, <1>8 DEF Install
<1>9. CASE InstallFails(c) BY <1>3, <1>9 DEF InstallFails
<1>10. CASE CopyScript(c)  BY <1>3, <1>10 DEF CopyScript
<1>11. CASE CopyInfo(c)    BY <1>3, <1>11 DEF CopyInfo
<1>12. CASE Collect(c)     BY <1>12 DEF Collect
<1> QED
  BY <1>1, <1>2, <1>4, <1>5, <1>6, <1>7, <1>8, <1>9, <1>10, <1>11, <1>12 DEF Work

LEMMA ProgressStep == IInv /\ TypeOK' /\ [Next]_vars => Progress'
<1> SUFFICES ASSUME IInv, TypeOK', [Next]_vars PROVE Progress'
  OBVIOUS
<1>1. ASSUME NEW c \in Worker, Work(c) PROVE Progress'
  <2> SUFFICES ASSUME NEW d \in Worker, Inside(d)', app'[d] \notin unsafe' PROVE Made(d)'
    BY DEF Progress
  <2>1. CASE d = c
    BY <1>1, <2>1, MadeStep
  <2>2. CASE d # c
    <3>1. at'[d] = at[d] /\ app'[d] = app[d] /\ package'[d] = package[d]
      BY <1>1, <2>2, WorkersKept DEF IInv
    <3>2. unsafe \subseteq unsafe'
      BY <1>1 DEF Work, Command, Lock, Fetch, FetchFails, RunUninstall, RemoveScript,
         RemoveInfo, Install, InstallFails, CopyScript, CopyInfo, Unlock, Exit, Collect
    <3>3. Inside(d) /\ app[d] \notin unsafe /\ app[d] \in App
      BY <3>1, <3>2 DEF Inside, IInv, TypeOK
    <3>4. Made(d) /\ owner = d
      BY <3>3 DEF IInv, Progress, Owns
    <3>5. CASE app[c] # app[d] \/ at[c] = "idle"
      <4>1. /\ script'[app[d]] = script[app[d]] /\ info'[app[d]] = info[app[d]]
            /\ effect'[app[d]] = effect[app[d]]
        BY <1>1, <3>3, <3>5, OthersKept DEF IInv
      <4> QED
        BY <3>1, <3>4, <4>1 DEF Made, Whole, Nothing, Only, Full
    <3>6. CASE app[c] = app[d] /\ at[c] # "idle"
      <4>1. ~Inside(c)
        BY <2>2, <3>3, <3>4, <3>6 DEF IInv, Owns
      <4>2. UNCHANGED disk
        BY <1>1, <4>1 DEF Inside, Goes, disk, Work, Command, Lock, Fetch, FetchFails,
           RunUninstall, RemoveScript, RemoveInfo, Install, InstallFails, CopyScript,
           CopyInfo, Unlock, Exit, Collect, IInv, TypeOK, Places
      <4> QED
        BY <3>1, <3>4, <4>2 DEF disk, Made, Whole, Nothing, Only, Full
    <3> QED
      BY <3>5, <3>6
  <2> QED
    BY <2>1, <2>2
<1>2. CASE PowerCut
  BY <1>2 DEF PowerCut, Progress, Inside
<1>3. CASE UNCHANGED vars
  BY <1>3 DEF vars, disk, command, IInv, Progress, Inside, Made, Whole, Nothing, Only, Full
<1> QED
  BY <1>1, <1>2, <1>3 DEF Next
-----------------------------------------------------------------------------
\* AppWhole is what the commands have made of their apps when they leave them.
LEMMA WholeStep == IInv /\ TypeOK' /\ [Next]_vars => AppWhole'
<1> SUFFICES ASSUME IInv, TypeOK', [Next]_vars,
                    NEW a \in App, a \notin unsafe',
                    \A c \in Worker : Inside(c)' => app'[c] # a
             PROVE  Whole(a)'
  BY DEF AppWhole, Whole, Full
<1>0. ASSUME a \notin unsafe, \A c \in Worker : Inside(c) => app[c] # a PROVE Whole(a)
  BY <1>0 DEF IInv, AppWhole, Whole, Full
<1>1. ASSUME NEW c \in Worker, Work(c) PROVE Whole(a)'
  <2>1. a \notin unsafe
    BY <1>1 DEF Work, Command, Lock, Fetch, FetchFails, RunUninstall, RemoveScript,
       RemoveInfo, Install, InstallFails, CopyScript, CopyInfo, Unlock, Exit, Collect
  <2>2. \A d \in Worker \ {c} : Inside(d) => app[d] # a
    BY <1>1, WorkersKept DEF IInv, Inside
  <2>3. CASE Inside(c) /\ app[c] = a
    <3>1. FetchFails(c) \/ Unlock(c)
      BY <1>1, <2>3 DEF Inside, IInv, TypeOK, Places, Goes, command, Work, Command, Lock,
         Fetch, FetchFails, RunUninstall, RemoveScript, RemoveInfo, Install, InstallFails,
         CopyScript, CopyInfo, Unlock, Exit, Collect
    <3>2. Whole(a)
      BY <2>1, <2>3, <3>1 DEF IInv, Progress, Made, FetchFails, Unlock, Goes
    <3> QED
      BY <3>1, <3>2 DEF FetchFails, Unlock, disk, Whole, Full
  <2>4. CASE ~(Inside(c) /\ app[c] = a)
    <3>1. Whole(a)
      BY <1>0, <2>1, <2>2, <2>4
    <3>2. script'[a] = script[a] /\ info'[a] = info[a] /\ effect'[a] = effect[a]
      <4>1. CASE at[c] = "idle" \/ a # app[c]
        BY <1>1, <4>1, OthersKept DEF IInv
      <4>2. CASE ~Inside(c)
        BY <1>1, <4>2 DEF Inside, Goes, disk, Work, Command, Lock, Fetch, FetchFails,
           RunUninstall, RemoveScript, RemoveInfo, Install, InstallFails, CopyScript,
           CopyInfo, Unlock, Exit, Collect, IInv, TypeOK, Places
      <4> QED
        BY <2>4, <4>1, <4>2
    <3> QED
      BY <3>1, <3>2 DEF Whole, Full
  <2> QED
    BY <2>3, <2>4
<1>2. CASE PowerCut
  <2>1. a \notin unsafe /\ \A c \in Worker : Inside(c) => app[c] # a
    BY <1>2 DEF PowerCut
  <2> QED
    BY <1>0, <1>2, <2>1 DEF PowerCut, disk, Whole, Full
<1>3. CASE UNCHANGED vars
  <2>1. a \notin unsafe /\ \A c \in Worker : Inside(c) => app[c] # a
    BY <1>3 DEF vars, command, Inside
  <2> QED
    BY <1>0, <1>3, <2>1 DEF vars, disk, Whole, Full
<1> QED
  BY <1>1, <1>2, <1>3 DEF Next

LEMMA NextIInv == IInv /\ [Next]_vars => IInv'
BY TypeStep, OwnsStep, ProgressStep, WholeStep DEF IInv
-----------------------------------------------------------------------------
(* Every reachable state of the market has the declared types, and only an *)
(* installer is in the phases of an install (market.lua 112-159).          *)
THEOREM TypeCorrect == Spec => []TypeOK
<1>1. IInv => TypeOK
  BY DEF IInv
<1> QED
  BY <1>1, InitIInv, NextIInv, PTL DEF Spec

(* Commands for one app do not overlap, but for a collected lock of that   *)
(* very app (market.lua 112-159, lock.lua 16-32).                          *)
THEOREM PerAppExclusion == Spec => []OnePerApp
<1>1. IInv => OnePerApp
  BY DEF IInv, Owns, OnePerApp
<1> QED
  BY <1>1, InitIInv, NextIInv, PTL DEF Spec

(* An app at rest is listed exactly if it can be undone, and nothing else  *)
(* of it is fully installed (market.lua 44-52, 112-159).                   *)
THEOREM WholeApps == Spec => []AppWhole
<1>1. IInv => AppWhole
  BY DEF IInv
<1> QED
  BY <1>1, InitIInv, NextIInv, PTL DEF Spec

(* The script of a version is not removed before its uninstall() has run   *)
(* (market.lua 44-52).                                                     *)
THEOREM UndoFirst == Spec => UndoneFirst
<1>1. IInv /\ IInv' /\ [Next]_vars
        => [\A a \in App, v \in Version :
              a \notin unsafe /\ script[a] = v /\ script'[a] # v => effect'[a][v] # "installed"]_vars
  <2> SUFFICES ASSUME IInv, Next, NEW a \in App, NEW v \in Version, a \notin unsafe,
                      script[a] = v, script'[a] # v
               PROVE  effect'[a][v] # "installed"
    BY DEF vars
  <2>1. PICK c \in Worker : RemoveScript(c) \/ CopyScript(c)
    BY DEF Next, Work, PowerCut, Command, Lock, Fetch, FetchFails, RunUninstall, RemoveInfo,
       Install, InstallFails, CopyInfo, Unlock, Exit, Collect, disk
  <2>2. app[c] = a /\ Inside(c) /\ UNCHANGED effect
    BY <2>1 DEF RemoveScript, CopyScript, IInv, TypeOK, Inside, Goes
  <2>3. Made(c)
    BY <2>2 DEF IInv, Progress
  <2>4. CASE RemoveScript(c)
    BY <2>2, <2>3, <2>4 DEF RemoveScript, Goes, Made, Nothing, Full
  <2>5. CASE CopyScript(c)
    BY <2>2, <2>3, <2>5, MarketAssumption DEF CopyScript, Goes, Made
  <2> QED
    BY <2>1, <2>4, <2>5
<1> QED
  BY <1>1, InitIInv, NextIInv, PTL DEF Spec, UndoneFirst
=============================================================================
