------------------------------- MODULE Market -------------------------------
(***************************************************************************)
(* hiwifi.market (usr/lib/lua/hiwifi/market.lua): apps that the cloud has  *)
(* installed and uninstalled through usr/lib/cmagent/conf.lua.  Each       *)
(* command is a process of its own with a working directory of its own     *)
(* (executor.lua), so that the workers share /etc/market, what the apps    *)
(* have put on the router, and the lock "market", which is used through    *)
(* the string interface of hiwifi.lock: the collector may release it.      *)
(***************************************************************************)
EXTENDS FiniteSets

CONSTANTS Worker,          \* processes that run conf.lua
          App,             \* apps, by their ename
          Version,         \* packages of an app, each with a script of its own
          None

ASSUME MarketAssumption == None \notin Worker \cup Version \cup App

VARIABLES
  script,      \* script[a]: the version whose script is in /etc/market
  info,        \* info[a]: the version whose metadata are in /etc/market
  effect,      \* effect[a][v]: what v has put on the router: "installed" after its
               \* install(), "remains" for what a failed install() or an
               \* uninstall() leaves, be it a part or all of it
  owner,       \* the process that has the lock "market"
  at,          \* at[c]: where worker c is
  app,         \* app[c]: the app c works on; None between commands
  package,     \* package[c]: the version c installs; None to uninstall
  after,       \* after[c]: where do_uninstall returns to
  unsafe       \* apps that were worked on when a lock was collected or the
               \* power cut

disk == <<script, info, effect>>
command == <<app, package>>
vars == <<disk, owner, at, command, after, unsafe>>

Places == {"idle", "called", "fetch", "uninstall", "rmscript", "rminfo", "install",
           "cpscript", "cpinfo", "unlock", "exit"}

\* A worker from its lock to its unlock, or to its early return.
Inside(c) == at[c] \notin {"idle", "called", "exit"}

\* Types, and that only an installer is in the phases of an install.
TypeOK ==
  /\ script \in [App -> Version \cup {None}]
  /\ info \in [App -> Version \cup {None}]
  /\ effect \in [App -> [Version -> {"none", "remains", "installed"}]]
  /\ owner \in Worker \cup {None}
  /\ at \in [Worker -> Places]
  /\ app \in [Worker -> App \cup {None}]
  /\ package \in [Worker -> Version \cup {None}]
  /\ after \in [Worker -> {"install", "unlock"}]
  /\ unsafe \subseteq App
  /\ \A c \in Worker :
       /\ at[c] \in {"fetch", "install", "cpscript", "cpinfo"} => package[c] # None
       /\ at[c] # "idle" => app[c] # None
       /\ after[c] = "install" => package[c] # None

Init ==
  /\ script = [a \in App |-> None]
  /\ info = [a \in App |-> None]
  /\ effect = [a \in App |-> [v \in Version |-> "none"]]
  /\ owner = None
  /\ at = [c \in Worker |-> "idle"]
  /\ app = [c \in Worker |-> None]
  /\ package = [c \in Worker |-> None]
  /\ after = [c \in Worker |-> "unlock"]
  /\ unsafe = {}
-----------------------------------------------------------------------------
Goes(c, from, to) == at[c] = from /\ at' = [at EXCEPT ![c] = to]

\* conf.lua starts with "install" or "uninstall"
Command(c) ==
  /\ Goes(c, "idle", "called")
  /\ \E a \in App, v \in Version \cup {None} :
       /\ app' = [app EXCEPT ![c] = a]
       /\ package' = [package EXCEPT ![c] = v]
       /\ after' = [after EXCEPT ![c] = IF v = None THEN "unlock" ELSE "install"]
  /\ UNCHANGED <<disk, owner, unsafe>>

\* lock.lock("market") waits
Lock(c) ==
  /\ Goes(c, "called", IF package[c] = None THEN "uninstall" ELSE "fetch")
  /\ owner = None
  /\ owner' = c
  /\ UNCHANGED <<disk, command, after, unsafe>>

\* the package is downloaded, unpacked, and names its app
Fetch(c) ==
  /\ Goes(c, "fetch", "uninstall")
  /\ UNCHANGED <<disk, owner, command, after, unsafe>>

\* the returns 1, 2 and 3, which keep the lock
FetchFails(c) ==
  /\ Goes(c, "fetch", "exit")
  /\ UNCHANGED <<disk, owner, command, after, unsafe>>

\* Mutant: an upgrade does not run the uninstall() of the version it replaces.
SkipUninstall(c) ==
  /\ Goes(c, "uninstall", "rmscript")
  /\ UNCHANGED <<disk, owner, command, after, unsafe>>

\* do_uninstall: the script in /etc/market runs its uninstall(), if there is one;
\* whether that succeeds is not looked at
RunUninstall(c) ==
  /\ Goes(c, "uninstall", "rmscript")
  /\ IF script[app[c]] = None
     THEN UNCHANGED effect
     ELSE \E e \in {"none", "remains"} :
            effect' = [effect EXCEPT ![app[c]][script[app[c]]] = e]
  /\ UNCHANGED <<script, info, owner, command, after, unsafe>>

RemoveScript(c) ==
  /\ Goes(c, "rmscript", "rminfo")
  /\ script' = [script EXCEPT ![app[c]] = None]
  /\ UNCHANGED <<info, effect, owner, command, after, unsafe>>

\* Mutant: the metadata stay.
LeaveInfo(c) ==
  /\ Goes(c, "rminfo", after[c])
  /\ UNCHANGED <<disk, owner, command, after, unsafe>>

RemoveInfo(c) ==
  /\ Goes(c, "rminfo", after[c])
  /\ info' = [info EXCEPT ![app[c]] = None]
  /\ UNCHANGED <<script, effect, owner, command, after, unsafe>>

\* the script of the package runs its install()
Install(c) ==
  /\ Goes(c, "install", "cpscript")
  /\ effect' = [effect EXCEPT ![app[c]][package[c]] = "installed"]
  /\ UNCHANGED <<script, info, owner, command, after, unsafe>>

\* Mutant: the rollback drops the package and starts over.
RollbackAgain(c) ==
  /\ Goes(c, "install", "uninstall")
  /\ package' = [package EXCEPT ![c] = None]
  /\ UNCHANGED <<disk, owner, app, after, unsafe>>

\* install() fails, half way or at once: do_uninstall is called again
InstallFails(c) ==
  /\ Goes(c, "install", "uninstall")
  /\ after' = [after EXCEPT ![c] = "unlock"]
  /\ \/ UNCHANGED effect
     \/ effect' = [effect EXCEPT ![app[c]][package[c]] = "remains"]
  /\ UNCHANGED <<script, info, owner, command, unsafe>>

CopyScript(c) ==
  /\ Goes(c, "cpscript", "cpinfo")
  /\ script' = [script EXCEPT ![app[c]] = package[c]]
  /\ UNCHANGED <<info, effect, owner, command, after, unsafe>>

CopyInfo(c) ==
  /\ Goes(c, "cpinfo", "unlock")
  /\ info' = [info EXCEPT ![app[c]] = package[c]]
  /\ UNCHANGED <<script, effect, owner, command, after, unsafe>>

\* lock.unlock("market") gives up what the process still has of the lock
Released(c) == owner' = IF owner = c THEN None ELSE owner

\* Mutant: unlock gives up the lock whoever has it.
UnlockAnyone(c) ==
  /\ Goes(c, "unlock", "exit")
  /\ owner' = None
  /\ UNCHANGED <<disk, command, after, unsafe>>

Unlock(c) ==
  /\ Goes(c, "unlock", "exit")
  /\ Released(c)
  /\ UNCHANGED <<disk, command, after, unsafe>>

\* os.exit of conf.lua
Exit(c) ==
  /\ Goes(c, "exit", "idle")
  /\ Released(c)
  /\ app' = [app EXCEPT ![c] = None]
  /\ package' = [package EXCEPT ![c] = None]
  /\ after' = [after EXCEPT ![c] = "unlock"]
  /\ UNCHANGED <<disk, unsafe>>

\* the file that do_lock opened is garbage: its collection closes it
Collect(c) ==
  /\ owner = c /\ Inside(c)
  /\ owner' = None
  /\ unsafe' = unsafe \cup {app[c]}
  /\ UNCHANGED <<disk, at, command, after>>

\* /etc/market and what the apps installed are on the flash
PowerCut ==
  /\ unsafe' = unsafe \cup {app[c] : c \in {d \in Worker : Inside(d)}}
  /\ at' = [c \in Worker |-> "idle"]
  /\ owner' = None
  /\ app' = [c \in Worker |-> None]
  /\ package' = [c \in Worker |-> None]
  /\ after' = [c \in Worker |-> "unlock"]
  /\ UNCHANGED disk

Work(c) ==
  \/ Command(c) \/ Lock(c) \/ Fetch(c) \/ FetchFails(c)
  \/ RunUninstall(c) \/ RemoveScript(c) \/ RemoveInfo(c)
  \/ Install(c) \/ InstallFails(c) \/ CopyScript(c) \/ CopyInfo(c)
  \/ Unlock(c) \/ Exit(c) \/ Collect(c)

Next == (\E c \in Worker : Work(c)) \/ PowerCut

Spec == Init /\ [][Next]_vars
-----------------------------------------------------------------------------
(* Properties *)

\* Two commands for one app do not overlap, unless a collector took a lock
\* from a command for this very app: the lock that such a command has lost is
\* not taken from the others by its unlock (market.lua 112-159, lock.lua 16-32).
OnePerApp ==
  \A c, d \in Worker :
    Inside(c) /\ Inside(d) /\ app[c] = app[d] /\ app[c] \notin unsafe => c = d

\* An app that no command works on is listed exactly if its script is there to
\* undo it, and that is the only version of the app that is installed and whose
\* uninstall() was not run since: with failed downloads, failed installs and
\* failed uninstalls, but not the collector and the power (market.lua 44-52,
\* 112-159).
AppWhole ==
  \A a \in App :
    a \notin unsafe /\ (\A c \in Worker : Inside(c) => app[c] # a)
      => /\ script[a] = info[a]
         /\ \A v \in Version : effect[a][v] = "installed" <=> script[a] = v

\* A version that is replaced has been given its uninstall() before the script
\* that could undo it is removed: no step leaves an installation without
\* a script, but for the one that has just been made (market.lua 44-52, 134-142).
UndoneFirst ==
  [][\A a \in App, v \in Version :
       a \notin unsafe /\ script[a] = v /\ script'[a] # v => effect'[a][v] # "installed"]_vars

\* Stated by the comment of market.lua 138, "Rollback": an install that failed
\* leaves nothing of the version on the router when the command ends.
RollbackUndoes ==
  \A c \in Worker : at[c] = "exit" /\ package[c] # None /\ after[c] = "unlock"
                    /\ app[c] \notin unsafe
                    => effect[app[c]][package[c]] = "none"
=============================================================================
