------------------------------ MODULE Firmware ------------------------------
(***************************************************************************)
(* hiwifi.firmware (usr/lib/lua/hiwifi/firmware.lua): one cached firmware  *)
(* image and its metadata, shared by download, wait_download, upgrade,     *)
(* wait_upgrade and atomic_download_upgrade, and the sysupgrade            *)
(* (sbin/sysupgrade) that the last three leave running in the background.  *)
(* A caller is a Lua process of its own.  The locks "firmware" and         *)
(* "upgrade" are used through the handle interface of FileLock.            *)
(***************************************************************************)
EXTENDS Naturals, FiniteSets

CONSTANTS Caller,          \* processes that call the module
          Fw,              \* firmware, as get_update_info describes it
          Fits,            \* the firmware whose header fits the board
          NoFw             \* no firmware

ASSUME FwAssumption ==
  /\ NoFw \notin Fw
  /\ Fits \subseteq Fw

VARIABLES
  running,     \* the firmware the router runs
  image,       \* the file cached_firmware: whose bytes, and if all of them
  info,        \* the file cached_firmware_info
  inFirmware,  \* the callers that have the lock "firmware"
  inUpgrade,   \* the callers that have the lock "upgrade"
  at,          \* at[c]: where caller c is
  op,          \* op[c]: the function c calls
  want,        \* want[c]: the firmware c was asked for
  sys,         \* sys[c]: the sysupgrade that c started
  flashed      \* what was written to the flash since the last boot

files == <<image, info>>
locks == <<inFirmware, inUpgrade>>
call == <<op, want>>
vars == <<running, files, locks, at, call, sys, flashed>>

Ops == {"download", "wait_download", "upgrade", "wait_upgrade", "atomic"}
Downloads == {"download", "wait_download", "atomic"}
Upgrades == {"upgrade", "wait_upgrade", "atomic"}
Places == {"idle", "called", "waiting", "lookup", "clean", "begin", "receive",
           "record", "fail", "check", "launch", "leave"}
Image == [fw : Fw \cup {NoFw}, whole : BOOLEAN]
NoImage == [fw |-> NoFw, whole |-> FALSE]
Whole(f) == [fw |-> f, whole |-> TRUE]

\* A caller between its lock and its unlock of "firmware".
Holding(c) == at[c] \in Places \ {"idle", "called", "waiting"}

\* Types, and that the metadata go with a caller's progress.
TypeOK ==
  /\ running \in Fw
  /\ image \in Image
  /\ info \in Fw \cup {NoFw}
  /\ inFirmware \subseteq Caller
  /\ inUpgrade \subseteq Caller
  /\ at \in [Caller -> Places]
  /\ op \in [Caller -> Ops]
  /\ want \in [Caller -> Fw]
  /\ sys \in [Caller -> {"none", "started", "checked", "ready"}]
  /\ flashed \in Image
  /\ \A c \in Caller :
       /\ at[c] \in {"lookup", "clean", "begin", "receive", "record", "fail"} => op[c] \in Downloads
       /\ at[c] \in {"check", "launch"} => op[c] \in Upgrades

Init ==
  /\ running \in Fw
  /\ image = NoImage /\ info = NoFw
  /\ inFirmware = {} /\ inUpgrade = {}
  /\ at = [c \in Caller |-> "idle"]
  /\ op \in [Caller -> {"download"}] /\ want \in [Caller -> {running}]
  /\ sys = [c \in Caller |-> "none"]
  /\ flashed = NoImage
-----------------------------------------------------------------------------
Goes(c, from, to) == at[c] = from /\ at' = [at EXCEPT ![c] = to]

\* The first step under the lock: downloads look the cache up first.
FirstStep(o) == IF o \in Downloads THEN "lookup" ELSE "check"

\* Nothing starts any more once kill_remaining is through.
Call(c) ==
  /\ Goes(c, "idle", "called")
  /\ \A d \in Caller : sys[d] # "ready"
  /\ \E o \in Ops, f \in Fw : op' = [op EXCEPT ![c] = o] /\ want' = [want EXCEPT ![c] = f]
  /\ UNCHANGED <<running, files, locks, sys, flashed>>

\* trylock("firmware")
TryFirmware(c) ==
  /\ op[c] \in {"download", "upgrade"}
  /\ Goes(c, "called", FirstStep(op[c]))
  /\ inFirmware = {}
  /\ inFirmware' = {c}
  /\ UNCHANGED <<running, files, inUpgrade, call, sys, flashed>>

\* E_BUSY
FirmwareBusy(c) ==
  /\ op[c] \in {"download", "upgrade"}
  /\ Goes(c, "called", "idle")
  /\ inFirmware # {}
  /\ UNCHANGED <<running, files, locks, call, sys, flashed>>

\* atomic_download_upgrade takes "upgrade" first
TryUpgrade(c) ==
  /\ op[c] = "atomic"
  /\ Goes(c, "called", "waiting")
  /\ inUpgrade = {}
  /\ inUpgrade' = {c}
  /\ UNCHANGED <<running, files, inFirmware, call, sys, flashed>>

UpgradeBusy(c) ==
  /\ op[c] = "atomic"
  /\ Goes(c, "called", "idle")
  /\ inUpgrade # {}
  /\ UNCHANGED <<running, files, locks, call, sys, flashed>>

\* Mutant: flock does not wait.
WaitNothing(c) ==
  /\ \/ op[c] \in {"wait_download", "wait_upgrade"} /\ at[c] = "called"
     \/ op[c] = "atomic" /\ at[c] = "waiting"
  /\ at' = [at EXCEPT ![c] = FirstStep(op[c])]
  /\ inFirmware' = inFirmware \cup {c}
  /\ UNCHANGED <<running, files, inUpgrade, call, sys, flashed>>

\* flock("firmware") sleeps until the lock is free
WaitFirmware(c) ==
  /\ \/ op[c] \in {"wait_download", "wait_upgrade"} /\ at[c] = "called"
     \/ op[c] = "atomic" /\ at[c] = "waiting"
  /\ at' = [at EXCEPT ![c] = FirstStep(op[c])]
  /\ inFirmware = {}
  /\ inFirmware' = {c}
  /\ UNCHANGED <<running, files, inUpgrade, call, sys, flashed>>

\* local_firmware_verify: image and metadata are those of f
Verified(f) == info = f /\ image = Whole(f)

\* Mutant: every download goes on to do_upgrade.
AlwaysCheck(c) == "check"

AfterDownload(c) == IF op[c] = "atomic" THEN "check" ELSE "leave"

LookUp(c) ==
  /\ Goes(c, "lookup", IF Verified(want[c]) THEN AfterDownload(c) ELSE "clean")
  /\ UNCHANGED <<running, files, locks, call, sys, flashed>>

\* clean_cache removes the image and then the metadata
RemoveImage(c) ==
  /\ at[c] \in {"clean", "fail"} /\ image # NoImage
  /\ image' = NoImage
  /\ UNCHANGED <<running, info, locks, at, call, sys, flashed>>

\* Mutant: clean_cache forgets the metadata.
KeepInfo(c) ==
  /\ at[c] \in {"clean", "fail"} /\ image = NoImage
  /\ at' = [at EXCEPT ![c] = IF @ = "clean" THEN "begin" ELSE "leave"]
  /\ UNCHANGED <<running, files, locks, call, sys, flashed>>

RemoveInfo(c) ==
  /\ at[c] \in {"clean", "fail"} /\ image = NoImage
  /\ info' = NoFw
  /\ at' = [at EXCEPT ![c] = IF @ = "clean" THEN "begin" ELSE "leave"]
  /\ UNCHANGED <<running, image, locks, call, sys, flashed>>

\* download_to_file opens the image for writing and receives it
BeginDownload(c) ==
  /\ Goes(c, "begin", "receive")
  /\ image' = [fw |-> want[c], whole |-> FALSE]
  /\ UNCHANGED <<running, info, locks, call, sys, flashed>>

\* all of it is there and the MD5 sum is right
Received(c) ==
  /\ Goes(c, "receive", "record")
  /\ image = [fw |-> want[c], whole |-> FALSE]
  /\ image' = Whole(want[c])
  /\ UNCHANGED <<running, info, locks, call, sys, flashed>>

\* do_set_cached_info
RecordInfo(c) ==
  /\ Goes(c, "record", AfterDownload(c))
  /\ info' = want[c]
  /\ UNCHANGED <<running, image, locks, call, sys, flashed>>

\* HTTP error or wrong MD5 sum
DownloadFails(c) ==
  /\ Goes(c, "receive", "fail")
  /\ UNCHANGED <<running, files, locks, call, sys, flashed>>

\* Mutant: do_upgrade relies on the download that was made some time ago.
CheckNothing(c) ==
  /\ Goes(c, "check", IF want[c] = running THEN "leave" ELSE "launch")
  /\ UNCHANGED <<running, files, locks, call, sys, flashed>>

\* do_upgrade: not the running version, the cache verified, the header fits
Check(c) ==
  /\ Goes(c, "check",
          IF want[c] # running /\ Verified(want[c]) /\ want[c] \in Fits
          THEN "launch" ELSE "leave")
  /\ UNCHANGED <<running, files, locks, call, sys, flashed>>

\* os.execute of a sysupgrade that runs in the background
Launch(c) ==
  /\ Goes(c, "launch", "leave")
  /\ sys' = [sys EXCEPT ![c] = "started"]
  /\ UNCHANGED <<running, files, locks, call, flashed>>

\* unlock, of both locks for atomic_download_upgrade
Leave(c) ==
  /\ Goes(c, "leave", "idle")
  /\ inFirmware' = inFirmware \ {c}
  /\ inUpgrade' = inUpgrade \ {c}
  /\ UNCHANGED <<running, files, call, sys, flashed>>

\* the process of a caller ends half way; its locks go with it
CallerDies(c) ==
  /\ at[c] # "idle"
  /\ at' = [at EXCEPT ![c] = "idle"]
  /\ inFirmware' = inFirmware \ {c}
  /\ inUpgrade' = inUpgrade \ {c}
  /\ UNCHANGED <<running, files, call, sys, flashed>>
-----------------------------------------------------------------------------
(* sysupgrade                                                              *)

\* platform_check_image looks at the header of the file only
SysCheck(c) ==
  /\ sys[c] = "started"
  /\ sys' = [sys EXCEPT ![c] = IF image.fw \in Fits THEN "checked" ELSE "none"]
  /\ UNCHANGED <<running, files, locks, at, call, flashed>>

\* the header of a file still being received may not be there yet
SysCheckEarly(c) ==
  /\ sys[c] = "started" /\ ~image.whole
  /\ sys' = [sys EXCEPT ![c] = "none"]
  /\ UNCHANGED <<running, files, locks, at, call, flashed>>

\* Mutant: kill_remaining spares the Lua processes.
SysKillScripts(c) ==
  /\ sys[c] = "checked"
  /\ sys' = [d \in Caller |-> IF d = c THEN "ready" ELSE "none"]
  /\ UNCHANGED <<running, files, locks, at, call, flashed>>

\* Mutant: kill_remaining spares the other scripts, as it does every *ash*.
SysKillOthers(c) ==
  /\ sys[c] = "checked"
  /\ sys' = [sys EXCEPT ![c] = "ready"]
  /\ at' = [d \in Caller |-> "idle"]
  /\ inFirmware' = {} /\ inUpgrade' = {}
  /\ UNCHANGED <<running, files, call, flashed>>

\* kill_remaining: every other process ends, other sysupgrades included
SysKill(c) ==
  /\ sys[c] = "checked"
  /\ sys' = [d \in Caller |-> IF d = c THEN "ready" ELSE "none"]
  /\ at' = [d \in Caller |-> "idle"]
  /\ inFirmware' = {} /\ inUpgrade' = {}
  /\ UNCHANGED <<running, files, call, flashed>>

\* do_upgrade writes what the file holds by now; a router flashed with a
\* whole image reboots into it with an empty /tmp
SysFlash(c) ==
  /\ sys[c] = "ready"
  /\ flashed = NoImage
  /\ flashed' = image
  /\ UNCHANGED <<running, files, locks, at, call, sys>>

Reboot ==
  /\ flashed.whole
  /\ running' = flashed.fw
  /\ image' = NoImage /\ info' = NoFw
  /\ inFirmware' = {} /\ inUpgrade' = {}
  /\ at' = [c \in Caller |-> "idle"]
  /\ sys' = [c \in Caller |-> "none"]
  /\ flashed' = NoImage
  /\ UNCHANGED call

Next ==
  \/ \E c \in Caller :
       \/ Call(c) \/ TryFirmware(c) \/ FirmwareBusy(c) \/ TryUpgrade(c) \/ UpgradeBusy(c)
       \/ WaitFirmware(c) \/ LookUp(c) \/ RemoveImage(c) \/ RemoveInfo(c)
       \/ BeginDownload(c) \/ Received(c) \/ RecordInfo(c) \/ DownloadFails(c)
       \/ Check(c) \/ Launch(c) \/ Leave(c) \/ CallerDies(c)
       \/ SysCheck(c) \/ SysCheckEarly(c) \/ SysKill(c) \/ SysFlash(c)
  \/ Reboot

Spec == Init /\ [][Next]_vars
-----------------------------------------------------------------------------
(* Properties *)

\* The metadata never describe an image that is partial or another one, at
\* any point of any download, failure or death of a caller: what
\* get_cached_info reports, and what a later call skips the download for, is
\* really there, or there is no image at all (firmware.lua 135-189).
InfoDescribesImage == info # NoFw => image \in {NoImage, Whole(info)}

\* When sysupgrade is started the cache holds the whole image of the firmware
\* asked for, though other callers download and clean the same file and the
\* image was verified some steps before (firmware.lua 192-206, 214-286).
LaunchVerified ==
  \A c \in Caller : at[c] = "launch" => Verified(want[c]) /\ want[c] # running

\* The callers that work on the cache implement Mutex, by trylock, by flock
\* and under "upgrade" alike (firmware.lua 214-286).
M == INSTANCE Mutex WITH Proc <- Caller, holder <- {c \in Caller : Holding(c)}

CacheImplementsMutex == M!Spec

\* Once a sysupgrade is past kill_remaining nobody changes the file it is
\* about to write (sysupgrade 192-214).
FlashStable ==
  [][(\E c \in Caller : sys[c] = "ready") => image' = image \/ Reboot]_vars

\* No two sysupgrades reach the flash (sysupgrade 192-214).
OneFlasher == \A c, d \in Caller : sys[c] = "ready" /\ sys[d] = "ready" => c = d
=============================================================================
