--------------------------- MODULE FirmwareProofs ---------------------------
(***************************************************************************)
(* Proofs about Firmware, for every set of callers and of firmwares.       *)
(***************************************************************************)
EXTENDS Firmware, TLAPS

\* A caller that works on the cache has the lock to itself.
Locked == \A c \in Caller : Holding(c) => inFirmware = {c}

\* What a caller knows of the files while it holds the lock.  The metadata are
\* gone before the image is written again, which InfoDescribesImage needs.
Progress ==
  \A c \in Caller :
    /\ at[c] = "begin" => image = NoImage
    /\ at[c] \in {"begin", "receive", "fail", "record"} => info = NoFw
    /\ at[c] = "record" => image = Whole(want[c])

\* A sysupgrade past kill_remaining is alone on the router.
Alone ==
  \A c \in Caller : sys[c] = "ready" =>
    /\ \A d \in Caller : at[d] = "idle"
    /\ \A d \in Caller \ {c} : sys[d] = "none"

\* A whole image is the image of a firmware.
Named == /\ image.whole => image.fw # NoFw
         /\ flashed.whole => flashed.fw # NoFw

Safe == InfoDescribesImage /\ LaunchVerified

\* The step of a caller, and the step of its sysupgrade.
CallerStep(c) ==
  \/ Call(c) \/ TryFirmware(c) \/ FirmwareBusy(c) \/ TryUpgrade(c) \/ UpgradeBusy(c)
  \/ WaitFirmware(c) \/ LookUp(c) \/ RemoveImage(c) \/ RemoveInfo(c)
  \/ BeginDownload(c) \/ Received(c) \/ RecordInfo(c) \/ DownloadFails(c)
  \/ Check(c) \/ Launch(c) \/ Leave(c) \/ CallerDies(c)

SysStep(c) == SysCheck(c) \/ SysCheckEarly(c) \/ SysKill(c) \/ SysFlash(c)

IInv == TypeOK /\ Locked /\ Progress /\ Alone /\ Named /\ Safe

LEMMA InitIInv == Init => IInv
BY FwAssumption
DEF Init, IInv, TypeOK, Locked, Holding, Progress, Alone, Named, Safe, InfoDescribesImage,
    LaunchVerified, Image, NoImage, Ops, Places

\* One caller's step, for each of its actions.
LEMMA CallerIInv ==
  ASSUME IInv, NEW c \in Caller, CallerStep(c)
  PROVE  IInv'
<1> USE FwAssumption
    DEF IInv, TypeOK, Locked, Holding, Progress, Alone, Named, Safe, InfoDescribesImage,
        LaunchVerified, Verified, Image, NoImage, Whole, Ops, Places, Downloads, Upgrades,
        Goes, FirstStep, AfterDownload, files, locks, call
<1>1. CASE Call(c)           BY <1>1 DEF Call
<1>2. CASE TryFirmware(c)    BY <1>2 DEF TryFirmware
<1>3. CASE FirmwareBusy(c)   BY <1>3 DEF FirmwareBusy
<1>4. CASE TryUpgrade(c)     BY <1>4 DEF TryUpgrade
<1>5. CASE UpgradeBusy(c)    BY <1>5 DEF UpgradeBusy
<1>6. CASE WaitFirmware(c)   BY <1>6 DEF WaitFirmware
<1>7. CASE LookUp(c)
  <2>1. PICK x \in {"check", "leave", "clean"} :
          at' = [at EXCEPT ![c] = x] /\ (x = "check" => op[c] = "atomic")
    BY <1>7 DEF LookUp
  <2>2. TypeOK'
    BY <1>7, <2>1 DEF LookUp
  <2>3. Locked'
    BY <1>7, <2>1 DEF LookUp
  <2>4. Progress' /\ Alone' /\ Named'
    BY <1>7 DEF LookUp
  <2>5. Safe'
    BY <1>7 DEF LookUp
  <2> QED
    BY <2>2, <2>3, <2>4, <2>5
<1>8. CASE RemoveImage(c)    BY <1>8 DEF RemoveImage
<1>9. CASE RemoveInfo(c)     BY <1>9 DEF RemoveInfo
<1>10. CASE BeginDownload(c) BY <1>10 DEF BeginDownload
<1>11. CASE Received(c)
  <2>1. TypeOK'
    BY <1>11 DEF Received
  <2>2. Locked'
    BY <1>11 DEF Received
  <2>3. \A d \in Caller : at[d] = "receive" \/ at[d] = "begin" \/ at[d] = "fail" \/ at[d] = "record" => d = c
    BY <1>11 DEF Received
  <2>4. Progress'
    BY <1>11, <2>3 DEF Received
  <2>5. Alone' /\ Named'
    BY <1>11 DEF Received
  <2>6. Safe'
    BY <1>11 DEF Received
  <2> QED
    BY <2>1, <2>2, <2>4, <2>5, <2>6
<1>12. CASE RecordInfo(c)    BY <1>12 DEF RecordInfo
<1>13. CASE DownloadFails(c) BY <1>13 DEF DownloadFails
<1>14. CASE Check(c)         BY <1>14 DEF Check
<1>15. CASE Launch(c)        BY <1>15 DEF Launch
<1>16. CASE Leave(c)         BY <1>16 DEF Leave
<1>17. CASE CallerDies(c)    BY <1>17 DEF CallerDies
<1> QED
  BY <1>1, <1>2, <1>3, <1>4, <1>5, <1>6, <1>7, <1>8, <1>9, <1>10, <1>11, <1>12,
     <1>13, <1>14, <1>15, <1>16, <1>17 DEF CallerStep

LEMMA NextIInv == IInv /\ [Next]_vars => IInv'
<1> SUFFICES ASSUME IInv, [Next]_vars PROVE IInv'
  OBVIOUS
<1>1. ASSUME NEW c \in Caller, CallerStep(c) PROVE IInv'
  BY <1>1, CallerIInv
<1> USE FwAssumption
    DEF IInv, TypeOK, Locked, Holding, Progress, Alone, Named, Safe, InfoDescribesImage,
        LaunchVerified, Verified, Image, NoImage, Whole, Ops, Places, Downloads, Upgrades,
        files, locks, call
<1>2. ASSUME NEW c \in Caller, SysStep(c) PROVE IInv'
  <2>1. CASE SysCheck(c)      BY <2>1 DEF SysCheck
  <2>2. CASE SysCheckEarly(c) BY <2>2 DEF SysCheckEarly
  <2>3. CASE SysKill(c)       BY <2>3 DEF SysKill
  <2>4. CASE SysFlash(c)      BY <2>4 DEF SysFlash
  <2> QED
    BY <1>2, <2>1, <2>2, <2>3, <2>4 DEF SysStep
<1>3. CASE Reboot
  BY <1>3 DEF Reboot
<1>4. CASE UNCHANGED vars
  BY <1>4 DEF vars
<1> QED
  BY <1>1, <1>2, <1>3, <1>4 DEF Next, CallerStep, SysStep
-----------------------------------------------------------------------------
(* Every reachable state of the cache and its users has the declared types,*)
(* and only downloads are in the phases of do_download (firmware.lua       *)
(* 175-286).                                                               *)
THEOREM TypeCorrect == Spec => []TypeOK
<1>1. IInv => TypeOK
  BY DEF IInv
<1> QED
  BY <1>1, InitIInv, NextIInv, PTL DEF Spec

(* The metadata describe the image or there is no image (firmware.lua      *)
(* 135-189).                                                               *)
THEOREM InfoTruth == Spec => []InfoDescribesImage
<1>1. IInv => InfoDescribesImage
  BY DEF IInv, Safe
<1> QED
  BY <1>1, InitIInv, NextIInv, PTL DEF Spec

(* A sysupgrade is started on the verified image of the firmware asked for *)
(* (firmware.lua 192-206).                                                 *)
THEOREM LaunchSafe == Spec => []LaunchVerified
<1>1. IInv => LaunchVerified
  BY DEF IInv, Safe
<1> QED
  BY <1>1, InitIInv, NextIInv, PTL DEF Spec

(* At most one sysupgrade reaches the flash (sysupgrade 192-214).          *)
THEOREM SingleFlasher == Spec => []OneFlasher
<1>1. IInv => OneFlasher
  BY DEF IInv, Alone, OneFlasher
<1> QED
  BY <1>1, InitIInv, NextIInv, PTL DEF Spec

(* Nobody changes the image once a sysupgrade is past kill_remaining       *)
(* (sysupgrade 192-214).                                                   *)
THEOREM FlashSafe == Spec => FlashStable
<1>1. IInv /\ [Next]_vars
        => [(\E c \in Caller : sys[c] = "ready") => image' = image \/ Reboot]_vars
  <2> SUFFICES ASSUME IInv, Next, NEW r \in Caller, sys[r] = "ready", ~Reboot
               PROVE  image' = image
    BY DEF vars, files
  <2>1. \A d \in Caller : at[d] = "idle"
    BY DEF IInv, Alone
  <2>2. ASSUME NEW c \in Caller, CallerStep(c) PROVE image' = image
    BY <2>1, <2>2
    DEF CallerStep, Call, TryFirmware, FirmwareBusy, TryUpgrade, UpgradeBusy, WaitFirmware,
        LookUp, RemoveImage, RemoveInfo, BeginDownload, Received, RecordInfo, DownloadFails,
        Check, Launch, Leave, CallerDies, Goes, files
  <2>3. ASSUME NEW c \in Caller, SysStep(c) PROVE image' = image
    BY <2>3 DEF SysStep, SysCheck, SysCheckEarly, SysKill, SysFlash, files
  <2> QED
    BY <2>2, <2>3 DEF Next, CallerStep, SysStep
<1> QED
  BY <1>1, InitIInv, NextIInv, PTL DEF Spec, FlashStable
-----------------------------------------------------------------------------
Users == {c \in Caller : Holding(c)}

(* A step of the module is a step of the mutex for its users, or none.     *)
LEMMA UserStep == IInv /\ [Next]_vars => [M!Next]_Users
<1> SUFFICES ASSUME IInv, [Next]_vars PROVE [M!Next]_Users
  OBVIOUS
<1>1. \A c \in Caller : Holding(c) => inFirmware = {c}
  BY DEF IInv, Locked
<1>2. \A c \in Caller : at[c] \in Places
  BY DEF IInv, TypeOK
<1>3. ASSUME NEW c \in Caller, at' = [at EXCEPT ![c] = at'[c]], Holding(c)' = Holding(c)
      PROVE  Users' = Users
  BY <1>3, <1>2 DEF Users, Holding, IInv, TypeOK
<1>4. ASSUME NEW c \in Caller, at' = [at EXCEPT ![c] = at'[c]], inFirmware = {},
             Holding(c)'
      PROVE  M!Acquire(c)
  <2>1. Users = {}
    BY <1>1, <1>4 DEF Users
  <2>2. Users' = {c}
    BY <1>4, <2>1 DEF Users, Holding, IInv, TypeOK
  <2> QED
    BY <2>1, <2>2 DEF M!Acquire, Users
<1>5. ASSUME NEW c \in Caller, at' = [at EXCEPT ![c] = at'[c]], Holding(c), ~Holding(c)'
      PROVE  M!Release(c)
  <2>1. Users = {c}
    BY <1>1, <1>5 DEF Users
  <2>2. Users' = {}
    BY <1>5, <2>1 DEF Users, Holding, IInv, TypeOK
  <2> QED
    BY <2>1, <2>2 DEF M!Release, Users
<1>6. ASSUME \A c \in Caller : ~Holding(c)'
      PROVE  [M!Next]_Users
  <2>1. Users' = {}
    BY <1>6 DEF Users
  <2>2. CASE Users = {}
    BY <2>1, <2>2
  <2>3. CASE Users # {}
    <3>1. PICK c \in Caller : Holding(c)
      BY <2>3 DEF Users
    <3>2. Users = {c}
      BY <3>1, <1>1 DEF Users
    <3> QED
      BY <2>1, <3>2 DEF M!Next, M!Release, Users
  <2> QED
    BY <2>2, <2>3
<1>7. ASSUME NEW c \in Caller, CallerStep(c) PROVE [M!Next]_Users
  <2> USE DEF Holding, Goes, FirstStep, AfterDownload, Places, Downloads, Upgrades
  <2>1. CASE TryFirmware(c) \/ WaitFirmware(c)
    <3>1. /\ at' = [at EXCEPT ![c] = at'[c]] /\ inFirmware = {} /\ Holding(c)'
      BY <2>1 DEF TryFirmware, WaitFirmware, IInv, TypeOK
    <3> QED
      BY <3>1, <1>4 DEF M!Next
  <2>2. CASE Call(c) \/ FirmwareBusy(c) \/ TryUpgrade(c) \/ UpgradeBusy(c)
    <3>1. at' = [at EXCEPT ![c] = at'[c]] /\ Holding(c)' = Holding(c)
      BY <2>2 DEF Call, FirmwareBusy, TryUpgrade, UpgradeBusy, IInv, TypeOK
    <3> QED
      BY <3>1, <1>3
  <2>3. CASE \/ LookUp(c) \/ RemoveInfo(c) \/ BeginDownload(c) \/ Received(c)
             \/ RecordInfo(c) \/ DownloadFails(c) \/ Check(c) \/ Launch(c)
    <3>1. at' = [at EXCEPT ![c] = at'[c]] /\ Holding(c)' = Holding(c)
      BY <2>3 DEF LookUp, RemoveInfo, BeginDownload, Received, RecordInfo, DownloadFails,
                  Check, Launch, IInv, TypeOK
    <3> QED
      BY <3>1, <1>3
  <2>4. CASE RemoveImage(c)
    BY <2>4 DEF RemoveImage, Users
  <2>5. CASE Leave(c) \/ CallerDies(c)
    <3>1. at' = [at EXCEPT ![c] = at'[c]] /\ ~Holding(c)'
      BY <2>5 DEF Leave, CallerDies, IInv, TypeOK
    <3> QED
      BY <3>1, <1>3, <1>5 DEF M!Next
  <2> QED
    BY <1>7, <2>1, <2>2, <2>3, <2>4, <2>5 DEF CallerStep
<1>8. ASSUME NEW c \in Caller, SysStep(c) PROVE [M!Next]_Users
  <2>1. CASE SysKill(c)
    <3>1. \A d \in Caller : ~Holding(d)'
      BY <2>1 DEF SysKill, Holding
    <3> QED
      BY <3>1, <1>6
  <2>2. CASE SysCheck(c) \/ SysCheckEarly(c) \/ SysFlash(c)
    BY <2>2 DEF SysCheck, SysCheckEarly, SysFlash, Users, Holding
  <2> QED
    BY <1>8, <2>1, <2>2 DEF SysStep
<1>9. CASE Reboot
  <2>1. \A d \in Caller : ~Holding(d)'
    BY <1>9 DEF Reboot, Holding
  <2> QED
    BY <2>1, <1>6
<1>10. CASE UNCHANGED vars
  BY <1>10 DEF vars, Users, Holding
<1> QED
  BY <1>7, <1>8, <1>9, <1>10 DEF Next, CallerStep, SysStep

(* The callers at work on the cache implement Mutex: one at a time, by     *)
(* trylock and by flock, even when a caller dies or is killed by the       *)
(* sysupgrade of another (firmware.lua 214-286).                           *)
THEOREM CacheRefinement == Spec => CacheImplementsMutex
<1>1. Init => M!Init
  BY DEF Init, M!Init, Holding
<1>2. IInv /\ [Next]_vars => [M!Next]_Users
  BY UserStep
<1> QED
  BY <1>1, <1>2, InitIInv, NextIInv, PTL DEF Spec, CacheImplementsMutex, M!Spec, Users
=============================================================================
