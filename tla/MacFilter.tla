------------------------------ MODULE MacFilter ------------------------------
(***************************************************************************)
(* hiwifi.mac_filter (usr/lib/lua/hiwifi/mac_filter.lua): which devices    *)
(* the wireless interfaces admit.  Each request to the router is served by *)
(* a process of its own that calls one function.  The setting is loaded    *)
(* without a lock, in two reads, and is saved interface by interface, each *)
(* under the lock "wireless" (the string interface of hiwifi.lock, whose   *)
(* file the Lua collector may close, see FileLock).                        *)
(***************************************************************************)
EXTENDS Naturals

CONSTANTS Caller,            \* the processes that serve the requests
          Mac,             \* what requests name as the addresses of devices
          Address,         \* those that are one: datatypes.macaddr
          Ifaces,          \* how many interfaces there are; the first one is loaded
          Setting,         \* the settings that save_setting is called with
          None

ASSUME MacAssumption ==
  /\ Ifaces \in Nat \ {0}
  /\ None \notin Caller \cup Mac
  /\ Address \subseteq Mac
  /\ Setting \subseteq [mode : {"stop", "allow", "deny", "other"}, macs : SUBSET Mac]

\* What is asked for, and what is_valid_setting lets through.
Requests == [mode : {"stop", "allow", "deny", "other"}, macs : SUBSET Mac]
Mode == {"stop", "allow", "deny"}
Settings == [mode : Mode, macs : SUBSET Address]
Function == {"deny_mac", "allow_mac", "save_setting"}

VARIABLES
  applied,     \* applied[i]: acl and acllist of interface i
  uci,         \* macfilter and maclist of /etc/config/wireless
  block_list,  \* the file BLOCK_LIST_FILE
  owner,       \* the process that has the lock "wireless"
  place,       \* place[p]: where p is
  call,        \* call[p]: the function p was asked for, and its mac
  setting,     \* setting[p]
  blocks,      \* blocks[p]: what block_add or block_del will save
  iface,       \* iface[p]: the interface p saves to
  collected,   \* only for the properties: a lock was given up by the collector
  last,        \* only for the properties: the process that was asked last
  overlapped   \* only for the properties: the processes that did not run alone

macVars == <<applied, uci, block_list, owner, place, call, setting, blocks, iface,
             collected, last, overlapped>>

Iface == 1 .. Ifaces
NoCall == [fn |-> "none", mac |-> None]
Empty == [mode |-> "stop", macs |-> {}]

\* The places of a process, in the order of the code; those inside the lock.  It has
\* returned true when it is "done", and false when it is "refused".
Inside == {"acl", "acllist", "uci", "unlock"}
Over == {"done", "refused"}
Places == {"idle", "list", "mode", "block list", "block mode", "block save", "lock"} \cup Over \cup Inside

\* Types.
MacTypeOK ==
  /\ applied \in [Iface -> Settings]
  /\ uci \in Settings
  /\ block_list \in SUBSET Mac
  /\ owner \in Caller \cup {None}
  /\ place \in [Caller -> Places]
  /\ call \in [Caller -> [fn : Function, mac : Mac \cup {None}] \cup {NoCall}]
  /\ setting \in [Caller -> Requests]
  /\ blocks \in [Caller -> SUBSET Mac]
  /\ iface \in [Caller -> Iface]
  /\ collected \in BOOLEAN
  /\ last \in Caller \cup {None}
  /\ overlapped \subseteq Caller

MacInit ==
  /\ uci \in Settings
  /\ applied = [i \in Iface |-> uci]
  /\ block_list = {}
  /\ owner = None
  /\ place = [p \in Caller |-> "idle"]
  /\ call = [p \in Caller |-> NoCall]
  /\ setting = [p \in Caller |-> Empty]
  /\ blocks = [p \in Caller |-> {}]
  /\ iface = [p \in Caller |-> 1]
  /\ collected = FALSE
  /\ last = None
  /\ overlapped = {}

-----------------------------------------------------------------------------
router == <<applied, uci, block_list>>
history == <<collected, last, overlapped>>

moves(p, from, to) == place[p] = from /\ place' = [place EXCEPT ![p] = to]
Running == {q \in Caller : place[q] \notin {"idle"} \cup Over}

\* A request comes.
Called(p, fn, mac, to) ==
  /\ moves(p, "idle", to)
  /\ call' = [call EXCEPT ![p] = [fn |-> fn, mac |-> mac]]
  /\ last' = p
  /\ overlapped' = IF Running = {} THEN overlapped ELSE overlapped \cup Running \cup {p}
  /\ UNCHANGED <<router, owner, blocks, iface, collected>>

\* deny_mac and allow_mac take any string: an app may call them with one that is no address
\* (:138), and the page calls allow_mac so (luci/controller/api/network.lua:1985-1988).
deny_mac(p, m) == Called(p, "deny_mac", m, "list") /\ UNCHANGED setting
allow_mac(p, m) == Called(p, "allow_mac", m, "list") /\ UNCHANGED setting

\* is_valid_setting, and where save_setting goes on: to the first interface, or back with false.
is_valid_setting(s) == s.mode \in Mode /\ s.macs \subseteq Address
Checked(s) == IF is_valid_setting(s) THEN "lock" ELSE "refused"

\* save_setting, and disable, which saves that there is no filter.
save_setting(p, s) ==
  /\ Called(p, "save_setting", None, Checked(s))
  /\ setting' = [setting EXCEPT ![p] = s]

\* load_setting: the list, and then the mode.
LoadList(p) ==
  /\ moves(p, "list", "mode")
  /\ setting' = [setting EXCEPT ![p].macs = applied[1].macs]
  /\ UNCHANGED <<router, owner, call, blocks, iface, history>>

\* What deny_mac and allow_mac make of the setting.
Denied(s, m) ==
  IF s.mode = "stop" THEN [mode |-> "deny", macs |-> {m}]
  ELSE [s EXCEPT !.macs = IF s.mode = "allow" THEN @ \ {m} ELSE @ \cup {m}]
Allowed(s, m) ==
  [s EXCEPT !.macs = CASE s.mode = "allow" -> @ \cup {m}
                       [] s.mode = "deny" -> @ \ {m}
                       [] s.mode = "stop" -> @]

LoadMode(p) ==
  /\ moves(p, "mode", "block list")
  /\ LET s == [setting[p] EXCEPT !.mode = applied[1].mode]
     IN setting' = [setting EXCEPT ![p] = IF call[p].fn = "deny_mac" THEN Denied(s, call[p].mac)
                                          ELSE Allowed(s, call[p].mac)]
  /\ UNCHANGED <<router, owner, call, blocks, iface, history>>

\* block_add, block_del: the setting is loaded once more, and the file written.
BlockList(p) ==
  /\ moves(p, "block list", "block mode")
  /\ blocks' = [blocks EXCEPT ![p] = applied[1].macs]
  /\ UNCHANGED <<router, owner, call, setting, iface, history>>

BlockMode(p) ==
  /\ moves(p, "block mode", "block save")
  /\ LET all == IF applied[1].mode = "deny" THEN blocks[p] ELSE {}
     IN blocks' = [blocks EXCEPT ![p] = IF call[p].fn = "deny_mac" THEN all \cup {call[p].mac}
                                        ELSE all \ {call[p].mac}]
  /\ UNCHANGED <<router, owner, call, setting, iface, history>>

\* The file is written, and then save_setting may find that the setting is not valid.
BlockSave(p) ==
  /\ moves(p, "block save", Checked(setting[p]))
  /\ block_list' = blocks[p]
  /\ UNCHANGED <<applied, uci, owner, call, setting, blocks, iface, history>>

-----------------------------------------------------------------------------
(* save_setting_by_ifname, for one interface after the other               *)

saving == <<block_list, call, setting, blocks, history>>

\* Mutant: the lock is not waited for.
LockAtOnce(p) ==
  /\ moves(p, "lock", "acl")
  /\ owner' = p
  /\ UNCHANGED <<saving, applied, uci, iface>>

Lock(p) ==
  /\ owner = None
  /\ moves(p, "lock", "acl")
  /\ owner' = p
  /\ UNCHANGED <<saving, applied, uci, iface>>

SetAcl(p) ==
  /\ moves(p, "acl", "acllist")
  /\ applied' = [applied EXCEPT ![iface[p]].mode = setting[p].mode]
  /\ UNCHANGED <<saving, uci, owner, iface>>

SetAclList(p) ==
  /\ moves(p, "acllist", "uci")
  /\ applied' = [applied EXCEPT ![iface[p]].macs = setting[p].macs]
  /\ UNCHANGED <<saving, uci, owner, iface>>

SaveUci(p) ==
  /\ moves(p, "uci", "unlock")
  /\ uci' = setting[p]
  /\ UNCHANGED <<saving, applied, owner, iface>>

\* Mutant: only the first interface is saved to.
UnlockDone(p) ==
  /\ moves(p, "unlock", "done")
  /\ owner' = IF owner = p THEN None ELSE owner
  /\ UNCHANGED <<saving, applied, uci, iface>>

Unlock(p) ==
  /\ moves(p, "unlock", IF iface[p] < Ifaces THEN "lock" ELSE "done")
  /\ owner' = IF owner = p THEN None ELSE owner
  /\ iface' = [iface EXCEPT ![p] = IF @ < Ifaces THEN @ + 1 ELSE @]
  /\ UNCHANGED <<saving, applied, uci>>

\* The collector closes the file that the lock was taken with.
Collect(p) ==
  /\ owner = p
  /\ owner' = None
  /\ collected' = TRUE
  /\ UNCHANGED <<router, place, call, setting, blocks, iface, last, overlapped>>

MacNext ==
  \E p \in Caller :
    \/ \E m \in Mac : deny_mac(p, m) \/ allow_mac(p, m)
    \/ \E s \in Setting : save_setting(p, s)
    \/ LoadList(p) \/ LoadMode(p) \/ BlockList(p) \/ BlockMode(p) \/ BlockSave(p)
    \/ Lock(p) \/ SetAcl(p) \/ SetAclList(p) \/ SaveUci(p) \/ Unlock(p) \/ Collect(p)

MacSpec == MacInit /\ [][MacNext]_macVars

-----------------------------------------------------------------------------
\* What a restart of the router brings back from the file is what one of its interfaces
\* filters by now, whatever requests overlap, unless the collector has given a lock up
\* half way: the lock of each interface covers the file as well (mac_filter.lua:94-114).
StoredIsApplied ==
  owner = None /\ ~collected => \E i \in Iface : applied[i] = uci

Admits(s, m) == s.mode = "stop" \/ (s.mode = "allow" <=> m \in s.macs)

\* A request that ran alone takes effect as a whole, or not at all, even on what requests
\* that overlapped have left.  If it returns true all interfaces and the file have its
\* setting, and the device is denied or admitted; if it returns false its setting has
\* reached none of them.  But the file of the blocked devices has what the request made of
\* the list in the mode "deny", and so after a refusal what the filter does not have: it is
\* written before the setting is checked (mac_filter.lua:134,150).  For a request that
\* overlapped another none of this is so: the setting is loaded before the lock (:124,144),
\* and the lock is taken for each interface anew (:79).
AloneTakesEffect ==
  last # None /\ Running = {} /\ last \notin overlapped /\ ~collected
    => LET c == call[last]
           s == setting[last]
       IN /\ place[last] = "done"
               => /\ uci = s /\ \A i \in Iface : applied[i] = s
                  /\ c.fn # "save_setting" => (Admits(s, c.mac) <=> c.fn = "allow_mac")
          /\ place[last] = "refused" => s # uci /\ \A i \in Iface : applied[i] # s
          /\ c.fn # "save_setting" /\ s.mode = "deny" => block_list = s.macs
=============================================================================
