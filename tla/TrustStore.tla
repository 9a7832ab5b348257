----------------------------- MODULE TrustStore -----------------------------
(***************************************************************************)
(* The trust state of the devices: OlmDevice.trust_state in memory and what *)
(* a restart reads back, for the two stores of the client.  DefaultStore    *)
(* keeps one text file per state, a list of keys (KeyStore); SqliteStore    *)
(* keeps one row per device.                                                *)
(*                                                                          *)
(* The identity key of a device never changes (FingerprintPinned of         *)
(* DeviceTracking), so a file is the number of copies of each device's key  *)
(* and KeyStore never meets a mismatching fingerprint.                      *)
(*                                                                          *)
(* A definition headed "Slip" is a wrong version of the one after it, for   *)
(* mutation tests of the properties; nothing uses it.                       *)
(***************************************************************************)
EXTENDS Integers

CONSTANTS
  Device,
  MaxMarks   \* bound: calls that change the trust state

ASSUME MarksAssumption == MaxMarks \in Nat

VARIABLES
  backend,   \* config.store
  trust,     \* trust_state of the OlmDevice objects
  files,     \* DefaultStore: copies of each key in trust_db, blacklist_db, ignore_db
  row,       \* SqliteStore: the DeviceTrustState rows
  remarked,  \* history: devices given a state that their file already had
  marks

trustVars == <<backend, trust, files, row, remarked, marks>>

Mark       == {"verified", "blacklisted", "ignored"}
TrustState == Mark \cup {"unset"}

TrustInit ==
  /\ backend \in {"files", "sqlite"}
  /\ trust = [d \in Device |-> "unset"] /\ row = trust
  /\ files = [m \in Mark |-> [d \in Device |-> 0]]
  /\ remarked = {} /\ marks = 0

\* What load_device_keys finds: the files in this order, or the row.
LoadedFromFiles(d) ==
  CASE files["verified"][d] > 0    -> "verified"
    [] files["verified"][d] = 0 /\ files["blacklisted"][d] > 0 -> "blacklisted"
    [] files["verified"][d] = 0 /\ files["blacklisted"][d] = 0 /\ files["ignored"][d] > 0 -> "ignored"
    [] OTHER -> "unset"
LoadedFromRow(d) == row[d]
Loaded(d) == IF backend = "files" THEN LoadedFromFiles(d) ELSE LoadedFromRow(d)

\* is_device_verified, is_device_blacklisted and is_device_ignored.
Is(d, m) == IF backend = "files" THEN files[m][d] > 0 ELSE row[d] = m

\* KeyStore.remove takes one copy out of the list, if there is one.
Less(n) == IF n = 0 THEN 0 ELSE n - 1
\* Slip: the other files keep the device.
OnlyAdded(F, d, m) == [F EXCEPT ![m][d] = @ + 1]
\* The key leaves the two other files and is appended to its own, where it may
\* already be: add only refuses a different key of the same device.
Moved(F, d, m) == [n \in Mark |-> [F[n] EXCEPT ![d] = IF n = m THEN @ + 1 ELSE Less(@)]]
Removed(F, d, m) == [F EXCEPT ![m][d] = Less(@)]

\* DeviceTrustState.replace
ReplacedRow(R, d, s) == [R EXCEPT ![d] = s]

CountMark == marks < MaxMarks /\ marks' = marks + 1

\* verify_device, blacklist_device, ignore_device.
SetInFiles(d, m) ==
  /\ backend = "files"
  /\ files' = Moved(files, d, m)
  /\ remarked' = IF Is(d, m) THEN remarked \cup {d} ELSE remarked
  /\ UNCHANGED row
SetRow(d, m) ==
  /\ backend = "sqlite" /\ ~Is(d, m)
  /\ row' = ReplacedRow(row, d, m)
  /\ UNCHANGED <<files, remarked>>
SetTrust(d, m) ==
  /\ CountMark /\ (SetInFiles(d, m) \/ SetRow(d, m))
  /\ trust' = [trust EXCEPT ![d] = m]
  /\ UNCHANGED backend

\* unverify_device, unblacklist_device, unignore_device: nothing unless the
\* store has the device in that state.
UnsetInFiles(d, m) == backend = "files"  /\ files' = Removed(files, d, m) /\ UNCHANGED row
UnsetRow(d, m)     == backend = "sqlite" /\ row' = ReplacedRow(row, d, "unset") /\ UNCHANGED files
UnsetTrust(d, m) ==
  /\ CountMark /\ Is(d, m) /\ (UnsetInFiles(d, m) \/ UnsetRow(d, m))
  /\ trust' = [trust EXCEPT ![d] = "unset"]
  /\ UNCHANGED <<backend, remarked>>

\* ignore_devices: the files one after the other, all rows in one transaction.
IgnoreInFiles(D) ==
  /\ backend = "files"
  /\ files' = [n \in Mark |-> [d \in Device |->
                 IF d \notin D THEN files[n][d]
                 ELSE IF n = "ignored" THEN files[n][d] + 1 ELSE Less(files[n][d])]]
  /\ remarked' = remarked \cup {d \in D : Is(d, "ignored")}
  /\ UNCHANGED row
IgnoreRows(D) ==
  /\ backend = "sqlite"
  /\ row' = [d \in Device |-> IF d \in D THEN "ignored" ELSE row[d]]
  /\ UNCHANGED <<files, remarked>>
IgnoreDevices(D) ==
  /\ CountMark /\ D # {} /\ (IgnoreInFiles(D) \/ IgnoreRows(D))
  /\ trust' = [d \in Device |-> IF d \in D THEN "ignored" ELSE trust[d]]
  /\ UNCHANGED backend

\* The process ends and load_device_keys runs.
Reload ==
  /\ trust' = [d \in Device |-> Loaded(d)]
  /\ UNCHANGED <<backend, files, row, remarked, marks>>

\* The process ends between two files of SetTrust: the key has left the first or
\* both of the others and is not in its own yet.
ClearedFirst(m) == IF m = "blacklisted" THEN "verified" ELSE "blacklisted"
ReloadHalfway(d, m) ==
  /\ CountMark /\ backend = "files"
  /\ \E N \in {{ClearedFirst(m)}, Mark \ {m}} :
       files' = [n \in Mark |-> IF n \in N THEN [files[n] EXCEPT ![d] = Less(@)] ELSE files[n]]
  /\ UNCHANGED <<backend, row, remarked>>
  /\ trust' = [e \in Device |-> Loaded(e)']

-----------------------------------------------------------------------------
TrustTypeOK ==
  /\ backend \in {"files", "sqlite"}
  /\ trust \in [Device -> TrustState] /\ row \in [Device -> TrustState]
  /\ files \in [Mark -> [Device -> 0..MaxMarks]]
  /\ remarked \in SUBSET Device /\ marks \in 0..MaxMarks

\* What a restart reads back is what the device objects say, and the store
\* holds a device in one state only, unless the same mark was set twice in the
\* files: then unsetting it takes only one of the copies away.
TrustPersists ==
  \A d \in Device \ remarked :
    /\ Loaded(d) = trust[d]
    /\ \A m \in Mark : Is(d, m) <=> trust[d] = m
=============================================================================
