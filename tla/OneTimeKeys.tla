---------------------------- MODULE OneTimeKeys -----------------------------
(***************************************************************************)
(* The one-time keys of the client's Olm account: generated and uploaded    *)
(* when the server has too few, claimed by other devices, used up by the    *)
(* first pre-key message of the session made with them; and what of the     *)
(* account and the inbound sessions a restart finds in the database.        *)
(*                                                                          *)
(* One-time keys are numbered in the order they are generated.  A session   *)
(* is named by its key and the number of the claim it was made with.        *)
(*                                                                          *)
(* External: the server stores an uploaded key it does not have, and gives  *)
(* each key to one claim; vodozemac's account removes the key from memory   *)
(* when it makes a session, and a missing key makes that fail.              *)
(*                                                                          *)
(* A definition headed "Slip" is a wrong version of the one after it, for   *)
(* mutation tests of the properties; nothing uses it.                       *)
(***************************************************************************)
EXTENDS Naturals, FiniteSets

CONSTANTS
  MaxOneTimeKeys,  \* max_one_time_keys of the account
  NoCount,         \* uploaded_key_count is None
  MaxKeys,         \* bound: keys generated
  MaxClaims,       \* bound: claims by other devices
  MaxFaults        \* bound: failed or repeated uploads, restarts

ASSUME TargetAssumption == MaxOneTimeKeys \in Nat \ {0}
ASSUME AccountAssumption == MaxKeys \in Nat /\ MaxClaims \in Nat /\ MaxFaults \in Nat
ASSUME NoCountAssumption == NoCount \notin Nat

VARIABLES
  account,   \* state of each key in the account, and whether it is shared
  saved,     \* the pickled account in the database
  count,     \* uploaded_key_count
  sessions,  \* inbound Olm sessions, which are saved when they are made
  server,    \* keys the server can give out
  claims,    \* number of times each key was given out
  upload,    \* the keys_upload request
  sync,      \* the count in the sync response on its way
  messages,  \* pre-key messages of other devices on their way
  failed,    \* history: messages no session could be made for
  orphans,   \* history: keys uploaded by a process that ended before saving them
  unlearned, \* history: keys on the server that the client counts as unpublished
  faults

account_vars == <<account, saved, count, sessions, server, claims, upload, sync, messages,
                  failed, orphans, unlearned, faults>>

Key == 1..MaxKeys
KeyState == {"none", "fresh", "published", "used"}
OlmSession == Key \X (1..MaxClaims)

KeysIn(a, S) == {k \in Key : a.key[k] \in S}
Private(a)   == KeysIn(a, {"fresh", "published"})
Generated(a) == KeysIn(a, KeyState \ {"none"})

NewAccount == [key |-> [k \in Key |-> "none"], shared |-> FALSE]
NoUpload   == [state |-> "idle", keys |-> {}, count |-> 0]

AccountInit ==
  /\ account = NewAccount /\ saved = NewAccount
  /\ count = NoCount /\ sessions = {} /\ server = {}
  /\ claims = [k \in Key |-> 0] /\ upload = NoUpload
  /\ sync = NoCount /\ messages = {}
  /\ failed = {} /\ orphans = {} /\ unlearned = {} /\ faults = 0

Fault == faults < MaxFaults /\ faults' = faults + 1

-----------------------------------------------------------------------------
(* Uploading.                                                              *)

ShouldUploadKeys ==
  \/ ~account.shared
  \/ count # NoCount /\ count < MaxOneTimeKeys

\* Numbers never used before: a key of a lost process is not generated again.
NewKeys(n) == LET used == Generated(account) \cup Generated(saved) \cup server \cup orphans
                        \cup {k \in Key : claims[k] > 0}
                top  == IF used = {} THEN 0 ELSE CHOOSE k \in used : \A j \in used : j <= k
            IN (top + 1)..(top + n)

\* share_keys: as many keys as the server lacks, and all that are unpublished go
\* into the request, those of an upload that failed included.
Missing == IF account.shared THEN MaxOneTimeKeys - count ELSE MaxOneTimeKeys
KeysUpload ==
  LET new == NewKeys(Missing)
      key == [k \in Key |-> IF k \in new THEN "fresh" ELSE account.key[k]]
  IN /\ ShouldUploadKeys /\ upload.state = "idle" /\ new \subseteq Key
     /\ account' = [account EXCEPT !.key = key]
     /\ upload' = [state |-> "asked", keys |-> {k \in Key : key[k] = "fresh"}, count |-> 0]
     /\ UNCHANGED <<saved, count, sessions, server, claims, sync, messages, failed, orphans,
                    unlearned, faults>>

ServerStores ==
  /\ upload.state = "asked"
  /\ server' = server \cup upload.keys
  /\ upload' = [upload EXCEPT !.state = "answered", !.count = Cardinality(server')]
  /\ UNCHANGED <<account, saved, count, sessions, claims, sync, messages, failed, orphans,
                 unlearned, faults>>

\* Slip: the keys stay unpublished.
SharedOnly(a) == [a EXCEPT !.shared = TRUE]
\* mark_keys_as_published takes every key of the account.
Published(a) ==
  [shared |-> TRUE,
   key |-> [k \in Key |-> IF a.key[k] = "fresh" THEN "published" ELSE a.key[k]]]

\* Slip: the account is not saved with the answer.
KeepSaved(a) == saved
SaveAccount(a) == a

\* handle_response, KeysUploadResponse
UploadAnswered ==
  /\ upload.state = "answered" /\ upload' = NoUpload
  /\ account' = Published(account)
  /\ saved' = SaveAccount(account')
  /\ count' = upload.count
  /\ UNCHANGED <<sessions, server, claims, sync, messages, failed, orphans, unlearned, faults>>

\* An error, or a time-out after which _send repeats the same request.
UploadFails ==
  /\ Fault /\ upload.state # "idle"
  /\ upload' \in {NoUpload, [upload EXCEPT !.state = "asked"]}
  /\ unlearned' = IF upload.state = "answered" THEN unlearned \cup upload.keys ELSE unlearned
  /\ UNCHANGED <<account, saved, count, sessions, server, claims, sync, messages, failed,
                 orphans>>

\* handle_key_upload_error of HttpClient: an answer with status 400 or 500 counts
\* the keys as published, whatever the server has done with them.
UploadRefused ==
  /\ Fault /\ upload.state # "idle" /\ upload' = NoUpload
  /\ account' = Published(account)
  /\ saved' = SaveAccount(account')
  /\ UNCHANGED <<count, sessions, server, claims, sync, messages, failed, orphans, unlearned>>

-----------------------------------------------------------------------------
(* The key count of a sync response, which may be older than the answer to *)
(* an upload.                                                              *)

SyncAnswers ==
  /\ sync = NoCount /\ sync' = Cardinality(server)
  /\ UNCHANGED <<account, saved, count, sessions, server, claims, upload, messages, failed,
                 orphans, unlearned, faults>>

\* Slip: only a first count is taken over.
FirstCount(n) == IF count = NoCount THEN n ELSE count
\* Slip: keys claimed for messages on their way are taken off once more.
CountLeft(n) == n - Cardinality(messages)
\* _handle_olm_events: a count of zero is falsy and leaves the old one.
NewCount(n) == IF n = 0 THEN count ELSE n

SyncHandled ==
  /\ sync # NoCount /\ sync' = NoCount
  /\ count' = NewCount(sync)
  /\ UNCHANGED <<account, saved, sessions, server, claims, upload, messages, failed, orphans,
                 unlearned, faults>>

-----------------------------------------------------------------------------
(* Other devices.                                                          *)

TotalClaims == Cardinality({s \in OlmSession : s[2] <= claims[s[1]]})

\* A device claims a key and sends the first message of its session.
Claim(k) ==
  /\ k \in server /\ TotalClaims < MaxClaims
  /\ server' = server \ {k}
  /\ claims' = [claims EXCEPT ![k] = @ + 1]
  /\ messages' = messages \cup {<<k, claims'[k]>>}
  /\ UNCHANGED <<account, saved, count, sessions, upload, sync, failed, orphans, unlearned, faults>>

\* A new session needs the private key; _try_decrypt comes first.
CanCreate(m) == m \notin sessions /\ m[1] \in Private(account)

\* decrypt and _create_inbound_session for a pre-key message.  The account is
\* saved before the session takes the key out of it, which is in s.decrypt.
\* The other device sends pre-key messages until it gets an answer.
PreKeyMessage(m) ==
  /\ m \in messages /\ messages' \in {messages, messages \ {m}}
  /\ \/ /\ CanCreate(m)
        /\ saved' = SaveAccount(account)
        /\ account' = [account EXCEPT !.key[m[1]] = "used"]
        /\ sessions' = sessions \cup {m}
        /\ UNCHANGED failed
     \/ m \in sessions /\ UNCHANGED <<account, saved, sessions, failed>>
     \/ /\ m \notin sessions /\ ~CanCreate(m)
        /\ failed' = failed \cup {m}
        /\ UNCHANGED <<account, saved, sessions>>
  /\ UNCHANGED <<count, server, claims, upload, sync, orphans, unlearned, faults>>

\* create_session, for a device whose key the client has claimed.
CreateSession ==
  /\ saved # account /\ saved' = SaveAccount(account)
  /\ UNCHANGED <<account, count, sessions, server, claims, upload, sync, messages, failed,
                 orphans, unlearned, faults>>

\* A request that is under way when the process ends may still be handled.
Restart ==
  /\ Fault
  /\ server' \in IF upload.state = "asked" THEN {server, server \cup upload.keys} ELSE {server}
  /\ account' = saved /\ count' = NoCount /\ upload' = NoUpload /\ sync' = NoCount
  /\ LET stored == server' \cup {k \in Key : claims[k] > 0}
     IN /\ orphans' = orphans \cup ((stored \cap KeysIn(account, {"fresh"})) \ Generated(saved))
        /\ unlearned' = unlearned \cup (stored \cap KeysIn(saved, {"fresh"}))
  /\ UNCHANGED <<saved, sessions, claims, messages, failed>>

-----------------------------------------------------------------------------
AccountNext ==
  \/ KeysUpload \/ ServerStores \/ UploadAnswered \/ UploadFails \/ UploadRefused
  \/ SyncAnswers \/ SyncHandled \/ CreateSession \/ Restart
  \/ \E k \in Key : Claim(k)
  \/ \E m \in messages : PreKeyMessage(m)
AccountSpec == AccountInit /\ [][AccountNext]_account_vars

\* sync_forever goes on, and the server answers.
AccountFairSpec ==
  /\ AccountSpec
  /\ WF_account_vars(KeysUpload) /\ WF_account_vars(ServerStores) /\ WF_account_vars(UploadAnswered)
  /\ WF_account_vars(SyncAnswers) /\ WF_account_vars(SyncHandled)

-----------------------------------------------------------------------------
(* Properties.                                                             *)

Account == [key : [Key -> KeyState], shared : BOOLEAN]
AccountTypeOK ==
  /\ account \in Account /\ saved \in Account
  /\ count \in Nat \cup {NoCount} /\ sync \in Nat \cup {NoCount}
  /\ sessions \in SUBSET OlmSession /\ messages \in SUBSET OlmSession /\ failed \in SUBSET OlmSession
  /\ server \in SUBSET Key /\ orphans \in SUBSET Key /\ unlearned \in SUBSET Key
  /\ claims \in [Key -> 0..MaxClaims]
  /\ upload \in [state : {"idle", "asked", "answered"}, keys : SUBSET Key, count : Nat]
  /\ faults \in 0..MaxFaults

\* A key is given to one device only, so that no two sessions start from the
\* same key, unless the client never learned that it was uploaded: the answer
\* was lost, or the process ended before it was handled.
GivenOutOnce == \A k \in Key : claims[k] <= 1 \/ k \in unlearned

\* Every session another device makes can be joined: its key is still there,
\* or the session is, unless the process that uploaded the key ended before
\* saving it or the key was given out twice.
SessionsJoin == \A m \in failed : m[1] \in orphans \/ claims[m[1]] > 1

\* "Save the account now that we removed the one time key"
\* (_create_inbound_session): the saved account has no key that a saved session
\* was made from.  Does not hold: it is saved before the key leaves it.
UsedKeyIsGone == \A m \in sessions : m[1] \notin Private(saved)

\* A server that is short of keys, but not out of them, gets more (as long as
\* the bound leaves keys to generate).
Short     == server # {} /\ Cardinality(server) < MaxOneTimeKeys
Exhausted == ~(NewKeys(MaxOneTimeKeys) \subseteq Key)
Refills   == Short ~> ~Short \/ Exhausted

\* "Returns True if encryption keys need to be uploaded" (should_upload_keys): a
\* server with no key left gets new ones.  Does not hold: a count of zero is
\* ignored.
NeverRunsOut == (account.shared /\ server = {}) ~> server # {}
=============================================================================
