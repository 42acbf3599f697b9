---------------------------- MODULE LocalSecrets ----------------------------
(***************************************************************************)
(* The networking key: the local secrets manager and the start-up of the   *)
(* programs that keep their libp2p key with it (the server, the relay      *)
(* client and the relay server, whose setupLibp2pKey are the same).        *)
(*                                                                         *)
(* A file is named by the key it holds.  It may have been provisioned      *)
(* beforehand, encrypted if a password is used; what SetSecret writes is   *)
(* never encrypted.  Every call of the file system may fail, and a crash   *)
(* ends a start between any two steps.                                     *)
(*                                                                         *)
(* External: the file system, and libp2p.New, which may fail.              *)
(*                                                                         *)
(* A definition that stands just before another one of the same shape is   *)
(* a variant with a defect, used only to show that the properties notice.  *)
(***************************************************************************)
CONSTANTS
  Starters,     \* programs that share the secrets' directory
  Provisioned,  \* the key that an operator put there
  Generated,    \* keys generated at a start
  Absent, Torn, \* no file; a file created and not written, or not wholly
  NoKey

Keys == {Provisioned} \cup Generated

ASSUME KeysAssumption ==
  /\ Provisioned \notin Generated
  /\ {Absent, Torn, NoKey} \cap Keys = {}
  /\ Absent # Torn

(* There is a key that no other program has and that is not on disk. *)
ASSUME FreshKeysAssumption ==
  \A s \in Starters : \A k \in [Starters -> Keys \cup {NoKey}] : \A f \in Keys \cup {Absent, Torn} :
    \E g \in Generated : g # f /\ \A t \in Starters \ {s} : k[t] # g

VARIABLES
  path,         \* the data directory is "set" or "none"
  file,         \* libp2p.key
  pass,         \* secretPass: "none", "valid", "invalid" (no AES key length)
  boot,         \* where a start is
  key,          \* its key
  met,          \* auxiliary: first starts that met, and those that started meanwhile
  faults,       \* auxiliary: starts in which a call of the file system failed
  blind         \* auxiliary: SetSecret has taken a failing os.Stat for an absent file

bootVars == <<path, file, pass, boot, key, met, faults, blind>>

(* "off": not started.  "read": before ReadLibp2pKey.  "generate": before SetSecret's
   check.  "unmapped": there, with a manager that knows no path.  "create", "write":
   before os.WriteFile opens and writes.  "host": before libp2p.New.  "nokey",
   "nohost": the constructor returned an error. *)
BootSteps == {"off", "read", "generate", "unmapped", "create", "write", "host", "up", "nokey",
              "nohost"}

(* A first start: it found no key and has not stored one yet. *)
FirstStart(s) == boot[s] \in {"generate", "create", "write"}

BootInit ==
  /\ path \in {"set", "none"}
  /\ file \in IF path = "set" THEN {Absent, Provisioned} ELSE {Absent}
  /\ pass \in {"none", "valid", "invalid"}
  /\ boot = [s \in Starters |-> "off"]
  /\ key = [s \in Starters |-> NoKey]
  /\ met = {} /\ faults = {} /\ blind = FALSE

(* The secret is never found. *)
NeverReadable == TRUE

(* GetSecret returns an error although os.ReadFile works: no file, or no cipher. *)
Unreadable == file = Absent \/ pass = "invalid"

(* The file holds a key, and decryption gives it back. *)
Parses == file \in Keys /\ (pass # "none" => file = Provisioned)

To(s, step) == boot' = [boot EXCEPT ![s] = step]

Faulty(s) == faults' = faults \cup {s}

(* The manager is made; the error of its Setup is dropped, and the map of paths is empty
   then.  With no data directory it always is. *)
Unmapped(s) ==
  /\ To(s, "unmapped") /\ UNCHANGED met
  /\ IF path = "set" THEN Faulty(s) ELSE UNCHANGED faults

(* GetSecret's error counts as no secret, whatever it is. *)
NoSecret(s) ==
  /\ To(s, "generate")
  /\ LET others == {t \in Starters : FirstStart(t)} IN
     met' = IF others = {} THEN met ELSE met \cup others \cup {s}
  /\ \/ Unreadable /\ UNCHANGED faults
     \/ Faulty(s)

FoundSecret(s) ==
  /\ ~Unreadable
  /\ To(s, "read") /\ UNCHANGED faults
  /\ met' = IF \E t \in met : FirstStart(t) THEN met \cup {s} ELSE met

(* SecretsManagerFactory and HasSecret. *)
HasSecret(s) ==
  /\ boot[s] = "off"
  /\ Unmapped(s) \/ (path = "set" /\ (NoSecret(s) \/ FoundSecret(s)))
  /\ UNCHANGED <<path, file, pass, key, blind>>

(* The key is taken as it is read. *)
ReadAnyKey(s) ==
  /\ boot[s] = "read"
  /\ To(s, "host") /\ key' = [key EXCEPT ![s] = file]
  /\ UNCHANGED <<path, file, pass, met, faults, blind>>

(* GetSecret once more. *)
ReadLibp2pKey(s) ==
  /\ boot[s] = "read"
  /\ \/ Parses /\ To(s, "host") /\ key' = [key EXCEPT ![s] = file] /\ UNCHANGED faults
     \/ ~Parses /\ To(s, "nokey") /\ UNCHANGED <<key, faults>>
     \/ To(s, "nokey") /\ UNCHANGED key /\ Faulty(s)
  /\ UNCHANGED <<path, file, pass, met, blind>>

GenerateKey == CHOOSE k \in Generated : k # file /\ \A s \in Starters : key[s] # k

(* The new key, for which there is no path: without a data directory it is used and not
   stored. *)
SetUnmapped(s) ==
  /\ boot[s] = "unmapped"
  /\ IF path = "none" THEN To(s, "host") /\ key' = [key EXCEPT ![s] = GenerateKey]
                      ELSE To(s, "nokey") /\ UNCHANGED key
  /\ UNCHANGED <<path, file, pass, met, faults, blind>>

(* SetSecret that does not look for an existing secret. *)
SetSecretAnyway(s) ==
  /\ boot[s] = "generate"
  /\ To(s, "create") /\ key' = [key EXCEPT ![s] = GenerateKey]
  /\ UNCHANGED <<path, file, pass, met, faults, blind>>

(* The new key, and SetSecret up to its check, which any error of os.Stat passes. *)
SetSecret(s) ==
  /\ boot[s] = "generate"
  /\ \/ /\ file # Absent
        /\ To(s, "nokey") /\ UNCHANGED <<key, faults, blind>>
     \/ /\ To(s, "create") /\ key' = [key EXCEPT ![s] = GenerateKey]
        /\ IF file = Absent THEN UNCHANGED <<faults, blind>> ELSE Faulty(s) /\ blind' = TRUE
  /\ UNCHANGED <<path, file, pass, met>>

NotSaved(s) == To(s, "nokey") /\ key' = [key EXCEPT ![s] = NoKey]

(* SaveFileSafe creates or truncates; a file that has come meanwhile may be refused:
   it is read-only, and os.Stat's result for it is nil. *)
CreateFile(s) ==
  /\ boot[s] = "create"
  /\ \/ To(s, "write") /\ file' = Torn /\ UNCHANGED <<key, faults>>
     \/ NotSaved(s) /\ UNCHANGED file /\ IF file = Absent THEN Faulty(s) ELSE UNCHANGED faults
  /\ UNCHANGED <<path, pass, met, blind>>

WriteFile(s) ==
  /\ boot[s] = "write"
  /\ \/ To(s, "host") /\ file' = key[s] /\ UNCHANGED <<key, faults>>
     \/ NotSaved(s) /\ file' \in {file, Torn} /\ Faulty(s)
  /\ UNCHANGED <<path, pass, met, blind>>

(* The rest of the constructor. *)
NewHost(s) ==
  /\ boot[s] = "host"
  /\ \/ To(s, "up") /\ UNCHANGED key
     \/ To(s, "nohost") /\ key' = [key EXCEPT ![s] = NoKey]
  /\ UNCHANGED <<path, file, pass, met, faults, blind>>

(* The program ends, by a crash or for a new start. *)
Crash(s) ==
  /\ boot[s] # "off"
  /\ To(s, "off") /\ key' = [key EXCEPT ![s] = NoKey]
  /\ met' = met \ {s} /\ faults' = faults \ {s}
  /\ UNCHANGED <<path, file, pass, blind>>

BootStep(s) ==
  \/ HasSecret(s) \/ ReadLibp2pKey(s) \/ SetUnmapped(s) \/ SetSecret(s)
  \/ CreateFile(s) \/ WriteFile(s) \/ NewHost(s)

-----------------------------------------------------------------------------
BootTypeOK ==
  /\ path \in {"set", "none"}
  /\ file \in Keys \cup {Absent, Torn} /\ pass \in {"none", "valid", "invalid"}
  /\ boot \in [Starters -> BootSteps] /\ key \in [Starters -> Keys \cup {NoKey}]
  /\ met \subseteq Starters /\ faults \subseteq Starters /\ blind \in BOOLEAN

(* A program that has a data directory runs with the key that is on disk. *)
KeyOnDisk ==
  path = "set" /\ ~blind =>
    \A s \in Starters : boot[s] \in {"host", "up"} => key[s] = file \/ s \in met

(* A key that is on disk stays there, also while no program runs. *)
KeyStays ==
  file \in Keys /\ file' # file /\ ~blind => \E s \in met : boot[s] \in {"create", "write"}

(* A node with a data directory is the same peer for ever: it runs with the key that is on
   disk and finds it there at the next start, whatever starts, ends, crashes and failures
   there were.  The exceptions: two first starts that met, and what started while they
   did; and an os.Stat that failed on a file which is there, so that SetSecret writes
   over it. *)
SamePeer == []KeyOnDisk /\ [][KeyStays]_bootVars

(* A start in which every call of the file system works gets its key.  The exceptions: it
   finds an empty file, which a crash, a failed write or another's first start left; two
   first starts met; there is a password: SetSecret writes the key in the clear and
   GetSecret decrypts it. *)
SoundStartGetsKey ==
  [][\A s \in Starters :
       boot[s] # "nokey" /\ boot'[s] = "nokey" =>
         file = Torn \/ s \in met' \cup faults' \/ pass # "none"]_bootVars
=============================================================================
