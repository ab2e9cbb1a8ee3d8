------------------------------- MODULE MasterKey -------------------------------
(***************************************************************************)
(* The master key: loadOrCreateKey of internal/security/cipher.go, and     *)
(* what is encrypted with it in the database.                              *)
(*                                                                         *)
(* Every start of the program loads the key or makes it; two starts on one *)
(* data directory may race, and the code provides for that.  A program may *)
(* crash at any step.  What it has written to a file stays in the memory   *)
(* of the operating system for a while: a power failure loses it, while a  *)
(* transaction of SQLite is on the disk when it commits.                   *)
(***************************************************************************)
EXTENDS FiniteSets

CONSTANTS
    Processes,  \* programs that use this data directory
    Keys,       \* keys of 32 bytes; each is generated once (the bound)
    Absent,     \* there is no file
    Short,      \* a file of less than 32 bytes
    PowerLoss   \* the power may fail

\* What the theorems assume of the constants.
KeyAssumption ==
    /\ Absent # Short
    /\ {Absent, Short} \cap Keys = {}
    /\ PowerLoss \in BOOLEAN

VARIABLES
    file,    \* master.key, as every program sees it
    disk,    \* master.key, as it is after a power failure
    pc,      \* the step each program is at
    key,     \* the key in its memory
    stored,  \* the keys of the ciphertexts in the database
    used     \* the keys generated so far

vars == <<file, disk, pc, key, stored, used>>

Contents == Keys \cup {Absent, Short}

\* The type of every variable.  A program that serves requests has a key.
TypeOK ==
    /\ file \in Contents
    /\ disk \in Contents
    /\ pc \in [Processes -> {"down", "read", "create", "write", "up"}]
    /\ key \in [Processes -> Keys \cup {Absent}]
    /\ \A p \in Processes : pc[p] = "up" => key[p] \in Keys
    /\ stored \subseteq Keys
    /\ used \subseteq Keys

Init ==
    /\ file = Absent
    /\ disk = Absent
    /\ pc = [p \in Processes |-> "down"]
    /\ key = [p \in Processes |-> Absent]
    /\ stored = {}
    /\ used = {}

Goto(p, step) == pc' = [pc EXCEPT ![p] = step]

\* run returns the error, or the program is gone: its memory is lost.
Exit(p) ==
    /\ Goto(p, "down")
    /\ key' = [key EXCEPT ![p] = Absent]

Start(p) ==
    /\ pc[p] = "down"
    /\ Goto(p, "read")
    /\ UNCHANGED <<file, disk, key, stored, used>>

\* The file is there: it is the key, or the start fails.
ReadKey(p) ==
    /\ pc[p] = "read" /\ file # Absent
    /\ \/ file # Short /\ key' = [key EXCEPT ![p] = file] /\ Goto(p, "up")
       \/ file = Short /\ Exit(p)
    /\ UNCHANGED <<file, disk, stored, used>>

\* It is not there: a key is generated in memory.
GenerateKey(p) ==
    /\ pc[p] = "read" /\ file = Absent
    /\ \E k \in Keys \ used :
          /\ key' = [key EXCEPT ![p] = k]
          /\ used' = used \cup {k}
    /\ Goto(p, "create")
    /\ UNCHANGED <<file, disk, stored>>

\* O_EXCL: one program creates the file, the others go back and read it.
CreateFile(p) ==
    /\ pc[p] = "create"
    /\ \/ file = Absent /\ file' = Short /\ Goto(p, "write") /\ UNCHANGED key
       \/ /\ file # Absent
          /\ Goto(p, "read")
          /\ key' = [key EXCEPT ![p] = Absent]
          /\ UNCHANGED file
    /\ UNCHANGED <<disk, stored, used>>

\* A write that fails, with a full disk for example, leaves the file behind.
WriteKey(p) ==
    /\ pc[p] = "write"
    /\ \/ file' = key[p] /\ Goto(p, "up") /\ UNCHANGED key
       \/ UNCHANGED file /\ Exit(p)
    /\ UNCHANGED <<disk, stored, used>>

\* A handler encrypts a Cloudflare token, a webhook secret or a TOTP secret, and
\* commits it.
Encrypt(p) ==
    /\ pc[p] = "up"
    /\ stored' = stored \cup {key[p]}
    /\ UNCHANGED <<file, disk, pc, key, used>>

Crash(p) ==
    /\ pc[p] # "down"
    /\ Exit(p)
    /\ UNCHANGED <<file, disk, stored, used>>

-------------------------------------------------------------------------------
(* The operating system *)

WriteBack ==
    /\ disk' = file
    /\ UNCHANGED <<file, pc, key, stored, used>>

PowerFails ==
    /\ PowerLoss
    /\ file' = disk
    /\ pc' = [p \in Processes |-> "down"]
    /\ key' = [p \in Processes |-> Absent]
    /\ UNCHANGED <<disk, stored, used>>

Load(p) == ReadKey(p) \/ GenerateKey(p) \/ CreateFile(p) \/ WriteKey(p)

Next ==
    \/ \E p \in Processes : Start(p) \/ Load(p) \/ Encrypt(p) \/ Crash(p)
    \/ WriteBack
    \/ PowerFails

Spec == Init /\ [][Next]_vars

-------------------------------------------------------------------------------
(* Properties *)

\* Programs that run at the same time have the same key, whichever of them made
\* it, so each can read what another has encrypted.
OneKey ==
    \A p, q \in Processes : pc[p] = "up" /\ pc[q] = "up" => key[p] = key[q]

\* Whatever is in the database can be decrypted with the file, so also after the
\* next start.
StoredReadable == stored \subseteq {file}

\* docs/deployment.md: master.key is a key of 32 bytes.  It may be less only
\* while a program is writing it.
KeyIsWhole ==
    file = Short => \E p \in Processes : pc[p] = "write"
===============================================================================
