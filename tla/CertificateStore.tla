--------------------------- MODULE CertificateStore ---------------------------
(***************************************************************************)
(* The identity of a device and the fingerprints it trusts, on disk        *)
(* (src/src/core/security/certificate_manager.cc).  The identity is four   *)
(* files, written one after the other without a temporary name, each first *)
(* truncated by its open and filled when it is closed; the trusted         *)
(* fingerprints are one file, rewritten whole.  The process may be killed  *)
(* between any two of these steps and started again, and a read or a write *)
(* may fail, which no stream reports.                                      *)
(*                                                                         *)
(* A key pair is the number of the generation that made it.                *)
(***************************************************************************)
EXTENDS Integers

CONSTANTS
  Peer,       \* fingerprints of other devices
  MaxCrashes  \* bound on the times the process is killed

ASSUME StoreOK == MaxCrashes \in Nat /\ Peer \cap Int = {}

VARIABLES
  phase,         \* what the process is doing
  disk,          \* generation in each file of the identity
  context,       \* security_context_
  next_part,     \* the file saveSecurityContext is at
  opened,        \* that file has been truncated
  trusted,       \* trusted_fingerprints_
  trusted_file,  \* fingerprints in the file; Torn when it does not parse
  \* History, read by no guard of the code:
  generation,    \* key pairs generated so far
  crashes,       \* times the process was killed
  identity_fault, \* a read, a write or the making of an identity has failed
  trust_fault,   \* a rewrite of the trusted file was cut short, or a read failed
  kept           \* fingerprints the trusted file has ever held

svars == <<phase, disk, context, next_part, opened, trusted,
           trusted_file, generation, crashes, identity_fault, trust_fault, kept>>

\* The files of the identity in the order they are written: private_key.pem,
\* public_key.pem, certificate.pem, fingerprint.txt.
Part        == 1 .. 4
Fingerprint == 4

Absent == -1
Empty  == 0
Torn   == {Absent}   \* no fingerprint

NoContext == [p \in Part |-> Empty]

StoreInit ==
  /\ phase = "off"
  /\ disk = [p \in Part |-> Absent]
  /\ context = NoContext
  /\ next_part = 1
  /\ opened = FALSE
  /\ trusted = {}
  /\ trusted_file = {}
  /\ generation = 0
  /\ crashes = 0
  /\ identity_fault = FALSE
  /\ trust_fault = FALSE
  /\ kept = {}

-----------------------------------------------------------------------------
\* A new process: the constructor of CertificateManager starts.
Boot ==
  /\ phase = "off"
  /\ phase' = "load"
  /\ UNCHANGED <<disk, context, next_part, opened, trusted, trusted_file,
                 generation, crashes, identity_fault, trust_fault, kept>>

\* What the streams deliver: nothing from a file that cannot be opened.
FilesRead(unread) == [p \in Part |-> IF p \in unread THEN Empty ELSE disk[p]]

\* None of the files is missing or empty.
IsIdentity(files) == \A p \in Part : files[p] \notin {Absent, Empty}

\* Mutants: files that exist are an identity; the loaded fingerprint has to be a
\* trusted one; the trusted fingerprints are saved before they are loaded.
LoadSecurityContext_ExistenceOnly ==
  /\ phase = "load"
  /\ IF \A p \in Part : disk[p] # Absent
     THEN /\ context' = disk
          /\ trusted' = trusted \cup {disk[Fingerprint]}
          /\ phase' = "load_trusted"
     ELSE UNCHANGED <<context, trusted>> /\ phase' = "generate"
  /\ UNCHANGED <<disk, next_part, opened, trusted_file, generation, crashes,
                 identity_fault, trust_fault, kept>>

LoadSecurityContext_ChecksTrust ==
  /\ phase = "load"
  /\ IF \A p \in Part : disk[p] # Absent
     THEN context' = disk ELSE UNCHANGED context
  /\ phase' = IF IsIdentity(disk) /\ disk[Fingerprint] \in trusted
              THEN "load_trusted" ELSE "generate"
  /\ UNCHANGED <<disk, next_part, opened, trusted, trusted_file, generation,
                 crashes, identity_fault, trust_fault, kept>>

LoadSecurityContext_SavesTrusted ==
  /\ phase = "load"
  /\ IF \A p \in Part : disk[p] # Absent
     THEN /\ context' = disk
          /\ trusted' = trusted \cup {disk[Fingerprint]}
          /\ trusted_file' = trusted'
     ELSE UNCHANGED <<context, trusted, trusted_file>>
  /\ phase' = IF IsIdentity(disk) THEN "load_trusted" ELSE "generate"
  /\ UNCHANGED <<disk, next_part, opened, generation, crashes, identity_fault,
                 trust_fault, kept>>

\* loadSecurityContext: the files are read if all of them exist, and they are an
\* identity if none is empty.  The constructor sets the path of the trusted file
\* only after this, so the save that follows opens the empty path and fails in
\* silence, here and in generateSelfSignedCertificate.
LoadSecurityContext ==
  /\ phase = "load"
  /\ \/ \E unread \in SUBSET Part :
          /\ IF \A p \in Part : disk[p] # Absent
             THEN /\ context' = FilesRead(unread)
                  /\ trusted' = trusted \cup {context'[Fingerprint]}
             ELSE UNCHANGED <<context, trusted>>
          /\ phase' = IF IsIdentity(FilesRead(unread)) THEN "load_trusted" ELSE "generate"
          /\ identity_fault' = (identity_fault \/ unread # {})
     \/ /\ phase' = "generate"          \* a test of existence throws
        /\ identity_fault' = TRUE
        /\ UNCHANGED <<context, trusted>>
  /\ UNCHANGED <<disk, next_part, opened, trusted_file, generation, crashes,
                 trust_fault, kept>>

\* Mutant: only the files from the first missing one on are written.
GenerateCertificate_Resumes ==
  /\ phase = "generate"
  /\ generation' = generation + 1
  /\ context' = [p \in Part |-> generation']
  /\ trusted' = trusted \cup {generation'}
  /\ next_part' \in {p \in Part : /\ \A q \in 1 .. p - 1 : disk[q] # Absent
                                  /\ p = Fingerprint \/ disk[p] = Absent}
  /\ phase' = "save"
  /\ UNCHANGED <<disk, opened, trusted_file, crashes, identity_fault, trust_fault, kept>>

\* generateSelfSignedCertificate, called when nothing could be loaded.  When it
\* fails, the constructor goes on with what was loaded.
GenerateCertificate ==
  /\ phase = "generate"
  /\ \/ /\ generation' = generation + 1
        /\ context' = [p \in Part |-> generation']
        /\ trusted' = trusted \cup {generation'}
        /\ next_part' = 1
        /\ phase' = "save"
        /\ UNCHANGED identity_fault
     \/ /\ identity_fault' = TRUE
        /\ phase' = "load_trusted"
        /\ UNCHANGED <<generation, context, trusted, next_part>>
  /\ UNCHANGED <<disk, opened, trusted_file, crashes, trust_fault, kept>>

\* saveSecurityContext, file by file: each is opened, then written and closed; a
\* file that cannot be opened or written is passed over.
NextPart ==
  IF next_part = Fingerprint
  THEN phase' = "load_trusted" /\ UNCHANGED next_part
  ELSE next_part' = next_part + 1 /\ UNCHANGED phase

OpenPart ==
  /\ phase = "save"
  /\ ~opened
  /\ \/ /\ opened' = TRUE
        /\ disk' = [disk EXCEPT ![next_part] = Empty]
        /\ UNCHANGED <<phase, next_part, identity_fault>>
     \/ /\ identity_fault' = TRUE
        /\ NextPart
        /\ UNCHANGED <<opened, disk>>
  /\ UNCHANGED <<context, trusted, trusted_file, generation, crashes, trust_fault, kept>>

ClosePart ==
  /\ phase = "save"
  /\ opened
  /\ opened' = FALSE
  /\ \/ /\ disk' = [disk EXCEPT ![next_part] = context[next_part]]
        /\ UNCHANGED identity_fault
     \/ /\ identity_fault' = TRUE
        /\ UNCHANGED disk
  /\ NextPart
  /\ UNCHANGED <<context, trusted, trusted_file, generation, crashes, trust_fault, kept>>

\* The rest of the constructor: loadTrustedFingerprints.  A file that does not
\* parse or cannot be read adds nothing.
LoadTrustedFingerprints ==
  /\ phase = "load_trusted"
  /\ \/ /\ trusted' = IF trusted_file = Torn THEN trusted ELSE trusted \cup trusted_file
        /\ UNCHANGED trust_fault
     \/ trust_fault' = TRUE /\ UNCHANGED trusted
  /\ phase' = "up"
  /\ UNCHANGED <<disk, context, next_part, opened, trusted_file, generation,
                 crashes, identity_fault, kept>>

\* VerifyCertificate, at the handshake with a peer: every peer is trusted at its
\* first appearance.
VerifyCertificate(f) ==
  /\ phase = "up"
  /\ \/ f \in trusted /\ UNCHANGED svars
     \/ /\ f \notin trusted
        /\ trusted' = trusted \cup {f}
        /\ \/ trusted_file' = Torn /\ phase' = "save_trusted"
           \/ UNCHANGED <<trusted_file, phase>>   \* the file cannot be opened
        /\ UNCHANGED <<disk, context, next_part, opened, generation, crashes,
                       identity_fault, trust_fault, kept>>

\* The rest of saveTrustedFingerprints.
CloseTrusted ==
  /\ phase = "save_trusted"
  /\ \/ /\ trusted_file' = trusted
        /\ kept' = kept \cup trusted
        /\ UNCHANGED trust_fault
     \/ /\ trust_fault' = TRUE
        /\ UNCHANGED <<trusted_file, kept>>
  /\ phase' = "up"
  /\ UNCHANGED <<disk, context, next_part, opened, trusted, generation, crashes,
                 identity_fault>>

\* The process ends or is killed; its memory is gone.
Crash ==
  /\ phase # "off"
  /\ crashes < MaxCrashes
  /\ crashes' = crashes + 1
  /\ phase' = "off"
  /\ context' = NoContext
  /\ next_part' = 1
  /\ opened' = FALSE
  /\ trusted' = {}
  /\ trust_fault' = (trust_fault \/ trusted_file = Torn)
  /\ UNCHANGED <<disk, trusted_file, generation, identity_fault, kept>>

StoreNext ==
  \/ Boot
  \/ LoadSecurityContext
  \/ GenerateCertificate
  \/ OpenPart
  \/ ClosePart
  \/ LoadTrustedFingerprints
  \/ \E f \in Peer : VerifyCertificate(f)
  \/ CloseTrusted
  \/ Crash

StoreSpec == StoreInit /\ [][StoreNext]_svars

-----------------------------------------------------------------------------
\* Properties.

\* The type invariant.
StoreTypeOK ==
  /\ phase \in {"off", "load", "generate", "save", "load_trusted", "up",
                "save_trusted"}
  /\ disk \in [Part -> Nat \cup {Absent}]
  /\ context \in [Part -> Nat \cup {Absent}]
  /\ next_part \in Part
  /\ opened \in BOOLEAN
  /\ generation \in Nat
  /\ crashes \in Nat
  /\ identity_fault \in BOOLEAN
  /\ trust_fault \in BOOLEAN

\* The private key, the public key, the certificate and the fingerprint that the
\* process works with are of one generation, at whatever point earlier
\* processes were killed, unless a file could not be read or written.
IdentityIsOne ==
  phase \in {"load_trusted", "up", "save_trusted"} /\ ~identity_fault =>
    \A p \in Part : context[p] = context[Fingerprint] /\ context[p] > 0

\* fingerprint.txt commits an identity: once it is written the files before it
\* are those it was computed from.
FingerprintCommits ==
  disk[Fingerprint] > 0 /\ ~identity_fault =>
    \A p \in Part : disk[p] = disk[Fingerprint]

\* A device that has once come up under an identity keeps it: no restart makes a
\* new one, which every peer would have to trust again.
IdentityIsStable ==
  [][~identity_fault' /\ disk[Fingerprint] > 0 => disk' = disk /\ generation' = generation]_svars

\* A fingerprint that was saved as trusted is never lost to a later save, unless
\* a save was cut short or the file could not be read: what initSecurityContext adds before the file is
\* read is not written over it.
TrustSurvives ==
  ~trust_fault =>
    /\ trusted_file # Torn => kept \subseteq trusted_file
    /\ phase \in {"up", "save_trusted"} => kept \subseteq trusted

\* What the properties of the identity rest on: while the files are written the ones
\* before next_part are those of the context, and fingerprint.txt is not
\* complete.
SavingInOrder ==
  ~identity_fault =>
    /\ phase = "save" => /\ \A p \in Part : context[p] = generation
                         /\ \A p \in Part : p < next_part => disk[p] = generation
                         /\ generation > 0
    /\ phase \in {"generate", "save"} => disk[Fingerprint] <= 0
    /\ phase \in {"load_trusted", "up", "save_trusted"} =>
         context = disk /\ disk[Fingerprint] > 0

\* The inductive invariant.
StoreInv ==
  /\ StoreTypeOK
  /\ SavingInOrder
  /\ FingerprintCommits
  /\ IdentityIsOne
===============================================================================
