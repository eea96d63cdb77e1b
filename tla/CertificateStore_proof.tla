------------------------ MODULE CertificateStore_proof ------------------------
(***************************************************************************)
(* Proofs about CertificateStore: whatever kills the process, the identity *)
(* it works with is one, and once committed it stays.  The argument is     *)
(* that fingerprint.txt, written last, is a commit record: while an        *)
(* identity is being written the file is missing or empty, so a process    *)
(* that is killed then is followed by one that starts over.                *)
(***************************************************************************)
EXTENDS CertificateStore, TLAPS

\* The invariant holds before the first process.
LEMMA StoreInvInit == StoreInit => StoreInv
<1> SUFFICES ASSUME StoreInit PROVE StoreInv
  OBVIOUS
<1>1. StoreTypeOK
  <2>1. disk \in [Part -> Nat \cup {Absent}] /\ context \in [Part -> Nat \cup {Absent}]
    BY DEF StoreInit, NoContext, Absent, Empty
  <2>2. next_part \in Part /\ generation \in Nat /\ crashes \in Nat
    BY DEF StoreInit, Part
  <2> QED BY <2>1, <2>2 DEF StoreInit, StoreTypeOK
<1>2. disk[Fingerprint] <= 0
  BY DEF StoreInit, Part, Fingerprint, Absent
<1>3. SavingInOrder /\ FingerprintCommits /\ IdentityIsOne
  BY <1>1, <1>2 DEF StoreInit, StoreTypeOK, SavingInOrder, FingerprintCommits,
     IdentityIsOne, Part, Fingerprint, Absent
<1> QED BY <1>1, <1>3 DEF StoreInv

\* What is read is on disk, or nothing.
LEMMA FilesReadTyped ==
  ASSUME StoreTypeOK, NEW unread \in SUBSET Part
  PROVE  /\ FilesRead(unread) \in [Part -> Nat \cup {Absent}]
         /\ \A p \in Part : FilesRead(unread)[p] \in {disk[p], Empty}
BY DEF StoreTypeOK, FilesRead, Empty

\* A step of the process keeps the types.
LEMMA StoreTypeNext == StoreTypeOK /\ StoreNext => StoreTypeOK'
<1> SUFFICES ASSUME StoreTypeOK, StoreNext PROVE StoreTypeOK'
  OBVIOUS
<1> USE DEF StoreTypeOK, Part, Fingerprint, Absent, Empty
<1>1. CASE Boot
  BY <1>1 DEF Boot
<1>8. CASE LoadSecurityContext
  <2>1. context' \in [Part -> Nat \cup {Absent}]
    BY <1>8, FilesReadTyped DEF LoadSecurityContext
  <2>2. phase' \in {"load_trusted", "generate"}
    BY <1>8 DEF LoadSecurityContext
  <2>3. identity_fault' \in BOOLEAN
    BY <1>8, Zenon DEF LoadSecurityContext
  <2> QED BY <1>8, <2>1, <2>2, <2>3 DEF LoadSecurityContext
<1>2. CASE GenerateCertificate
  <2>1. generation' \in Nat /\ context' \in [Part -> Nat \cup {Absent}]
    BY <1>2 DEF GenerateCertificate
  <2>2. next_part' \in Part /\ phase' \in {"save", "load_trusted"}
    BY <1>2 DEF GenerateCertificate
  <2> QED BY <1>2, <2>1, <2>2 DEF GenerateCertificate
<1>7. CASE OpenPart
  <2>1. disk' \in [Part -> Nat \cup {Absent}]
    BY <1>7 DEF OpenPart
  <2>2. next_part' \in Part /\ phase' \in {"save", "load_trusted"}
    BY <1>7 DEF OpenPart, NextPart
  <2> QED BY <1>7, <2>1, <2>2 DEF OpenPart
<1>3. CASE ClosePart
  <2>1. disk' \in [Part -> Nat \cup {Absent}]
    <3>1. CASE disk' = [disk EXCEPT ![next_part] = context[next_part]]
      BY <3>1
    <3>2. CASE UNCHANGED disk
      BY <3>2
    <3> QED BY <1>3, <3>1, <3>2 DEF ClosePart
  <2>2. next_part' \in Part /\ phase' \in {"save", "load_trusted"}
    BY <1>3 DEF ClosePart, NextPart
  <2> QED BY <1>3, <2>1, <2>2 DEF ClosePart
<1>4. CASE LoadTrustedFingerprints \/ CloseTrusted
  BY <1>4 DEF LoadTrustedFingerprints, CloseTrusted
<1>5. CASE \E f \in Peer : VerifyCertificate(f)
  BY <1>5 DEF VerifyCertificate, svars
<1>6. CASE Crash
  <2>1. trust_fault' \in BOOLEAN
    BY <1>6, ZenonT(20) DEF Crash
  <2>2. context' \in [Part -> Nat \cup {Absent}]
    BY <1>6 DEF Crash, NoContext
  <2>3. /\ phase' = "off" /\ opened' = FALSE /\ next_part' = 1
        /\ crashes' = crashes + 1
        /\ disk' = disk /\ generation' = generation /\ identity_fault' = identity_fault
    BY <1>6, Zenon DEF Crash
  <2>4. next_part' \in Part /\ crashes' \in Nat
    BY <2>3
  <2> QED BY <2>1, <2>2, <2>3, <2>4, Zenon
<1> QED BY <1>1, <1>2, <1>3, <1>4, <1>5, <1>6, <1>7, <1>8 DEF StoreNext

\* Every step keeps the invariant.
LEMMA StoreInvNext == StoreInv /\ [StoreNext]_svars => StoreInv'
<1> SUFFICES ASSUME StoreInv, [StoreNext]_svars PROVE StoreInv'
  OBVIOUS
<1> USE DEF StoreInv
<1>1. CASE UNCHANGED svars
  BY <1>1 DEF svars, StoreTypeOK, SavingInOrder, FingerprintCommits, IdentityIsOne
<1>2. ASSUME StoreNext PROVE StoreTypeOK'
  BY <1>2, StoreTypeNext
<1>3. ASSUME StoreNext
      PROVE  SavingInOrder' /\ FingerprintCommits' /\ IdentityIsOne'
  <2> USE DEF SavingInOrder, FingerprintCommits, IdentityIsOne, StoreTypeOK, Part,
              Fingerprint, Absent, Empty
  <2>1. CASE Boot
    BY <2>1 DEF Boot
  <2>2. CASE LoadSecurityContext
    \* A complete fingerprint vouches for the other files.
    <3> SUFFICES ASSUME ~identity_fault'
                 PROVE  SavingInOrder' /\ FingerprintCommits' /\ IdentityIsOne'
      OBVIOUS
    <3>1. /\ ~identity_fault /\ disk' = disk /\ generation' = generation
          /\ IF \A p \in Part : disk[p] # Absent
             THEN context' = FilesRead({}) ELSE UNCHANGED context
          /\ phase' = IF IsIdentity(FilesRead({})) THEN "load_trusted" ELSE "generate"
      BY <2>2, Zenon DEF LoadSecurityContext
    <3>2. FilesRead({}) = disk
      BY DEF FilesRead
    <3>3. CASE IsIdentity(disk)
      BY <3>1, <3>2, <3>3 DEF IsIdentity
    <3>4. CASE ~IsIdentity(disk)
      <4>1. disk[Fingerprint] <= 0
        BY <3>1, <3>4 DEF IsIdentity
      <4> QED BY <3>1, <3>2, <3>4, <4>1
    <3> QED BY <3>3, <3>4
  <2>3. CASE GenerateCertificate
    BY <2>3 DEF GenerateCertificate
  <2>4. CASE OpenPart
    BY <2>4 DEF OpenPart, NextPart
  <2>5. CASE ClosePart
    <3>1. CASE identity_fault'
      BY <3>1
    <3>2. CASE ~identity_fault'
      <4>1. disk' = [disk EXCEPT ![next_part] = context[next_part]] /\ ~identity_fault
        BY <2>5, <3>2 DEF ClosePart
      <4>2. context' = context /\ generation' = generation /\ generation > 0
        BY <2>5, <4>1 DEF ClosePart
      <4>3. \A p \in Part : p <= next_part => disk'[p] = generation
        BY <2>5, <4>1 DEF ClosePart
      <4>4. CASE next_part = Fingerprint
        <5>1. \A p \in Part : disk'[p] = generation /\ context[p] = generation
          BY <2>5, <4>1, <4>3, <4>4 DEF ClosePart
        <5>2. context' = disk'
          BY <4>1, <4>2, <5>1
        <5> QED BY <2>5, <4>2, <4>4, <5>1, <5>2 DEF ClosePart, NextPart
      <4>5. CASE next_part # Fingerprint
        <5>1. phase' = "save" /\ next_part' = next_part + 1
          BY <2>5, <4>5 DEF ClosePart, NextPart
        <5>2. disk'[Fingerprint] <= 0
          BY <2>5, <4>1, <4>5 DEF ClosePart
        <5> QED BY <2>5, <4>1, <4>2, <4>3, <5>1, <5>2 DEF ClosePart
      <4> QED BY <4>4, <4>5
    <3> QED BY <3>1, <3>2
  <2>6. CASE LoadTrustedFingerprints \/ CloseTrusted
    BY <2>6 DEF LoadTrustedFingerprints, CloseTrusted
  <2>7. CASE \E f \in Peer : VerifyCertificate(f)
    BY <2>7 DEF VerifyCertificate, svars
  <2>8. CASE Crash
    BY <2>8 DEF Crash
  <2> QED BY <1>3, <2>1, <2>2, <2>3, <2>4, <2>5, <2>6, <2>7, <2>8 DEF StoreNext
<1> QED BY <1>1, <1>2, <1>3

\* Every reachable state satisfies the invariant, for any number of peers and of
\* crashes (the order of the writes in saveSecurityContext).
THEOREM StoreInvariance == StoreSpec => []StoreInv
<1> QED BY StoreInvInit, StoreInvNext, PTL DEF StoreSpec

\* The process always works with the files of one generation, for any number of
\* crashes at any points, as long as no write of an identity file failed.
THEOREM OneIdentity == StoreSpec => []IdentityIsOne
<1>1. StoreInv => IdentityIsOne
  BY DEF StoreInv
<1> QED BY <1>1, StoreInvariance, PTL

\* A committed identity is never written again and never replaced.
LEMMA CommittedStays ==
  ASSUME StoreInv, [StoreNext]_svars, ~identity_fault', disk[Fingerprint] > 0
  PROVE  disk' = disk /\ generation' = generation
<1> USE DEF StoreInv, SavingInOrder, FingerprintCommits, StoreTypeOK, Part,
            Fingerprint, Absent, Empty
<1>1. CASE UNCHANGED svars
  BY <1>1 DEF svars
<1>2. CASE ClosePart
  BY <1>2 DEF ClosePart
<1>3. CASE LoadSecurityContext \/ Boot \/ GenerateCertificate \/ OpenPart
  BY <1>3 DEF LoadSecurityContext, Boot, GenerateCertificate, OpenPart
<1>4. CASE LoadTrustedFingerprints \/ CloseTrusted \/ Crash
  BY <1>4 DEF LoadTrustedFingerprints, CloseTrusted, Crash
<1>5. CASE \E f \in Peer : VerifyCertificate(f)
  BY <1>5 DEF VerifyCertificate, svars
<1> QED BY <1>1, <1>2, <1>3, <1>4, <1>5 DEF StoreNext

\* A device keeps the identity it once came up with, whatever restarts it.
THEOREM StableIdentity == StoreSpec => IdentityIsStable
<1>1. StoreInv /\ [StoreNext]_svars
      => [~identity_fault' /\ disk[Fingerprint] > 0
          => disk' = disk /\ generation' = generation]_svars
  BY CommittedStays
<1> QED BY <1>1, StoreInvariance, PTL DEF StoreSpec, IdentityIsStable

-----------------------------------------------------------------------------
\* What TrustSurvives rests on: the trusted file is only torn while it is being
\* rewritten, and no set of fingerprints looks like a torn file.
TrustInv ==
  /\ TrustSurvives
  /\ ~trust_fault /\ phase # "save_trusted" => trusted_file # Torn
  /\ Absent \notin trusted
  /\ trusted_file # Torn => Absent \notin trusted_file

\* A step keeps it: a rewrite writes all that was loaded, and what was loaded
\* is all that was written before.
LEMMA TrustInvNext == StoreTypeOK /\ TrustInv /\ [StoreNext]_svars => TrustInv'
<1> SUFFICES ASSUME StoreTypeOK, TrustInv, [StoreNext]_svars PROVE TrustInv'
  OBVIOUS
<1> USE DEF TrustInv, TrustSurvives, Torn
<1>1. CASE UNCHANGED svars
  BY <1>1 DEF svars
<1>2. CASE Boot \/ OpenPart \/ ClosePart
  BY <1>2 DEF Boot, OpenPart, ClosePart, NextPart
<1>3. CASE LoadSecurityContext
  <2>1. Absent \notin trusted'
    <3>1. \/ UNCHANGED trusted
          \/ \E unread \in SUBSET Part :
               /\ \A p \in Part : disk[p] # Absent
               /\ trusted' = trusted \cup {FilesRead(unread)[Fingerprint]}
      BY <1>3, Zenon DEF LoadSecurityContext
    <3>2. Fingerprint \in Part
      BY DEF Part, Fingerprint
    <3>3. \A unread \in SUBSET Part : FilesRead(unread)[Fingerprint] \in {disk[Fingerprint], Empty}
      BY <3>2, FilesReadTyped
    <3> QED BY <3>1, <3>2, <3>3 DEF Absent, Empty
  <2> QED BY <1>3, <2>1 DEF LoadSecurityContext
<1>4. CASE GenerateCertificate
  <2>1. Absent \notin trusted'
    BY <1>4 DEF GenerateCertificate, StoreTypeOK, Absent
  <2> QED BY <1>4, <2>1 DEF GenerateCertificate
<1>5. CASE LoadTrustedFingerprints
  BY <1>5 DEF LoadTrustedFingerprints
<1>6. CASE \E f \in Peer : VerifyCertificate(f)
  <2>1. Absent \notin trusted'
    BY <1>6, StoreOK DEF VerifyCertificate, svars, Absent
  <2> QED BY <1>6, <2>1 DEF VerifyCertificate, svars
<1>7. CASE CloseTrusted
  BY <1>7 DEF CloseTrusted
<1>8. CASE Crash
  BY <1>8 DEF Crash
<1> QED BY <1>1, <1>2, <1>3, <1>4, <1>5, <1>6, <1>7, <1>8 DEF StoreNext

\* A fingerprint that was saved as trusted is in every later file and, once it is
\* loaded, in memory, unless a rewrite was cut short, for any number of peers
\* and of crashes.
THEOREM TrustIsKept == StoreSpec => []TrustSurvives
<1>1. StoreInit => TrustInv
  BY DEF StoreInit, TrustInv, TrustSurvives, Torn
<1>2. TrustInv => TrustSurvives
  BY DEF TrustInv
<1>3. StoreInv => StoreTypeOK
  BY DEF StoreInv
<1> QED BY <1>1, <1>2, <1>3, StoreInvariance, TrustInvNext, PTL DEF StoreSpec
===============================================================================
