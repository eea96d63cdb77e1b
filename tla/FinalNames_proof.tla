--------------------------- MODULE FinalNames_proof ---------------------------
(***************************************************************************)
(* Machine-checked proofs that receiving never replaces what is in the     *)
(* save directory, and that every saved file has a name of its own there,  *)
(* for any directory, any names and any width of an int.                   *)
(***************************************************************************)
EXTENDS FinalNames, FiniteSetTheorems, WellFoundedInduction, TLAPS

\* A set of naturals that is not empty has a minimum, which is in it.
LEMMA MinIsMember ==
  ASSUME NEW S \in SUBSET Nat, S # {}
  PROVE  Min(S) \in S
<1>1. PICK least \in S : \A n \in S : <<n, least>> \notin OpToRel(<, Nat)
  BY WFMin, NatLessThanWellFounded
<1>2. \A n \in S : least <= n
  <2> SUFFICES ASSUME NEW n \in S, n < least PROVE FALSE
    OBVIOUS
  <2>1. <<n, least>> \in OpToRel(<, Nat)
    BY DEF OpToRel
  <2> QED BY <1>1, <2>1
<1> QED BY <1>2 DEF Min

\* The name that onVerifyIntegrity renames a file to is free.
LEMMA FinalNameIsFree ==
  ASSUME NEW name, IsFiniteSet(DOMAIN save_dir),
         name \in DOMAIN save_dir => Rounds(name) # {}
  PROVE  FinalName(name) \notin DOMAIN save_dir
<1>1. CASE name \notin DOMAIN save_dir
  BY <1>1 DEF FinalName
<1>2. CASE name \in DOMAIN save_dir
  <2>1. Rounds(name) \in SUBSET Nat
    BY FS_CardinalityType DEF Rounds
  <2>2. Min(Rounds(name)) \in Rounds(name)
    BY <1>2, <2>1, MinIsMember
  <2> QED BY <1>2, <2>2 DEF FinalName, Rounds
<1> QED BY <1>1, <1>2
\* The directory only ever holds finitely many names.
Finite == IsFiniteSet(DOMAIN save_dir)

\* What one step does to the directory: nothing, or one name more.
LEMMA StepAddsName ==
  ASSUME Finite, Directory
  PROVE  /\ Finite'
         /\ \A name \in DOMAIN save_dir :
              name \in DOMAIN save_dir' /\ save_dir'[name] = save_dir[name]
<1>1. CASE UNCHANGED save_dir
  BY <1>1 DEF Finite
<1>2. ASSUME NEW f, Rename(f)
      PROVE  /\ Finite'
             /\ \A name \in DOMAIN save_dir :
                  name \in DOMAIN save_dir' /\ save_dir'[name] = save_dir[name]
  <2> DEFINE final == FinalName(file_name[f])
  <2>1. final \notin DOMAIN save_dir
    BY <1>2, FinalNameIsFree DEF Rename, Finite
  <2>2. save_dir' = [name \in DOMAIN save_dir \cup {final} |->
                      IF name = final THEN f ELSE save_dir[name]]
    BY <1>2 DEF Rename
  <2> HIDE DEF final
  <2>3. Finite'
    BY <2>2, FS_AddElement DEF Finite
  <2> QED BY <2>1, <2>2, <2>3
<1> QED BY <1>1, <1>2 DEF Directory

LEMMA FiniteInvariance == NSpec => []Finite
<1>1. NInit => Finite
  BY NamesOK DEF NInit, Finite
<1>2. Finite /\ [NNext]_nvars => Finite'
  <2> SUFFICES ASSUME Finite, [NNext]_nvars PROVE Finite'
    OBVIOUS
  <2>1. CASE NNext
    BY <2>1, StepAddsName DEF NNext
  <2>2. CASE UNCHANGED nvars
    BY <2>2 DEF nvars, Finite
  <2> QED BY <2>1, <2>2
<1> QED BY <1>1, <1>2, PTL DEF NSpec

\* Receiving never replaces what is in the save directory: onVerifyIntegrity
\* renames to a name that is free, whatever directory it finds, whatever files
\* are called and wherever the counter of the names wraps.
THEOREM NoOverwrite == NSpec => NothingIsOverwritten
<1>1. Finite /\ [NNext]_nvars =>
        [\A name \in DOMAIN save_dir :
           name \in DOMAIN save_dir' /\ save_dir'[name] = save_dir[name]]_nvars
  BY StepAddsName DEF NNext
<1> QED BY <1>1, FiniteInvariance, PTL DEF NSpec, NothingIsOverwritten

-----------------------------------------------------------------------------
\* Every saved file keeps a name of its own.

NamesInv ==
  /\ saved \subseteq File
  /\ \A name \in DOMAIN save_dir : save_dir[name] \in saved \cup {Other}
  /\ \A f \in saved : \E name \in DOMAIN save_dir :
       /\ save_dir[name] = f /\ name.base = file_name[f].base
       /\ \A other \in DOMAIN save_dir : save_dir[other] = f => other = name

\* A step of the controller saves one file at most.
SavesOne == saved' = saved \/ \E f \in File : saved' = saved \cup {f}

LEMMA StepSavesOne ==
  ASSUME [Next]_vars
  PROVE  SavesOne
<1>1. CASE UNCHANGED saved
  BY <1>1 DEF SavesOne
<1>2. ASSUME NEW f \in File, SaveFile(f) PROVE SavesOne
  BY <1>2 DEF SaveFile, SavesOne
<1>3. ASSUME NEW s \in Sender
      PROVE  /\ \A files, body, resp : onRequestSend(s, files, body, resp) => UNCHANGED saved
             /\ \A resp : WaitPoll(s, resp) => UNCHANGED saved
             /\ WaitPollNoList(s) => UNCHANGED saved
             /\ NotifySenderLost(s) => UNCHANGED saved
  <2>1. \A files, body, resp : onRequestSend(s, files, body, resp) => UNCHANGED saved
    BY DEF onRequestSend, disk
  <2>2. \A resp : WaitPoll(s, resp) => UNCHANGED saved
    BY DEF WaitPoll, disk
  <2>3. WaitPollNoList(s) => UNCHANGED saved
    BY DEF WaitPollNoList, disk
  <2>4. NotifySenderLost(s) => UNCHANGED saved
    BY DEF NotifySenderLost, disk
  <2> QED BY <2>1, <2>2, <2>3, <2>4
<1>4. ASSUME NEW resp, RefuseIdle(resp) \/ ReceiverCancels(resp)
      PROVE  UNCHANGED saved
  BY <1>4 DEF RefuseIdle, ReceiverCancels, vars, disk
<1>5. ASSUME NEW sid, NEW token, NEW f \in File, NEW i, NEW body, NEW resp,
             onSendChunk(sid, token, f, i, body, resp)
      PROVE  UNCHANGED saved
  <2>1. CASE RefuseIdle(resp) \/ ReceiverCancels(resp)
    BY <1>4, <2>1
  <2>2. CASE ~(RefuseIdle(resp) \/ ReceiverCancels(resp))
    BY <1>5, <2>2 DEF onSendChunk, FailSession, StoreChunk, disk
  <2> QED BY <2>1, <2>2
<1>6. ASSUME NEW sid, NEW token, NEW f \in File, NEW body, NEW resp,
             onVerifyIntegrity(sid, token, f, body, resp)
      PROVE  SavesOne
  <2>1. CASE RefuseIdle(resp) \/ ReceiverCancels(resp)
    BY <1>1, <1>4, <2>1
  <2>2. CASE SaveFile(f)
    BY <1>2, <2>2
  <2>3. CASE ~(RefuseIdle(resp) \/ ReceiverCancels(resp)) /\ ~SaveFile(f)
    <3>1. UNCHANGED saved
      BY <1>6, <2>3 DEF onVerifyIntegrity, FailSession, disk
    <3> QED BY <1>1, <3>1
  <2> QED BY <2>1, <2>2, <2>3
<1>7. ASSUME NEW sid, NEW body, NEW resp, onCancelSend(sid, body, resp)
      PROVE  UNCHANGED saved
  BY <1>7 DEF onCancelSend, disk
<1>8. /\ \A answer : ConfirmReceive(answer) => UNCHANGED saved
      /\ CancelReceive => UNCHANGED saved
      /\ UNCHANGED vars => UNCHANGED saved
  BY DEF ConfirmReceive, CancelReceive, vars, disk
<1>9. CASE Next
  BY <1>1, <1>3, <1>5, <1>6, <1>7, <1>8, <1>9 DEF Next
<1> QED BY <1>1, <1>8, <1>9

\* The base of a name stays the same when it is numbered.
LEMMA FinalNameHasBase ==
  ASSUME NEW name \in Name
  PROVE  FinalName(name).base = name.base
BY DEF FinalName, Try, Name

\* A file that is renamed gets the one name that leads to it.
LEMMA RenameKeepsNames ==
  ASSUME Finite, NamesInv, NEW f \in File \ saved, saved' = saved \cup {f}, Rename(f)
  PROVE  NamesInv'
<1> DEFINE final == FinalName(file_name[f])
<1>1. final \notin DOMAIN save_dir
  BY FinalNameIsFree DEF Rename, Finite
<1>2. final.base = file_name[f].base
  BY NamesOK, FinalNameHasBase
<1>3. save_dir' = [name \in DOMAIN save_dir \cup {final} |->
                    IF name = final THEN f ELSE save_dir[name]]
  BY DEF Rename
<1> HIDE DEF final
<1>4. \A name \in DOMAIN save_dir : save_dir[name] # f
  BY NamesOK DEF NamesInv
<1>5. /\ DOMAIN save_dir' = DOMAIN save_dir \cup {final} /\ save_dir'[final] = f
      /\ \A name \in DOMAIN save_dir : save_dir'[name] = save_dir[name]
  BY <1>1, <1>3
<1>6. saved' \subseteq File
      /\ \A name \in DOMAIN save_dir' : save_dir'[name] \in saved' \cup {Other}
  BY <1>5 DEF NamesInv
<1>7. ASSUME NEW g \in saved'
      PROVE  \E name \in DOMAIN save_dir' :
               /\ save_dir'[name] = g /\ name.base = file_name[g].base
               /\ \A other \in DOMAIN save_dir' : save_dir'[other] = g => other = name
  <2>1. CASE g = f
    BY <1>2, <1>4, <1>5, <2>1
  <2>2. CASE g # f
    <3>1. PICK name \in DOMAIN save_dir :
            /\ save_dir[name] = g /\ name.base = file_name[g].base
            /\ \A other \in DOMAIN save_dir : save_dir[other] = g => other = name
      BY <1>7, <2>2 DEF NamesInv
    <3> QED BY <1>5, <2>2, <3>1
  <2> QED BY <2>1, <2>2
<1> QED BY <1>6, <1>7 DEF NamesInv

LEMMA NamesStep == Finite /\ NamesInv /\ [NNext]_nvars => NamesInv'
<1> SUFFICES ASSUME Finite, NamesInv, [NNext]_nvars PROVE NamesInv'
  OBVIOUS
<1>1. CASE UNCHANGED <<saved, save_dir>>
  BY <1>1 DEF NamesInv
<1>2. CASE NNext /\ saved' # saved
  <2>1. PICK f \in saved' \ saved : Rename(f)
    BY <1>2 DEF NNext, Directory
  <2>2. SavesOne
    BY <1>2, StepSavesOne DEF NNext
  <2>3. f \in File \ saved /\ saved' = saved \cup {f}
    BY <1>2, <2>1, <2>2 DEF SavesOne
  <2> QED BY <2>1, <2>3, RenameKeepsNames
<1>3. CASE NNext /\ saved' = saved
  BY <1>1, <1>3 DEF NNext, Directory
<1>4. CASE UNCHANGED nvars
  BY <1>1, <1>4 DEF nvars, vars, disk
<1> QED BY <1>2, <1>3, <1>4

\* Every saved file has exactly one name in the save directory, with the base it
\* was offered with, whatever else is received and however often a name is taken.
THEOREM OwnNames == NSpec => []SavedHasItsName
<1>1. NInit => NamesInv
  BY DEF NInit, Init, NamesInv
<1>2. NamesInv => SavedHasItsName
  <2> SUFFICES ASSUME NamesInv, NEW f \in saved
               PROVE /\ Cardinality({name \in DOMAIN save_dir : save_dir[name] = f}) = 1
                     /\ \E name \in DOMAIN save_dir :
                          save_dir[name] = f /\ name.base = file_name[f].base
    BY DEF SavedHasItsName
  <2>1. PICK name \in DOMAIN save_dir :
          /\ save_dir[name] = f /\ name.base = file_name[f].base
          /\ \A other \in DOMAIN save_dir : save_dir[other] = f => other = name
    BY DEF NamesInv
  <2>2. {n \in DOMAIN save_dir : save_dir[n] = f} = {name}
    BY <2>1
  <2> QED BY <2>1, <2>2, FS_Singleton
<1> QED BY <1>1, <1>2, FiniteInvariance, NamesStep, PTL DEF NSpec
===============================================================================
