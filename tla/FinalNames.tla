------------------------------ MODULE FinalNames ------------------------------
(***************************************************************************)
(* The save directory of the receiver, which onVerifyIntegrity of          *)
(* receive_controller.cc renames a verified file into.  A name that is     *)
(* taken there is numbered: "a (1)", "a (2)" and so on, or from the number *)
(* on that the name already ends with.                                     *)
(*                                                                         *)
(* The module composes the directory with ReceiveController: a step of the *)
(* controller that saves a file puts it there under its final name.  A     *)
(* directory that has no name for a file (its number does not fit an int)  *)
(* makes onVerifyIntegrity throw, which is the body "rename_fails" of the  *)
(* controller.                                                             *)
(***************************************************************************)
EXTENDS ReceiveController, SequencesExt

CONSTANTS
  file_name,   \* the name each file is offered with
  Directories, \* the sets of names the directory may hold at first
  MaxInt       \* the largest int

\* A name is a base (stem and extension) and the numbers in parentheses that
\* follow its stem: "a (1) (2).txt" is <<1, 2>> after the base "a.txt".
Name == [base : STRING, numbers : Seq(Int)]

Other == "other"   \* what was in the directory before

ASSUME NamesOK ==
  /\ Other \notin File
  /\ file_name \in [File -> Name]
  /\ \A D \in Directories : IsFiniteSet(D) /\ D \subseteq Name
  /\ MaxInt \in Nat

VARIABLE save_dir   \* from the names in the directory to what they name

nvars == <<vars, save_dir>>

NInit == Init /\ \E D \in Directories : save_dir = [name \in D |-> Other]

-----------------------------------------------------------------------------
\* The pattern "(.*) \((\d+)\)$": a number that is negative does not match it.
Numbered(name) == name.numbers # <<>> /\ Last(name.numbers) >= 0

\* stoi of the number throws, when the name is taken.
stoiThrows(name) ==
  name \in DOMAIN save_dir /\ Numbered(name) /\ Last(name.numbers) > MaxInt

\* An int that is counted past its largest value.
Wrapped(n) == IF n > MaxInt THEN n - 2 * (MaxInt + 1) ELSE n

\* Mutant: the extension is not put back.
Try_LosesExtension(name, k) ==
  [base |-> "", numbers |-> Append(name.numbers, Wrapped(1 + k))]

\* The name that is tried k rounds after the first: the counter goes up from 1, or
\* from the number of the name plus one.
Try(name, k) ==
  LET stem    == IF Numbered(name) THEN Front(name.numbers) ELSE name.numbers
      counter == IF Numbered(name) THEN Last(name.numbers) + 1 ELSE 1
  IN [name EXCEPT !.numbers = Append(stem, Wrapped(counter + k))]

\* The rounds that would find a free name; one more than there are names is
\* enough to find one.
Rounds(name) ==
  {k \in 0 .. Cardinality(DOMAIN save_dir) : Try(name, k) \notin DOMAIN save_dir}

\* Mutant: the numbered name is not looked up again.
FinalName_FirstNumber(name) ==
  IF name \notin DOMAIN save_dir THEN name ELSE Try(name, 0)

\* Mutant: whatever is there is replaced.
FinalName_Unchecked(name) == name

\* The name a file is saved under: its own, or the first one that is free.
FinalName(name) ==
  IF name \notin DOMAIN save_dir THEN name ELSE Try(name, Min(Rounds(name)))

\* The renaming of onVerifyIntegrity.
Rename(f) ==
  /\ ~stoiThrows(file_name[f])
  /\ file_name[f] \in DOMAIN save_dir => Rounds(file_name[f]) # {}
  /\ save_dir' = [name \in DOMAIN save_dir \cup {FinalName(file_name[f])} |->
                    IF name = FinalName(file_name[f]) THEN f ELSE save_dir[name]]

Directory ==
  IF saved' = saved THEN UNCHANGED save_dir ELSE \E f \in saved' \ saved : Rename(f)

NNext == Next /\ Directory

NSpec == NInit /\ [][NNext]_nvars

\* As FairSpec: a wait that can end is polled for.
NFairSpec ==
  NSpec /\ \A s \in Sender :
             WF_nvars((\E resp \in Responses : WaitPoll(s, resp)) /\ UNCHANGED save_dir)

-----------------------------------------------------------------------------
\* Properties.

\* What is in the directory stays there under its name, whatever is received
\* after it: the name a file is renamed to is free (fs::rename would replace
\* what is there).
NothingIsOverwritten ==
  [][\A name \in DOMAIN save_dir :
       name \in DOMAIN save_dir' /\ save_dir'[name] = save_dir[name]]_nvars

\* Every saved file has a name of its own in the directory, made of the base of
\* the name it was offered with, and keeps it through all later sessions.
SavedHasItsName ==
  \A f \in saved :
    /\ Cardinality({name \in DOMAIN save_dir : save_dir[name] = f}) = 1
    /\ \E name \in DOMAIN save_dir :
         save_dir[name] = f /\ name.base = file_name[f].base
===============================================================================
