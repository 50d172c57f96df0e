------------------------------- MODULE Files --------------------------------
(***************************************************************************)
(* What the file system promises: named files of a fixed length, changed   *)
(* by one operation at a time, which touches the file it names and no      *)
(* other.                                                                  *)
(***************************************************************************)
EXTENDS Naturals, Sequences

CONSTANTS Names, Absent, Contents

VARIABLES files,   \* the blocks of each file
          doing    \* the operation in progress: its kind and its file

Nothing == <<"none", Absent>>

Init == files = [name \in Names |-> Absent] /\ doing = Nothing

BeginOrEnd ==
  /\ doing = Nothing \/ doing' = Nothing
  /\ UNCHANGED files

\* A new file holds whatever its sectors held before.
Create(name) ==
  /\ doing = <<"create", name>>
  /\ files[name] = Absent
  /\ files'[name] # Absent
  /\ files' = [files EXCEPT ![name] = files'[name]]
  /\ UNCHANGED doing

Remove(name) ==
  /\ doing = <<"remove", name>>
  /\ files[name] # Absent
  /\ files' = [files EXCEPT ![name] = Absent]
  /\ UNCHANGED doing

Put(name) ==
  /\ doing = <<"write", name>>
  /\ files[name] # Absent
  /\ \E i \in DOMAIN files[name], block \in Contents :
       files' = [files EXCEPT ![name][i] = block]
  /\ UNCHANGED doing

Next == BeginOrEnd \/ \E name \in Names : Create(name) \/ Remove(name) \/ Put(name)

Spec == Init /\ [][Next]_<<files, doing>>
=============================================================================
