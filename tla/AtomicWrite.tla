------------------------------ MODULE AtomicWrite ------------------------------
(***************************************************************************)
(* atomic_write of src/src/bin/darash.rs, which --output uses: a temporary *)
(* file of a random name next to the output is created, filled, synced and *)
(* renamed onto it. Several commands may write the same output; any of     *)
(* them may be killed at any point, and every call may fail but            *)
(* remove_file, whose result the code ignores.                             *)
(***************************************************************************)
EXTENDS Naturals

CONSTANTS
  Writers,      \* commands that write the same output
  Output,       \* the output's name
  TempNames,    \* the names the random part can give
  Before,       \* who wrote what the output held before
  Blocks,       \* write_all's data, counted in writes
  Tries         \* names tried before it gives up (10 in the code)

ASSUME WriteAssumption ==
  /\ Output \notin TempNames
  /\ Before \notin Writers
  /\ Blocks \in Nat
  /\ Tries \in Nat \ {0}

VARIABLES
  files,        \* name -> {} or {[by, size]}, the file it names
  pc,           \* writer -> "idle", "naming", "writing", "synced", "done",
                \*           "failed" or "killed"
  tries,        \* writer -> how many names it has tried
  tmp           \* writer -> {} or {the name of its temporary file}

fileVars == <<files, pc, tries, tmp>>

File(w, n) == [by |-> w, size |-> n]

WriteInit ==
  /\ files \in {[n \in TempNames \cup {Output} |->
                   IF n = Output THEN old ELSE {}] : old \in {{}, {File(Before, Blocks)}}}
  /\ pc = [w \in Writers |-> "idle"]
  /\ tries = [w \in Writers |-> 0]
  /\ tmp = [w \in Writers |-> {}]

Become(w, stage) == pc' = [pc EXCEPT ![w] = stage]

Start(w) ==
  /\ pc[w] = "idle"
  /\ Become(w, "naming")
  /\ UNCHANGED <<files, tries, tmp>>

(* A path without a file name is refused before anything is created. *)
NoFileName(w) ==
  /\ pc[w] = "idle"
  /\ Become(w, "failed")
  /\ UNCHANGED <<files, tries, tmp>>

(* What Create must not do: open a file that exists. *)
CreateOver(w, n) ==
  /\ pc[w] = "naming"
  /\ tries[w] < Tries
  /\ files' = [files EXCEPT ![n] = {File(w, 0)}]
  /\ tmp' = [tmp EXCEPT ![w] = {n}]
  /\ Become(w, "writing")
  /\ UNCHANGED tries

(* create_new: the open succeeds only if the name is free. *)
Create(w, n) ==
  /\ pc[w] = "naming"
  /\ tries[w] < Tries
  /\ files[n] = {}
  /\ files' = [files EXCEPT ![n] = {File(w, 0)}]
  /\ tmp' = [tmp EXCEPT ![w] = {n}]
  /\ Become(w, "writing")
  /\ UNCHANGED tries

Collide(w, n) ==
  /\ pc[w] = "naming"
  /\ tries[w] < Tries
  /\ files[n] # {}
  /\ tries' = [tries EXCEPT ![w] = @ + 1]
  /\ UNCHANGED <<files, pc, tmp>>

(* Another error of open, or no free name after all the tries. *)
CreateFails(w) ==
  /\ pc[w] = "naming"
  /\ Become(w, "failed")
  /\ UNCHANGED <<files, tries, tmp>>

Grown(f) == [f EXCEPT !.size = @ + 1]

(* write_all goes on until everything is written, sync_all follows. *)
WriteBlock(w, n) ==
  /\ pc[w] = "writing"
  /\ n \in tmp[w]
  /\ \E f \in files[n] :
       /\ f.size < Blocks
       /\ files' = [files EXCEPT ![n] = {Grown(f)}]
  /\ UNCHANGED <<pc, tries, tmp>>

Sync(w, n) ==
  /\ pc[w] = "writing"
  /\ n \in tmp[w]
  /\ \E f \in files[n] : f.size = Blocks
  /\ Become(w, "synced")
  /\ UNCHANGED <<files, tries, tmp>>

Drop(w, n) ==
  /\ files' = [files EXCEPT ![n] = {}]
  /\ tmp' = [tmp EXCEPT ![w] = {}]
  /\ Become(w, "failed")
  /\ UNCHANGED tries

WriteFails(w, n) ==
  /\ pc[w] = "writing"
  /\ n \in tmp[w]
  /\ Drop(w, n)

Rename(w, n) ==
  /\ pc[w] = "synced"
  /\ n \in tmp[w]
  /\ files' = [files EXCEPT ![Output] = files[n], ![n] = {}]
  /\ tmp' = [tmp EXCEPT ![w] = {}]
  /\ Become(w, "done")
  /\ UNCHANGED tries

(* What RenameFails must not do: return without removing the file. *)
RenameFailsOnly(w, n) ==
  /\ pc[w] = "synced"
  /\ n \in tmp[w]
  /\ Become(w, "failed")
  /\ UNCHANGED <<files, tries, tmp>>

RenameFails(w, n) ==
  /\ pc[w] = "synced"
  /\ n \in tmp[w]
  /\ Drop(w, n)

Kill(w) ==
  /\ pc[w] \in {"naming", "writing", "synced"}
  /\ Become(w, "killed")
  /\ UNCHANGED <<files, tries, tmp>>

WriteStep(w) ==
  \/ Start(w) \/ NoFileName(w) \/ CreateFails(w) \/ Kill(w)
  \/ \E n \in TempNames :
       \/ Create(w, n) \/ Collide(w, n)
       \/ WriteBlock(w, n) \/ Sync(w, n) \/ WriteFails(w, n)
       \/ Rename(w, n) \/ RenameFails(w, n)

WriteNext == \E w \in Writers : WriteStep(w)

WriteSpec == WriteInit /\ [][WriteNext]_fileVars

-----------------------------------------------------------------------------
WriteTypeOK ==
  /\ files \in [TempNames \cup {Output} ->
                  SUBSET [by : Writers \cup {Before}, size : 0 .. Blocks]]
  /\ pc \in [Writers -> {"idle", "naming", "writing", "synced", "done", "failed",
                         "killed"}]
  /\ tries \in [Writers -> 0 .. Tries]
  /\ tmp \in [Writers -> SUBSET TempNames]

(* Whenever the output is read it is either what it was, or everything a   *)
(* command wrote that has returned Ok: never a part, never a mixture, and  *)
(* never the work of a command that failed or was killed.                  *)
OutputWhole ==
  \A f \in files[Output] :
    /\ f.size = Blocks
    /\ f.by # Before => pc[f.by] = "done"

(* "On any failure the destination is left untouched", and no temporary    *)
(* file stays behind a command that returned; only a killed one leaves it. *)
FailureLeavesNothing ==
  \A w \in Writers :
    pc[w] \in {"done", "failed"} => \A n \in TempNames : \A f \in files[n] : f.by # w
===============================================================================
