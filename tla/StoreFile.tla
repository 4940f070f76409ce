----------------------------- MODULE StoreFile -----------------------------
(***************************************************************************)
(* How gitmeshd keeps a store: a command changes the store in memory, then *)
(* save_to_path writes the whole of it to a temporary file and renames it. *)
(* When that fails the command answers an error, the file is the old one   *)
(* and the store in memory stays changed.                                  *)
(***************************************************************************)
CONSTANT SaveMayFail     \* whether saving a file can fail

(* What the file may hold after the command.                               *)
Saving(file, store) == {store} \cup (IF SaveMayFail THEN {file} ELSE {})
=============================================================================
