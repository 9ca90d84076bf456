------------------------------ MODULE Mongoose ------------------------------
(***************************************************************************)
(* What Mongoose 8 sends to MongoDB, as far as the back end depends on it. *)
(* A handler loads a document, assigns fields of its private copy, awaits  *)
(* other calls and then saves: only the fields that differ from the loaded *)
(* copy travel, and one command changes one document atomically.           *)
(*                                                                         *)
(* A document is a record with a field "ver" (Mongoose's __v).  A command  *)
(* is [doc, where, set]: the document it is addressed to, the version its  *)
(* filter demands, or AnyVersion, and the fields it assigns.               *)
(***************************************************************************)
EXTENDS Integers

\* The filter of a command that does not name a version.
AnyVersion == -1

\* The fields of a loaded copy that the handler has changed.
Dirty(loaded, wanted) == {f \in DOMAIN wanted : wanted[f] # loaded[f]}

\* document.save(): assigning a whole array that changed makes Mongoose
\* demand the version it loaded; a save of scalar fields demands nothing.
SaveCommand(id, loaded, wanted, arrays) ==
  [doc   |-> id,
   where |-> IF Dirty(loaded, wanted) \cap arrays # {}
               THEN loaded.ver ELSE AnyVersion,
   set   |-> [f \in Dirty(loaded, wanted) |-> wanted[f]]]

\* findByIdAndUpdate / updateOne with $set: every field given, no version.
SetCommand(id, fields) == [doc |-> id, where |-> AnyVersion, set |-> fields]

\* A save whose filter matches nothing is refused with a VersionError.
Accepts(stored, c) == c.where \in {AnyVersion, stored.ver}

\* The stored document after an accepted command: the fields of the command,
\* and the next version when the command demanded one.
Applied(stored, c) ==
  [f \in DOMAIN stored |->
     IF f \in DOMAIN c.set THEN c.set[f]
     ELSE IF f = "ver" /\ c.where # AnyVersion THEN stored.ver + 1
     ELSE stored[f]]
=============================================================================
