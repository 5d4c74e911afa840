-------------------------------- MODULE MCProjects --------------------------------
(* Small instances of Projects for TLC. *)
EXTENDS Projects

CONSTANTS a, b, slot, root, url

\* A clone of `root`, and the same directory once its remote is set.
Local  == [root |-> root, origin |-> NoOrigin, remotes |-> {}]
Remote == [root |-> root, origin |-> url, remotes |-> {url}]

OneSlot == [n \in Names |-> slot]

\* Two directories of one repository.  git may be absent from the first, and
\* a remote may be set between two looks at either.
MaySee == [n \in Names |-> IF n = a THEN {NoGit, Local, Remote} ELSE {Local, Remote}]
==================================================================================
