------------------------------ MODULE MCSessionFiles ------------------------------
(* What is made of session files: the rows that ingestion makes of one file *)
(* or of two that share messages, the live feed, which follows the files on *)
(* its own, and the project list, which counts what all of them hold.  They *)
(* share no state: `focus`, chosen at the start, says which of them moves.  *)
EXTENDS MCIngestTail, LiveStream, ProjectList

CONSTANTS sessionFile, f3

VARIABLE focus

\* A session of unfirehose/1.0 alone, or a session of Claude Code beside the
\* transcript of its subagent.
Follows == [native |-> {f1}, shared |-> {f2, f3}]
HarnessOf == [f \in Files |-> CASE f = f1 -> "native" [] f = f2 -> "claude" [] OTHER -> "subagent"]

\* What a subagent's transcript shares with its session: messages in another
\* order, or twice in one file, beside the parent marker and a message without
\* a uuid.
Delegated == <<Msg("assistant", u1), Msg("parent", NoId), Msg("assistant", u2)>>
Crossed   == <<Msg("assistant", u2), Msg("assistant", u1), Msg("assistant", u2)>>
Twice     == <<Msg("assistant", u1), Msg("assistant", u1), Msg("assistant", NoId)>>

SessionLines == NativeLines \cup {Delegated, Crossed, Twice}
AllUnread    == [f \in Files |-> Twice]

\* The harnesses write, and the passes visit, the files in focus; two files at
\* once are written by whole lines.
FollowsOnly(files) ==
    /\ \A f \in Files \ files : size'[f] = 0
    /\ \A p \in Passes : visit'[p].at = "idle" \/ visit'[p].on \in files
    /\ focus = "shared" => \A f \in files : size'[f] % 2 = 0

\* A repository in two harnesses, a directory that holds it and a sibling, a
\* clone and a workspace in scratch space, workspaces within one another, and
\* a name without a path.
ListRow(h, slug, path, commit) == [name |-> [harness |-> h, slug |-> slug], path |-> path, commit |-> commit]
SomeRows ==
    { ListRow("claude", <<"git", "foo">>, <<"git", "foo">>, 1),
      ListRow("arborist", <<"git", "foo">>, <<"git", "foo">>, 1),
      ListRow("claude", <<"git">>, <<"git">>, 0),
      ListRow("claude", <<"git", "bar">>, <<"git", "bar">>, 0),
      ListRow("claude", <<"tmp", "x">>, <<"tmp", "x">>, 1),
      ListRow("arborist", <<"tmp", "git", "foo", "y">>, <<"tmp", "y">>, 0),
      ListRow("arborist", <<"git", "foo", "sub">>, NoPath, 0),
      ListRow("arborist", <<"run1">>, <<"git", "foo", "workers", "w1">>, 0),
      ListRow("arborist", <<"run2">>, <<"git", "foo", "workers", "w1", "z">>, 0),
      ListRow("arborist", <<"run3">>, <<"git", "workers", "w2">>, 0) }
PrefixOf == [claude |-> 0, arborist |-> 2]
Tmp      == {<<"tmp">>}

fileVars == <<focus, vars, liveVars, listVars>>

FilesInit ==
    /\ focus \in {"native", "shared", "feed", "list"}
    /\ Init /\ LiveInit /\ ListInit
    /\ content \in
         CASE focus = "native" -> {[AllUnread EXCEPT ![f1] = c] : c \in NativeLines}
           [] focus = "shared" -> {[AllUnread EXCEPT ![f2] = Delegated, ![f3] = Crossed],
                                   [AllUnread EXCEPT ![f2] = Crossed, ![f3] = Twice]}
           [] OTHER -> {AllUnread}

FilesNext ==
    /\ UNCHANGED focus
    /\ \/ /\ focus \in {"native", "shared"} /\ Next /\ FollowsOnly(Follows[focus])
          /\ UNCHANGED <<liveVars, listVars>>
       \/ focus = "feed"   /\ LiveNext /\ UNCHANGED <<vars, listVars>>
       \/ focus = "list"   /\ ListNext /\ UNCHANGED <<vars, liveVars>>

FilesSpec == FilesInit /\ [][FilesNext]_fileVars

\* The feed and the list keep their types.
FilesTypeOK == LiveTypeOK /\ ListTypeOK
==================================================================================
