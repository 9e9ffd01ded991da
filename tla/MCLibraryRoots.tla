---------------------------- MODULE MCLibraryRoots ----------------------------
(* Two scenes on one set of paths. Local: a directory and one inside it,      *)
(* either of which may be a root, with the same comic possible in both.       *)
(* Mixed: a server with two roots, one inside the other, beside a local       *)
(* library. The full product of the two is too large to check. Files are      *)
(* damaged and formats chosen while there is one library and no race.         *)
EXTENDS LibraryRoots

V == <<"v">>
VS == <<"v", "s">>
LocalRoots == {V, VS}
RemoteRoots == {<<"x">>, <<"x", "t">>}
Files == {<<"v", "a">>, <<"v", "s", "a">>, <<"x", "t", "a">>}
Formats == {"archive"}
Archives == [f \in Files |-> "archive"]

Apart(roots, files) ==
  /\ \A i \in roots : root[i] = None /\ \A c \in creating : c.root # i
  /\ torn \cap roots = {} /\ late \cap roots = {} /\ job.spared \cap roots = {}
  /\ \A t \in job.todo \cup {job.at} : t.id \notin roots /\ t.root \notin roots
  /\ \A f \in files : f \notin disk /\ row[f] = NoRow

LocalScene == Apart(RemoteRoot, {<<"x", "t", "a">>}) /\ "x" \in online
MixedScene ==
  /\ Apart({VS}, {<<"v", "s", "a">>})
  /\ root[V] # VS
  /\ job.known = {} /\ \A f \in File : ~ row[f].edited
Plain == broken = {} /\ \A i \in Root : takes[i] = Format
Alone == Cardinality(Libraries) <= 1 /\ creating = {} /\ late = {} /\ torn = {}
Scenes == (LocalScene \/ MixedScene) /\ (Plain \/ Alone)
===============================================================================
