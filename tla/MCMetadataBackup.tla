--------------------------- MODULE MCMetadataBackup ---------------------------
(* Names come one at a time, but for a patch that replaces by all tags, and    *)
(* for the first comic: it has a tag and the author, and another comic of the  *)
(* library has neither. Tags and the paths of comics are interchangeable.      *)
EXTENDS MetadataBackup, TLC

Singles == {{}} \cup {{n} : n \in Names}
FirstNamed == {had \in [Rels -> SUBSET Names] :
                 \E x \in Rels, t \in Tags : had = [y \in Rels |-> IF y = x THEN {t} \cup Authors ELSE {}]}
TagPatches == {[how |-> h, field |-> Tags, values |-> {t}] : h \in {"Add", "Remove"}, t \in Tags}
              \cup {[how |-> "Replace", field |-> Tags, values |-> Tags]}
Alike == Permutations(Rels) \cup Permutations(Tags)
===============================================================================
