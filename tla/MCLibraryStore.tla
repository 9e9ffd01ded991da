--------------------------- MODULE MCLibraryStore ---------------------------
\* Two files that differ in everything, titles that hold html entities, one of
\* them twice, and one without text, and the symmetry of the model values.
EXTENDS LibraryStore, TLC

MCTitles == {"&amp;lt;", "&lt;", "<", " "}
MCDecoded == [v \in MCTitles |-> CASE v = "&amp;lt;" -> "&lt;"
                                   [] v = "&lt;"     -> "<"
                                   [] OTHER          -> v]
MCSizes == {1, 2}
MCResources == {[size |-> 1, pages |-> 1, title |-> "&amp;lt;"],
                [size |-> 2, pages |-> 2, title |-> " "]}
MCResourcesOne == {[size |-> 1, pages |-> 1, title |-> "&lt;"]}
MCResourcesEmpty == MCResources \cup {[size |-> 2, pages |-> 0, title |-> " "]}

Symmetry == Permutations(Comics) \cup Permutations(Tasks)
=============================================================================
