----------------------------- MODULE MCFileTree -----------------------------
(* Model-checking instance of FileTree.                                    *)
EXTENDS FileTree

(* Two directories in one another and a third with a path longer than the  *)
(* deeper of the two: sorting by length is not sorting by depth.           *)
MCPaths == {<<>>, <<"d">>, <<"d", "e">>, <<"d", "e", "f">>, <<"d", "long">>}
MCLength == [p \in MCPaths |-> IF p = <<"d", "long">> THEN 9 ELSE 2 * Len(p)]
=============================================================================
