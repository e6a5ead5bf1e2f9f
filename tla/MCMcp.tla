------------------------------- MODULE MCMcp -------------------------------
(* A tree with a file of the same name in two directories. *)
EXTENDS Mcp
MCNodes == {"/", "/a", "/d", "/d/a", "/d/l", "/d/s", "/d/e", "/c"}
MCParent == [n \in MCNodes \ {"/"} |->
                IF n \in {"/a", "/d", "/c"} THEN "/" ELSE "/d"]
MCName == [n \in MCNodes |->
    CASE n \in {"/a", "/d/a"} -> "a" [] n = "/d" -> "d" [] n = "/d/l" -> "l"
      [] n = "/d/s" -> "s" [] n = "/d/e" -> "e" [] n = "/c" -> "c"
      [] OTHER -> "."]
MCKind == [n \in MCNodes |->
    CASE n \in {"/", "/d", "/d/e"} -> "dir" [] n \in {"/a", "/d/a", "/c"} -> "reg"
      [] n = "/d/l" -> "lnk" [] OTHER -> "other"]
=============================================================================
