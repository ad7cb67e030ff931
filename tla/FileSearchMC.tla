---------------------------- MODULE FileSearchMC ----------------------------
(***************************************************************************)
(* A small home directory for FileSearch.                                  *)
(***************************************************************************)
EXTENDS FileSearch

home == <<"home">>
doc  == <<"home", "doc">>
docs == <<"home", "docs">>
note == <<"home", "docs", ".note">>

AllPaths       == {home, doc, docs, note}
AllDirectories == {home, doc, docs}
HiddenPaths    == {note}
StrcmpOrder    == <<home, doc, docs, note>>
Ranks  == [p \in AllPaths |-> CHOOSE i \in 1 .. Len(StrcmpOrder) : StrcmpOrder[i] = p]
Hashes == (home :> 0) @@ (doc :> 2) @@ (docs :> 1) @@ (note :> 3)

Limits(d, h, g) == [depth |-> d, hidden |-> h, gitignore |-> g]
Whole == (home :> Limits(2, TRUE, TRUE))
Split == (home :> Limits(2, FALSE, FALSE)) @@ (doc :> Limits(1, TRUE, TRUE))
BothSettings == {Whole, Split}
DocPrefix == {<<"doc", "docs">>}
LastingPaths == {home, doc}
=============================================================================
