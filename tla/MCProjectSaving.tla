--------------------------- MODULE MCProjectSaving ---------------------------
(* Model checking of ProjectSaving with two drawables and two files.        *)
EXTENDS ProjectSaving, TLC

CONSTANTS m1, m2, a1, p1, p2, n1, n2

TwoModels == {m1, m2}
OneModel == {m1}
OneAccessory == {a1}
TwoPaths == {p1, p2}
OnePath == {p1}
TwoNames == {n1, n2}
OneName == {n1}
Everything == {"import", "fail", "rename", "link"}
None == {}
Importing == {"import"}
Platforms == {"posix", "win32"}

MCSymmetry == Permutations(Models) \cup Permutations(Paths)
=============================================================================
