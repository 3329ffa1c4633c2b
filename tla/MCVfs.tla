------------------------------- MODULE MCVfs -------------------------------
(* Vfs with an initramfs whose directory 2 is the mount point, and two     *)
(* other file systems that can be mounted on it twice, or on one another   *)
(* two levels further down.                                                *)
EXTENDS Vfs, TLC

CONSTANTS initramfs, fat, esp, h1, h2

MCFs == {initramfs, fat, esp}
MCHandles == {h1, h2}

MCDirs == [f \in MCFs |->
    IF f = initramfs THEN {<<>>, <<1>>, <<2>>} ELSE {<<>>, <<1>>, <<1, 1>>}]

MCFiles == [f \in MCFs |->
    IF f = initramfs THEN {<<2, 2>>} ELSE {<<1, 2>>}]

MCMountPoints == {<<2>>, <<2, 1, 1>>}

MCPaths == {Root, <<1, 2>>, <<2, 1, 2>>, <<1, Dot, DotDot, DotDot>>}

ASSUME MCNamesFit == NamesFit

\* fat and esp have the same contents.
MCSymmetry == Permutations({fat, esp}) \union Permutations(MCHandles)
=============================================================================
