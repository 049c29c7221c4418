----------------------------- MODULE MCFolders -----------------------------
(* Instances of Folders for TLC.  Ids, names and requests are                *)
(* interchangeable.                                                          *)
EXTENDS FolderTree, TLC

FolderSymmetry ==
  Permutations(Request) \cup Permutations(Folder) \cup Permutations(Name)
=============================================================================
