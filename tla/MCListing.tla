----------------------------- MODULE MCListing -----------------------------
(* Instances of Listing for TLC.  The rows that are files are                *)
(* interchangeable.                                                          *)
EXTENDS Listing, TLC

RowSymmetry == Permutations(Row \ FolderRow)
=============================================================================
