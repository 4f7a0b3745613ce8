------------------------- MODULE MCListingModeration -------------------------
(* Small instances of ListingModeration for TLC. *)
EXTENDS ListingModeration, TLC

CONSTANTS l1, c1, c2

MCSymmetry == Permutations(Caller)
==============================================================================
