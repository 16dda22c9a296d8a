------------------------------- MODULE MCStores -------------------------------
(***************************************************************************)
(* TLC instance of Stores: the store of the merchant z1 may have the name  *)
(* of another merchant.                                                    *)
(***************************************************************************)
EXTENDS Stores, TLC

MCSlugify(n) == CASE n = "Acme"      -> "acme"
                  [] n = "Acme - z1" -> "acme-z1"

MCDisplayName(z) == "Acme"
MCLongName(z) == "Acme - " \o z

Symmetry == Permutations(Calls)

==============================================================================
