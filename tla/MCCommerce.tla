------------------------------ MODULE MCCommerce ------------------------------
(***************************************************************************)
(* An instance of Commerce for TLC: two prices, and room for a counter     *)
(* that arrives again after the quote that answered it.                    *)
(***************************************************************************)
EXTENDS Commerce

TwoAmounts == {1, 2}

=============================================================================
