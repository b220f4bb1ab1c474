----------------------------- MODULE MCCrtToken -----------------------------
(***************************************************************************)
(* Two accounts and a word that holds 0..3: a holder can have its tokens   *)
(* split between free and locked in every way, an allowance can be finite  *)
(* or type(uint256).max, and minting reaches the end of the word.          *)
(***************************************************************************)
EXTENDS CrtToken

=============================================================================
