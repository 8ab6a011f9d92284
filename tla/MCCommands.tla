----------------------------- MODULE MCCommands -----------------------------
(* Values of the constants of Commands for TLC. *)
EXTENDS Commands

TwoWalletCoins == <<16, 9>>
AllOrOne == {{}, {3}}
=============================================================================
