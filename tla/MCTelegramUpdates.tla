------------------------- MODULE MCTelegramUpdates -------------------------
(* An instance of TelegramUpdates for TLC. *)
EXTENDS TelegramUpdates
=============================================================================
