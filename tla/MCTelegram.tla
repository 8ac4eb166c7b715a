----------------------------- MODULE MCTelegram -----------------------------
(* Small instances of Telegram.                                            *)
EXTENDS Telegram
=============================================================================
