------------------------- MODULE MCBotConversation -------------------------
(* Instances of BotConversation for TLC. *)
EXTENDS BotConversation
=============================================================================
