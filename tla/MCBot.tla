--------------------------------- MODULE MCBot ---------------------------------
(* A small instance of Bot for TLC: see the .cfg file.                         *)
EXTENDS Bot

CONSTANTS a, b      \* two chats

MCChatOf == <<a, a, b, a>>
MCTextOf == <<"/stats", "text", "/unknown", "/start">>
=============================================================================
