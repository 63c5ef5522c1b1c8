---------------------------- MODULE MCChatClient ----------------------------
(* Small instances of ChatClient for TLC. *)
EXTENDS ChatClient

CONSTANTS a, b, r1

OneChat    == {a}
TwoChats   == {a, b}
NoResumer  == {}
OneResumer == {r1}
=============================================================================
