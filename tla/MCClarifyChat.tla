--------------------------- MODULE MCClarifyChat ---------------------------
(* A small instance of ClarifyChat: the texts of the messages.             *)
EXTENDS ClarifyChat
MCText == [m \in Messages |-> m]
=============================================================================
