----------------------------- MODULE MCInbound -----------------------------
(* A small instance of Inbound for TLC. *)
EXTENDS Inbound

CONSTANTS text, more, photo, stop, kA, kB

\* One chat sends two texts and a photo; a command comes from a second one.
Chats == [m \in Messages |-> IF m = stop THEN kB ELSE kA]

\* The first text is sent again.
OneRetry == [m \in Messages |-> IF m = text THEN 2 ELSE 1]
=============================================================================
