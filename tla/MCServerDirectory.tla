-------------------------- MODULE MCServerDirectory --------------------------
(* A login server, its char server, and the char server's game server.      *)
EXTENDS ServerDirectory

MCType == [s \in Servers |-> CASE s = "login" -> 1 [] s = "game" -> 3 [] OTHER -> 2]
MCId == [s \in Servers |-> CASE s = "login" -> 1 [] s = "char" -> 2 [] OTHER -> 3]
MCOwner == [s \in Servers |-> CASE s = "login" -> 0 [] s = "char" -> 1 [] OTHER -> 2]
MCMaxUsers == [s \in Servers |-> IF s = "char" THEN 1 ELSE 0]
=============================================================================
