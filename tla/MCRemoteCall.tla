---------------------------- MODULE MCRemoteCall ----------------------------
(* The clients as the program configures them, with shorter waits. *)
EXTENDS RemoteCall

MCMaxAttempts == [c \in Clients |-> IF c = "hub" THEN 5 ELSE 3]
MCAnnounced == {-1, 4, MaxWait, MaxWait + 1}
=============================================================================
