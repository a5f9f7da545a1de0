-------------------------------- MODULE MCIpc --------------------------------
(* Instances of Ipc for TLC. *)
EXTENDS Ipc

CONSTANTS s1, r1

OneSender == {s1}
OneReceiver == {r1}

AllKinds == {"send", "send_cap", "send_timeout", "recv", "recv_cap", "recv_timeout", "try_recv"}
PlainKinds == {"send", "recv"}
=============================================================================
