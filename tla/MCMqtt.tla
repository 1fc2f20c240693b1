------------------------------- MODULE MCMqtt -------------------------------
(* A monitored topic x and a topic z that is not.  The second message on x  *)
(* may not be a value.  Room for one value in a channel and for two         *)
(* messages in a stream, so that two messages on z stop the input task.     *)
EXTENDS Mqtt

MCGarbled == {<<"x", 2>>}
=============================================================================
