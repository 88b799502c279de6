-------------------------- MODULE MCModemRequests ---------------------------
EXTENDS ModemRequests

(* A lock, an injected item, one that is always sent, one only kept, a     *)
(* mode that changes the capabilities, a server                            *)
MCSettings ==
  {<<"GPS_LOCK", "MO">>, <<"GPS_LOCK", "NONE">>, <<"SUPL_VER", "2_0_0">>,
   <<"LPPE_CP", {"DBH"}>>, <<"SUPL_MODE", {"MSA"}>>, <<"SUPL_HOST", "user">>}
=============================================================================
