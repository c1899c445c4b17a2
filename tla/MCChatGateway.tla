---------------------------- MODULE MCChatGateway ----------------------------
(***************************************************************************)
(* A small instance of ChatGateway for TLC: three sockets, all of one      *)
(* actor in the first instance, with room for one or two at a time.        *)
(***************************************************************************)
EXTENDS ChatGatewayProperties

CONSTANTS s1, s2, s3, customer

MCActorOf == [s \in Sockets |-> customer]
=============================================================================
