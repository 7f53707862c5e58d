---------------------------- MODULE MCChat ----------------------------
(* One of the two pages loses its socket or is opened again, while the *)
(* service still has a message of the other, who has left.             *)
EXTENDS Chat

CONSTANTS customer, transporter, SocketsC, SocketsT, SendsC, SendsT

MCMaxSockets == [u \in Clients |-> IF u = customer THEN SocketsC ELSE SocketsT]
MCMaxSends == [u \in Clients |-> IF u = customer THEN SendsC ELSE SendsT]

OneGone == \E u \in Clients : ChatStart({u})
OneGoneSpec == OneGone /\ [][ChatNext]_chatVars
=============================================================================
