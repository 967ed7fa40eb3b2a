----------------------------- MODULE MCIngestion -----------------------------
(* Instance of Ingestion: two messages of MCTagIndex come in one request,   *)
(* and another one comes through MQTT. Months are 2134-09 and 2134-10.      *)
EXTENDS MCTagIndex, Ingestion

CONSTANTS r1, published

MCCarries == [r \in Request |-> {lastMinute, text}]
=============================================================================
