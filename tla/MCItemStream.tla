---------------------------- MODULE MCItemStream ----------------------------
(* A finite instance of ItemStream: two clients and two items, of which a  *)
(* replay reads one, a queue that holds one, one fault besides the silence  *)
(* of a dropped connection and the slowness of a client.                    *)
EXTENDS ItemStream

CONSTANTS s1, s2, k1, k2
=============================================================================
