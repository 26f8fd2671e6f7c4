--------------------------- MODULE MCKafkaConsumer ---------------------------
(* Small instances of KafkaConsumer. *)
EXTENDS KafkaConsumer, TLC

CONSTANTS m1, m2, p1, p2

FirstOfP1 == {<<p1, 0>>}

==============================================================================
