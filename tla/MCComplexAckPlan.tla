-------------------------- MODULE MCComplexAckPlan --------------------------
(* Answers of 1 to 60 octets; APDUs of 8 to 12, headers as in tsm.c.  A    *)
(* maximum of 0 is what decode_max_apdu makes of a reserved code.          *)
EXTENDS ComplexAckPlan

MCLengths == 1 .. 60
=============================================================================
