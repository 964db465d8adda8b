--------------------------------- MODULE Crc ---------------------------------
(* Bytes, and the CRC-8, polynomial 0x07, initial value 0, of each of them:   *)
(* the inner loop of crc8_bytes (fire_device_status_daemon.py) is eight shifts. *)
EXTENDS Naturals

Byte == 0..255

\* The exclusive or of two bytes, bit by bit.
Differ(a, b, weight) == IF (a \div weight) % 2 = (b \div weight) % 2 THEN 0 ELSE weight
Xor(a, b) ==
    Differ(a, b, 1) + Differ(a, b, 2) + Differ(a, b, 4) + Differ(a, b, 8) +
    Differ(a, b, 16) + Differ(a, b, 32) + Differ(a, b, 64) + Differ(a, b, 128)

Shift(crc) == IF crc >= 128 THEN Xor((crc * 2) % 256, 7) ELSE crc * 2

Crc8 == [b \in Byte |-> Shift(Shift(Shift(Shift(Shift(Shift(Shift(Shift(b))))))))]
=============================================================================
