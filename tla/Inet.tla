-------------------------------- MODULE Inet --------------------------------
(***************************************************************************)
(* An address as the three fields of DuckDB's INET struct.  The address    *)
(* field is a signed integer of 2 * Half values; Half is 2^127 in the code *)
(* and V4Size, the number of IPv4 addresses, 2^32.                         *)
(***************************************************************************)
EXTENDS Integers

CONSTANTS Half, V4Size

ASSUME HalfAssumption == Half \in Nat \ {0}
ASSUME V4Assumption == V4Size \in Nat \ {0} /\ V4Size <= Half

V4 == [v : {4}, bits : 0 .. V4Size - 1]
V6 == [v : {6}, bits : 0 .. 2 * Half - 1]
IpAddr == V4 \cup V6

\* An unsigned value with its top bit flipped.
FlipTop(u) == IF u < Half THEN u + Half ELSE u - Half

\* The signed value with the same bits.
AsSigned(u) == IF u < Half THEN u ELSE u - 2 * Half

\* Mutant of Address: the sign bit is left as it is.
AddressUnflipped(ip) == IF ip.v = 4 THEN ip.bits ELSE AsSigned(ip.bits)

Address(ip) == IF ip.v = 4 THEN ip.bits ELSE AsSigned(FlipTop(ip.bits))

Encode(ip, mask) ==
  [ip_type |-> IF ip.v = 4 THEN 1 ELSE 2, address |-> Address(ip), mask |-> mask]
=============================================================================
