---------------------------- MODULE BatchPackage ----------------------------
(***************************************************************************)
(* The package of a batch: the ZIP of the invoices, cut into parts that    *)
(* are encrypted, declared and uploaded one by one.  A part is the set of  *)
(* positions in the package whose bytes it carries.                        *)
(***************************************************************************)
EXTENDS Integers

CONSTANTS
  PackageSize,  \* how many bytes the ZIP has
  MaxPartSize   \* max_part_size

\* validate_max_part_size; the ZIP of one invoice, even of an empty one, has bytes.
ASSUME PackageIsCut == PackageSize \in Nat \ {0} /\ MaxPartSize \in Nat \ {0}

Bytes == 0..PackageSize - 1

\* Fault: only whole parts are counted.
NumWholeParts == PackageSize \div MaxPartSize

\* The length of range(0, len(payload), max_part_size).
NumParts == (PackageSize - 1) \div MaxPartSize + 1

\* enumerate(raw_parts, start=1)
Parts == 1..NumParts

Offset(part) == (part - 1) * MaxPartSize

\* payload[offset : offset + max_part_size]; a slice ends where the payload does.
RawPart(part) == {b \in Bytes : Offset(part) <= b /\ b < Offset(part) + MaxPartSize}
=============================================================================
