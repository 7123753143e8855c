--------------------------- MODULE MCEnumeration ---------------------------
(* The handlers send the string descriptors with the lengths they have. *)
EXTENDS Enumeration

MCStringDescrSize == StringDescr
=============================================================================
