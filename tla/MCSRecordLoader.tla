-------------------------- MODULE MCSRecordLoader --------------------------
(* Lines for the boot loader run: overlapping records of both memories, up *)
(* to the longest payload a line can hold, and lines without a record.     *)
EXTENDS SRecordLoader

MCLines ==
     {Line(TRUE, 3, a, n) : a \in {0, 1, 2}, n \in {0, 1, 2, 33}}
  \cup {Line(TRUE, 3, SCARTS_CODEMEM_LMA + a, n) : a \in {0, 2}, n \in {0, 2, 32}}
  \cup {Line(s, t, 0, 2) : s \in BOOLEAN, t \in {0, 1}}
=============================================================================
