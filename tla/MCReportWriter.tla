--------------------------- MODULE MCReportWriter ---------------------------
(***************************************************************************)
(* Instances of ReportWriter.  The directory is case-insensitive: "OUT"    *)
(* and "out" are one entry, and so are the input's two spellings.          *)
(***************************************************************************)
EXTENDS ReportWriter, TLC

CONSTANTS w1, w2, w3, out, outUpper, in, inUpper, outEntry, inEntry

MCPaths == {out, outUpper, in, inUpper}
MCNames == {outEntry, inEntry}
MCEntry == [p \in MCPaths |-> IF p \in {out, outUpper} THEN outEntry ELSE inEntry]
MCIdentity == [p \in MCPaths |-> MCEntry[p]]

\* w1 and w2 aim at one entry, the former with --force; w3 is told, by another
\* spelling and with --force, to write over its own input.
MCTarget == [w \in Writers |-> IF w = w1 THEN out ELSE IF w = w2 THEN outUpper ELSE inUpper]
MCProtected == [w \in Writers |-> {in}]
MCForced == [w \in Writers |-> w # w2]

\* Files differ by identity only.
FileSymmetry == Permutations(Files)
=============================================================================
