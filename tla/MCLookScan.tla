----------------------------- MODULE MCLookScan -----------------------------
\* Every list of up to MaxLen requests with sectors below Sectors, every head
\* position from 0 to Sectors, both directions.
EXTENDS LookScan

CONSTANTS MaxLen, Sectors

MCLists == UNION {[1 .. n -> [pos : 0 .. Sectors - 1]] : n \in 1 .. MaxLen}
MCPositions == 0 .. Sectors
=============================================================================
