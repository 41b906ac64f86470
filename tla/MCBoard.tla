------------------------------- MODULE MCBoard -------------------------------
(* The board with words around the places where something may go wrong: two *)
(* that share a cell with 24 MB of memory (5 and 13 MB), the firmware's      *)
(* first word, memory that lies behind devices, and KSEG aliases of memory   *)
(* and ROM.                                                                  *)
EXTENDS Board

MCProbes == {0, 1, 5 * Megabyte, 13 * Megabyte, \h400000, FirmwareTarget,
             \h28000000, \h05000000, \h05400001, \h07CE4001, \h07CE4002,
             \h07FFFFFF, ResetVector, \h30000000, \h3FFFFFFF}
MCWords == {ToPhysical(a) : a \in MCProbes}
MCMemorySizes == {0, 8, 24, 32, 1024}

MCFile(size, headers) == [size |-> size, headers |-> headers]
MCFiles == {MCFile("missing", <<"code">>), MCFile("whole", <<"noMagic", "tooLong">>),
            MCFile("short", <<"data">>),
            MCFile("whole", <<"data", "code">>),
            MCFile("whole", <<"data", "firmware">>)}
=============================================================================
