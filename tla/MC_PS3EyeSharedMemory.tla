----------------------- MODULE MC_PS3EyeSharedMemory -----------------------
(***************************************************************************)
(* Instantiates PS3EyeSharedMemory for TLC.  The .cfg files bind the       *)
(* bounds; the process identities are model values declared here.          *)
(***************************************************************************)
EXTENDS PS3EyeSharedMemory, TLC

CONSTANTS c1, c2

MCClients == {c1, c2}

MCProcs == MCClients \cup {Server}

\* Failed connects stop once they have driven clientCount to -1.
MCCountFloor == -1

\* Client processes are interchangeable (safety-only runs).
ClientSymmetry == Permutations(MCClients)
=============================================================================
