------------------------- MODULE MC_PS3EyeTestClients -------------------------
EXTENDS PS3EyeTestClients, TLC

CONSTANTS c1, c2, c3

MCClients == {c1, c2, c3}
MCTestClient == {c1}
MCFastTest == {c2}
MCSharedMemoryTest == {c3}
MCCountFloor == -1
==============================================================================
