------------------------- MODULE MC_PS3EyeAdapters -------------------------
(***************************************************************************)
(* Instantiates PS3EyeAdapters for TLC: two client processes, each hosting *)
(* one adapter; the .cfg files say which adapter each one hosts.           *)
(***************************************************************************)
EXTENDS PS3EyeAdapters, TLC

CONSTANTS c1, c2

MCClients == {c1, c2}

\* Failed connects stop once they have driven clientCount to -1.
MCCountFloor == -1

\* One Media Foundation source (c1) beside one DirectShow pin (c2).
MCOneSource == {c1}
MCOnePin == {c2}

\* Two applications, each with its own Media Foundation source or pin.
MCNone == {}
=============================================================================
