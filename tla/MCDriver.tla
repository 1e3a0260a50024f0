------------------------------ MODULE MCDriver ------------------------------
(***************************************************************************)
(* Small instances of Driver for TLC.                                      *)
(***************************************************************************)
EXTENDS Driver

\* Hot-key ids: 1 is a one-byte id, 258 = 0x0102 needs two bytes of the
\* little-endian u32.
MCIds == {1, 258}
MCOneId == {258}
MCNoIds == {}
\* "K" as a key text.
MCKeys == {<<75>>}
\* "A" followed by 0xFF, a byte that is never valid UTF-8.
MCReasons == {<<65, 255>>}
=============================================================================
