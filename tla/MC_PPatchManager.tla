------------------------- MODULE MC_PPatchManager -------------------------
(* Releases for TLC: what may become of a chunk between two releases.      *)
EXTENDS PPatchManager

F(p, t, u) == [e \in Ext |-> CASE e = "pak" -> p [] e = "utoc" -> t [] OTHER -> u]
R(o, n) == [old |-> o, new |-> n, renamed |-> FALSE]

Equal == R(F(1, 1, 1), F(1, 1, 1))
PakOnly == R(F(1, 0, 0), F(2, 0, 0))
PakUtoc == R(F(1, 1, 0), F(2, 2, 0))
PakEqual == R(F(1, 1, 1), F(1, 2, 2))
Added == R(F(0, 0, 0), F(2, 2, 0))
Deleted == R(F(1, 1, 0), F(0, 0, 0))
Renamed == [PakUtoc EXCEPT !.renamed = TRUE]

(* Releases of two chunks, and one of four in which tasks have to wait     *)
(* for the ends of others.                                                 *)
Absent == R(F(0, 0, 0), F(0, 0, 0))
MCChunk == 1..4
TwoChunks == {<<PakUtoc, PakOnly>>, <<PakUtoc, Added>>, <<PakEqual, Deleted>>,
              <<PakOnly, Renamed>>, <<Equal, PakEqual>>}
FourChunks == {<<PakOnly, PakOnly, PakOnly, PakOnly>>}
PlainReleases == {r \o <<Absent, Absent>> : r \in TwoChunks} \cup FourChunks

(* A companion comes or goes while its .pak stays. *)
UtocAdded == R(F(1, 0, 0), F(2, 2, 2))
UtocDropped == R(F(1, 1, 1), F(1, 0, 0))
CompanionReleases == {<<UtocAdded, PakOnly, Absent, Absent>>, <<Equal, UtocDropped, Absent, Absent>>}
NoReleases == {}
=============================================================================
