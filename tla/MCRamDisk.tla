----------------------------- MODULE MCRamDisk -----------------------------
(***************************************************************************)
(* RamDisk with some shapes of requests for TLC, which takes no sequences  *)
(* from a configuration.                                                   *)
(***************************************************************************)
EXTENDS RamDisk

\* One segment of one and of two sectors, two segments in a bio, and two bios.
MCShapes ==
  {<< <<0, 1>> >>, << <<0, 2>> >>, << <<0, 1, 2>> >>, << <<0, 1>>, <<1, 2>> >>}
=============================================================================
