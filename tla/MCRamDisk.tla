----------------------------- MODULE MCRamDisk -------------------------------
(* Two disks of two tracks with two sectors of two bytes.  Of the bytes of  *)
(* a save all reach the file, or none, or a beginning, or all but some in   *)
(* the middle.                                                              *)
EXTENDS RamDisk

MCWritten ==
  {<<1, 2, 3, 4, 5, 6, 7, 8>>, <<>>, <<1, 2, 3, 4, 5>>, <<1, 2, 6, 7, 8>>}
==============================================================================
