---------------------------- MODULE MCRemoteFile -----------------------------
(* Records of two bytes, files of up to two records, and one with a part of   *)
(* a record; two copies and one handle less than they may need.                *)
EXTENDS RemoteFile

MCHostContent == {<<1>>, <<2, 1, 2>>}
MCCpmContent == {<<>>, <<<<1, 2>>, <<2, 2>>>>}
==============================================================================
