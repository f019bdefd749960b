---------------------------- MODULE MCWadDownload ----------------------------
(* WadDownload with few jobs, for TLC.                                     *)
EXTENDS WadDownload

===============================================================================
