----------------------------- MODULE MCDownload -----------------------------
(* An instance of Download for TLC: two invocations on one target.          *)
EXTENDS Download
=============================================================================
