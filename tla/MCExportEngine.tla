---------------------------- MODULE MCExportEngine ----------------------------
(* Small instances of ExportEngine: the exports, runtimes and download        *)
(* requests that the configurations choose from.                              *)
EXTENDS ExportEngine

CONSTANTS j1, j2, w1, w2, r1
=============================================================================
