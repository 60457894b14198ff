---------------------------- MODULE MCProcesses ----------------------------
(***************************************************************************)
(* Small instances of the process core for TLC.  The cfg files give the    *)
(* numbers; the edge sets are named here.                                  *)
(***************************************************************************)
EXTENDS ProcessesRefine

NoEdges         == {}
WindowEdge      == {"window"}
BootEdge        == {"boot"}
VidmapEdge      == {"vidmap"}
BootVidmapEdges == {"boot", "vidmap"}
OneStatus       == {0}
=============================================================================
