----------------------------- MODULE MCViewBuild -----------------------------
(* TLC instance of ViewBuild. The table is modelled until MaxRequests calls *)
(* have been made; then only its workers move, so the system stops.         *)
EXTENDS ViewBuild
==============================================================================
