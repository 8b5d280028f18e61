------------------------------- MODULE MCSetup -------------------------------
(***************************************************************************)
(* What a process does before it trains, one question at a time: it finds  *)
(* and downloads its assets (Downloads), and a container builds the        *)
(* objects of its application (Container).                                 *)
(***************************************************************************)
EXTENDS MCDownloads, MCContainer

VARIABLE kind  \* which one it is; the state of the others stays as it is

SetupInit ==
    /\ kind \in {"assets", "objects"}
    /\ IF kind = "assets" THEN TRUE ELSE catalog = Site /\ format = "plain"
    /\ DownloadsInit
    /\ IF kind = "objects" THEN TRUE ELSE wiring = OneWiring
    /\ ContainerInit

Loading  == kind = "assets" /\ DownloadsNext /\ UNCHANGED containerVars
Building == kind = "objects" /\ ContainerNext /\ UNCHANGED downloadVars

SetupNext == (Loading \/ Building) /\ UNCHANGED kind

SetupSpec == SetupInit /\ [][SetupNext]_<<kind, downloadVars, containerVars>>
=============================================================================
