-------------------------- MODULE MCElectronShell --------------------------
(* The desktop application on both platforms, installed and in development. *)
EXTENDS ElectronShell

Both == BOOLEAN
AllPlatforms == {"darwin", "win32"}
=============================================================================
