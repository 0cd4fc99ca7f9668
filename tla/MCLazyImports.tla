------------------------------ MODULE MCLazyImports ------------------------------
(* The app shell and the dashboard in one tab, every attempt allowed.      *)
EXTENDS LazyImports

CONSTANTS shell, dash

MCChunks == {shell, dash}
MCPages == {dash}
=============================================================================
