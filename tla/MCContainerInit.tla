--------------------------- MODULE MCContainerInit ---------------------------
(* Instances of ContainerInit for TLC. *)
EXTENDS ContainerInit

\* A directory of the host, /app on the host, and a path of which the host knows
\* nothing.
MCDirs     == {"python", "/app", "missing"}
MCHostDirs == {"python", "/app"}
=============================================================================
