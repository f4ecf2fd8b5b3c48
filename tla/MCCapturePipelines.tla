-------------------------- MODULE MCCapturePipelines --------------------------
(* Small instances of the pipelines that follow the screen size.           *)
EXTENDS CapturePipelines

\* Each part by itself.
EachPart == {{p} : p \in Parts}
=============================================================================
