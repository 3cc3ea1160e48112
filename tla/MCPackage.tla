------------------------------ MODULE MCPackage ------------------------------
(* Two packages, so that a new name replaces the resource. *)
EXTENDS PackageResource
PackageNames == {"curl", "tcpdump"}
=============================================================================
