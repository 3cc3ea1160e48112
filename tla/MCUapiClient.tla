---------------------------- MODULE MCUapiClient ----------------------------
EXTENDS UapiClient, TLC

CONSTANTS c1, c2, c3, c4

\* A create and a delete, which is sent again and answered 404.
CreateAndDelete == c1 :> "POST" @@ c2 :> "DELETE"

\* Writers of one package, as Terraform runs them in parallel, and a read.
WritersAndReader == c1 :> "POST" @@ c2 :> "PATCH" @@ c3 :> "POST" @@ c4 :> "GET"
=============================================================================
