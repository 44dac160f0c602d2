---------------------------- MODULE MCGitHubApp ----------------------------
(* Pushes and claims of one process, an owner who asks for any one thing. *)
EXTENDS GitHubApp, TLC

CONSTANTS push, claim, p1, o1, a, b

MCProcessOf == [r \in Request |-> p1]
MCUseOf == push :> "push" @@ claim :> "claim"
MCKindsOf == [o \in Owner |-> Kind]
MCInstallationOf == [o \in Owner |-> b]
=============================================================================
