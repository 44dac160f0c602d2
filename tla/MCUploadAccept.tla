--------------------------- MODULE MCUploadAccept ---------------------------
(* Two uploads of one part that claim to be a run, each as it is or not, and  *)
(* an upload of another part by the repo's own CI.                            *)
EXTENDS UploadAccept, TLC

CONSTANTS u1, u2, u3, fit, unfit, pa, pb, run

MCClaimsOf == (u1 :> Claim) @@ (u2 :> Claim) @@ (u3 :> {NoClaim})
MCPartOf == (u1 :> pa) @@ (u2 :> pa) @@ (u3 :> pb)
MCRunOf == (fit :> run) @@ (unfit :> run)
Alike == Permutations({u1, u2})
=============================================================================
