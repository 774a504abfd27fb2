--------------------------- MODULE MCDecoderSession ---------------------------
(* Small instances of DecoderSession for TLC: two contexts.  The client of *)
(* the first, with two surfaces, is orderly; that of the second is not.    *)
EXTENDS DecoderSession, LowLevelPro, TLC

CONSTANTS c1, c2, s1, s2, s3

MCOwner == s1 :> c1 @@ s2 :> c1 @@ s3 :> c2

MCFeatures == c1 :> {"refs", "chroma"} @@ c2 :> {"early", "reflush"}
MCStamps == c1 :> 4 @@ c2 :> 2

(* An orderly client whose low level found a large lastReadTimeStamp. *)
MCJunk == c1 :> {"refs", "junk"} @@ c2 :> {}

(* Two clients that load chroma matrices.                                  *)
MCChroma == c1 :> {"chroma"} @@ c2 :> {"chroma"}

MCFail == c1 :> {"fail"} @@ c2 :> {}
=============================================================================
