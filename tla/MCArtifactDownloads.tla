------------------------ MODULE MCArtifactDownloads ------------------------
(* Instances of ArtifactDownloads for TLC. *)
EXTENDS ArtifactDownloads

CONSTANTS d1, w1, w2, c1, c2

OneDownload == {d1}
TwoWorkers == {w1, w2}
TwoContents == {c1, c2}

(* What two goroutines of one download do to it is not followed: every     *)
(* property is about what comes before.                                    *)
NotDoubled == ~doubled
=============================================================================
