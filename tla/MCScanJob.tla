----------------------------- MODULE MCScanJob -----------------------------
(* The module TLC checks; the Scan*.cfg files choose the limits.           *)
EXTENDS ScanJob

CONSTANTS d, f1, f2, f3, c1, t1, t2, t3

\* A directory with three files, the first one with a caption.
SmallTree == <<d, f1, c1, f2, f3>>

\* The first file has two follow-up tasks, the second one.
SmallFollowUps == (f1 :> {t1, t2}) @@ (f2 :> {t3}) @@ (f3 :> {})

CaptionOfFirst == (c1 :> f1)
=============================================================================
