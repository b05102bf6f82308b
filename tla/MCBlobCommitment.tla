-------------------------- MODULE MCBlobCommitment --------------------------
(* Lengths around the ends of shares and of rows of shares, for TLC.       *)
EXTENDS BlobCommitment

EndOfShare(n) == 478 + (n - 1) * 482

MCLengths ==
  {1} \cup UNION {{EndOfShare(n) - 1, EndOfShare(n), EndOfShare(n) + 1} :
                    n \in {1, 2, 3, 7, 63, 64, 65, 127, 128, 191}}
      \cup {EndOfShare(700), maxBytes}
=============================================================================
