----------------------------- MODULE MCSessions -----------------------------
(* Instances of Sessions for TLC.                                           *)
EXTENDS Sessions
CONSTANTS pwA, pwB, pwLong, random, none
MCPasswords == {pwA, pwB, pwLong}
MCLong == {pwLong}

(* SessionsSurvive without its exclusion: refuted in sessions_unsaved.cfg,  *)
(* where a start could not write the hash it had made (main.go:107).        *)
SessionsSurviveFailedWrites ==
    engine = "up" => \A t \in owed : Accepted(t, adminHash, sessionKey)
=============================================================================
