------------------------------- MODULE LogstoreMC -------------------------------
(* An instance of Logstore for TLC: two groups, one of which is followed.  *)
EXTENDS Logstore

TwoGroups == {"plugin", "other"}
OneFollowed == {"plugin"}

================================================================================
