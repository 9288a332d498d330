---------------------------- MODULE MCConnection ----------------------------
(***************************************************************************)
(* Values of Connection's constants for its TLC runs.                      *)
(***************************************************************************)
EXTENDS Connection

AllKinds == {"get", "close", "post", "upload", "bad"}
PlainKinds == {"get", "post"}
AllReplies == {"none", "reply", "file", "write", "save"}
FailingReplies == AllReplies \union {"large"}
Answers == {"reply", "file", "save"}
=============================================================================
