--------------------------- MODULE SecureChannel ---------------------------
(***************************************************************************)
(* What ssl_stream::recv promises its callers: the plaintext the peer has  *)
(* written, in order and without gaps, and the end of it only when there   *)
(* is no more.                                                             *)
(***************************************************************************)
EXTENDS Naturals, SequencesExt

VARIABLES
  written,        \* the plaintext the peer has written
  received,       \* the plaintext handed to callers of recv
  closed,         \* has the peer ended it, in order or by a fatal error?
  ended           \* has recv met that end, and reads no more?

channelVars == <<written, received, closed, ended>>

ChannelInit ==
  /\ written = <<>>
  /\ received = <<>>
  /\ closed = FALSE
  /\ ended = FALSE

Write ==
  /\ ~closed
  /\ IsPrefix(written, written')
  /\ UNCHANGED <<received, closed, ended>>

Close ==
  /\ closed' = TRUE
  /\ UNCHANGED <<written, received, ended>>

(* The next units of the plaintext, as many as the caller has room for.    *)
Read ==
  /\ IsPrefix(received, received')
  /\ IsPrefix(received', written)
  /\ UNCHANGED <<written, closed, ended>>

End ==
  /\ closed /\ received = written
  /\ ended' = TRUE
  /\ UNCHANGED <<written, received, closed>>

ChannelNext == Write \/ Close \/ Read \/ End

ChannelSpec == ChannelInit /\ [][ChannelNext]_channelVars
=============================================================================
