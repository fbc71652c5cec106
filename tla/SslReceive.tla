----------------------------- MODULE SslReceive -----------------------------
(***************************************************************************)
(* ssl_stream::recv (ssl/ssl_stream.hpp) on a connection whose handshake   *)
(* is done: ciphertext comes from a raw recv through the ring into the     *)
(* read BIO, SSL_read turns complete records into plaintext.               *)
(*                                                                         *)
(* A record is a sequence of pieces, the last of which is marked; a data   *)
(* record carries one unit of plaintext in each piece (the overhead of a   *)
(* record is not kept).  A ticket is any record that SSL_read consumes     *)
(* without plaintext, such as the NewSessionTicket that follows a TLS 1.3  *)
(* handshake; "close" is close_notify; "bad" is what makes SSL_read fail   *)
(* for good, a fatal alert or a record that does not decrypt.  The peer    *)
(* writes nothing after close_notify and nothing that counts after "bad".  *)
(*                                                                         *)
(* The streams of a thread share its OpenSSL error queue: a recv that      *)
(* meets a fatal error leaves entries, the next handshake step of any of   *)
(* the streams (ssl_engine::perform) empties the queue.  recv does not,    *)
(* and SSL_get_error asks the queue first (ssl/ssl_common.hpp).            *)
(*                                                                         *)
(* Abstractions.  bio stands for the read BIO and for the part of a record *)
(* OpenSSL has taken out of it.  SSL_MODE_AUTO_RETRY is on, as by default. *)
(* leftover_ is left out: it is empty from the constructor on, and the     *)
(* branch of recv that fills it is not reached, because a buffer without   *)
(* room makes the raw recv return 0.  Buffers have room for one unit at    *)
(* least.                                                                  *)
(***************************************************************************)
EXTENDS Integers, SequencesExt

CONSTANTS
  Reader,        \* coroutines that call recv
  Room,          \* size of the caller's buffer, in units or pieces
  MaxUnits,      \* bound: units in one data record
  MaxOther,      \* bound: pieces of a record without plaintext
  MaxRecords     \* bound: records the peer writes

ASSUME ReceiveAssumption ==
  /\ Room \in Nat \ {0}
  /\ MaxUnits \in Nat \ {0}
  /\ MaxOther \in Nat \ {0}
  /\ MaxRecords \in Nat

VARIABLES
  written,       \* the plaintext the peer has written
  records,       \* number of records the peer has written
  closed,        \* has the peer written its last record, "close" or "bad"?
  wire,          \* pieces on the way to the socket and in its buffer
  transport,     \* state of the connection towards us
  op,            \* the raw recv of a reader
  cq,            \* completed raw recvs: <<reader, result, pieces>>
  bio,           \* read_bio_
  pending,       \* plaintext of the current record not read yet
  shut,          \* has SSL_read met that record, and reads no more?
  stale,         \* are there entries in the error queue of the thread?
  ret,           \* what the last recv of a reader returned
  received       \* the plaintext handed to the readers

peerVars == <<written, records, closed, wire, transport>>
sslVars == <<bio, pending, shut>>
vars == <<peerVars, op, cq, sslVars, stale, ret, received>>

ConnReset == -104

Busy == -2     \* the recv of the reader has not returned

Piece(kind, unit, last) == [kind |-> kind, unit |-> unit, last |-> last]

Pieces == [kind : {"data", "ticket", "close", "bad"}, unit : Nat, last : BOOLEAN]

TypeOK ==
  /\ written \in Seq(Nat)
  /\ records \in 0..MaxRecords
  /\ closed \in BOOLEAN
  /\ wire \in Seq(Pieces)
  /\ transport \in {"open", "eof", "reset"}
  /\ op \in [Reader -> {"none", "flight", "done"}]
  /\ cq \in Seq(Reader \X Int \X Seq(Pieces))
  /\ bio \in Seq(Pieces)
  /\ pending \in Seq(Nat)
  /\ shut \in BOOLEAN
  /\ stale \in BOOLEAN
  /\ ret \in [Reader -> {ConnReset, Busy, -1} \cup 0..Room]
  /\ received \in Seq(Nat)

Init ==
  /\ written = <<>> /\ records = 0 /\ closed = FALSE
  /\ wire = <<>> /\ transport = "open"
  /\ op = [r \in Reader |-> "none"]
  /\ cq = <<>>
  /\ bio = <<>> /\ pending = <<>> /\ shut = FALSE
  /\ stale = FALSE
  /\ ret = [r \in Reader |-> 0]
  /\ received = <<>>

-----------------------------------------------------------------------------
(* SSL_read: OpenSSL, on the records in s.                                 *)

Plaintext(record) ==
  IF Last(record).kind = "data" THEN [i \in DOMAIN record |-> record[i].unit] ELSE <<>>

Ends(s) == {i \in DOMAIN s : s[i].last}

Begin(s, e) ==
  LET before == {i \in Ends(s) : i < e}
  IN  IF before = {} THEN 1 ELSE Max(before) + 1

(* The end of the first complete record that is not consumed silently.     *)
Telling(s) == {i \in Ends(s) : s[i].kind # "ticket"}

Drop(s, n) == SubSeq(s, n + 1, Len(s))

(* Variant with a bug: the size of the buffer is not respected.            *)
TakeAll(s, n) == s

Take(s, n) == SubSeq(s, 1, Min({n, Len(s)}))

(* get_ssl_status after SSL_read: with plaintext the queue is not looked   *)
(* at; without, an entry in it is an error, and so is every SSL_read that  *)
(* meets close_notify or a fatal error, or comes after one.                *)
Status(got, end) ==
  IF got # <<>> THEN "ok" ELSE IF stale \/ end THEN "error" ELSE "want_read"

(* The plaintext, the state of the SSL object, whether entries are put     *)
(* into the error queue, and get_ssl_status after SSL_read into a buffer   *)
(* of n units, when the BIO holds s.                                       *)
SslRead(s, n) ==
  LET result(plain, rest, end, left) ==
        [got |-> Take(plain, n), bio |-> rest, pending |-> Drop(plain, n),
         shut |-> end, left |-> left, status |-> Status(Take(plain, n), end)]
  IN  CASE pending # <<>> \/ shut -> result(pending, s, shut, FALSE)
        [] pending = <<>> /\ ~shut /\ Telling(s) = {} ->
             result(<<>>, IF Ends(s) = {} THEN s ELSE Drop(s, Max(Ends(s))),
                    FALSE, FALSE)
        [] OTHER ->
             LET e == Min(Telling(s))
             IN  result(Plaintext(SubSeq(s, Begin(s, e), e)), Drop(s, e),
                        s[e].kind # "data", s[e].kind = "bad")

After(res) ==
  /\ bio' = res.bio
  /\ pending' = res.pending
  /\ shut' = res.shut
  /\ stale' = (stale \/ res.left)
  /\ received' = received \o res.got

-----------------------------------------------------------------------------
(* The caller and the loop.                                                *)

(* Variant with a bug: a raw recv without looking at the SSL object first. *)
RecvWithoutRead(r) ==
  /\ ret[r] # Busy
  /\ op' = [op EXCEPT ![r] = "flight"]
  /\ ret' = [ret EXCEPT ![r] = Busy]
  /\ UNCHANGED <<peerVars, cq, sslVars, stale, received>>

(* The call of recv up to its return or to the raw recv.  The status of    *)
(* the first SSL_read is not looked at.                                    *)
Recv(r) ==
  /\ ret[r] # Busy
  /\ \E res \in {SslRead(bio, Room)} :
       /\ After(res)
       /\ IF res.got # <<>>
            THEN /\ ret' = [ret EXCEPT ![r] = Len(res.got)]
                 /\ UNCHANGED op
            ELSE /\ ret' = [ret EXCEPT ![r] = Busy]
                 /\ op' = [op EXCEPT ![r] = "flight"]
  /\ UNCHANGED <<peerVars, cq>>

(* The kernel completes the raw recv of r with result n.                   *)
Post(r, n, pieces) ==
  /\ op[r] = "flight"
  /\ op' = [op EXCEPT ![r] = "done"]
  /\ cq' = Append(cq, <<r, n, pieces>>)
  /\ UNCHANGED <<written, records, closed, transport, sslVars, stale, ret, received>>

Arrive(r) ==
  \E n \in 1..Room :
    /\ n <= Len(wire)
    /\ Post(r, n, SubSeq(wire, 1, n))
    /\ wire' = Drop(wire, n)

Fails(r) ==
  /\ wire = <<>> /\ transport # "open"
  /\ Post(r, IF transport = "eof" THEN 0 ELSE ConnReset, <<>>)
  /\ UNCHANGED wire

(* Variants with a bug: what is in the BIO is overwritten, or read last.   *)
FeedOver(pieces) == pieces

FeedInFront(pieces) == pieces \o bio

(* BIO_write of what the raw recv returned.                                *)
Feed(pieces) == bio \o pieces

(* What recv returns after the SSL_read that follows the raw recv.         *)
Outcome(res) == IF res.status = "error" THEN -1 ELSE Len(res.got)

(* Variant with a bug: only data resumes a reader.                         *)
ResumeOnData(r) ==
  /\ cq # <<>> /\ Head(cq)[1] = r /\ Head(cq)[2] > 0
  /\ cq' = Tail(cq)
  /\ op' = [op EXCEPT ![r] = "none"]
  /\ \E res \in {SslRead(Feed(Head(cq)[3]), Room)} :
       /\ After(res)
       /\ ret' = [ret EXCEPT ![r] = Outcome(res)]
  /\ UNCHANGED peerVars

(* The loop resumes the reader whose completion is the oldest.             *)
Resume(r) ==
  /\ cq # <<>> /\ Head(cq)[1] = r
  /\ cq' = Tail(cq)
  /\ op' = [op EXCEPT ![r] = "none"]
  /\ IF Head(cq)[2] <= 0
       THEN /\ ret' = [ret EXCEPT ![r] = Head(cq)[2]]
            /\ UNCHANGED <<sslVars, stale, received>>
       ELSE \E res \in {SslRead(Feed(Head(cq)[3]), Room)} :
              /\ After(res)
              /\ ret' = [ret EXCEPT ![r] = Outcome(res)]
  /\ UNCHANGED peerVars

-----------------------------------------------------------------------------
(* The peer.                                                               *)

PeerRecord(kind, n) ==
  /\ ~closed /\ transport = "open"
  /\ records < MaxRecords
  /\ records' = records + 1
  /\ LET base == Len(written) IN
       /\ wire' = wire \o [i \in 1..n |-> Piece(kind, base + i, i = n)]
       /\ written' = IF kind = "data"
                       THEN written \o [i \in 1..n |-> base + i] ELSE written
  /\ closed' = (kind \in {"close", "bad"})
  /\ UNCHANGED <<transport, op, cq, sslVars, stale, ret, received>>

(* The peer shuts the connection down, or it breaks and what is on the way *)
(* is lost.                                                                *)
PeerStops(how) ==
  /\ transport = "open"
  /\ transport' = how
  /\ wire' = IF how = "eof" THEN wire ELSE <<>>
  /\ UNCHANGED <<written, records, closed, op, cq, sslVars, stale, ret, received>>

Peer ==
  \/ \E n \in 1..MaxUnits : PeerRecord("data", n)
  \/ \E kind \in {"ticket", "close", "bad"}, n \in 1..MaxOther : PeerRecord(kind, n)
  \/ \E how \in {"eof", "reset"} : PeerStops(how)

-----------------------------------------------------------------------------
(* The other streams of the thread: a recv that meets a fatal error, a     *)
(* step of a handshake.                                                    *)
OtherFails ==
  /\ stale' = TRUE
  /\ UNCHANGED <<peerVars, op, cq, sslVars, ret, received>>

OtherPerforms ==
  /\ stale' = FALSE
  /\ UNCHANGED <<peerVars, op, cq, sslVars, ret, received>>

Next ==
  \/ Peer
  \/ OtherFails \/ OtherPerforms
  \/ \E r \in Reader : Recv(r) \/ Arrive(r) \/ Fails(r) \/ Resume(r)

Spec == Init /\ [][Next]_vars

(* The kernel completes a raw recv when there is something to report, and  *)
(* the loop handles every completion.                                      *)
Fairness ==
  /\ \A r \in Reader : WF_vars(Arrive(r) \/ Fails(r))
  /\ WF_vars(\E r \in Reader : Resume(r))

FairSpec == Spec /\ Fairness

-----------------------------------------------------------------------------
(* Everything the peer has written is received, decrypted, in the BIO, in  *)
(* a completion or on the wire, once and in this order, until the          *)
(* connection breaks: whichever reader gets a piece, and however records   *)
(* and raw recvs overlap, recv loses, repeats and reorders nothing.        *)
Units(s) ==
  FlattenSeq([i \in DOMAIN s |-> IF s[i].kind = "data" THEN <<s[i].unit>> ELSE <<>>])

Completions == FlattenSeq([i \in DOMAIN cq |-> cq[i][3]])

NothingLost ==
  transport # "reset" =>
    written = received \o pending \o Units(bio \o Completions \o wire)

(* Plaintext that a recv could have, in the SSL object or in complete      *)
(* records in the BIO.                                                     *)
AtHand == SslRead(bio, Room).got # <<>>

(* Plaintext is never at hand while every reader waits for the network,    *)
(* and no reader begins to wait with plaintext at hand: a peer that waits  *)
(* for an answer to it gets one.  (A reader that waits is not woken by     *)
(* what another one has put into the BIO: that one has returned, and its   *)
(* next recv takes it.)                                                    *)
NoStall ==
  /\ [](AtHand => \E r \in Reader : ret[r] # Busy)
  /\ [][\A r \in Reader : op[r] # "flight" /\ op'[r] = "flight" => ~AtHand']_vars

(* recv implements the channel: in order, without gaps, and the end, also  *)
(* that by a fatal error, is met only after all of the plaintext.          *)
Channel == INSTANCE SecureChannel WITH ended <- shut

ImplementsChannel == Channel!ChannelSpec

(* A recv that waits returns when anything arrives or the connection ends. *)
RecvReturns ==
  \A r \in Reader :
    (ret[r] = Busy /\ (wire # <<>> \/ transport # "open"))
      ~> (ret[r] # Busy \/ (wire = <<>> /\ transport = "open"))

(* What the callers in the repository take a result of 0 for: the end of   *)
(* the stream.                                                             *)
ZeroMeansEof ==
  [][\A r \in Reader : ret[r] = Busy /\ ret'[r] = 0 => transport = "eof"]_vars
=============================================================================
