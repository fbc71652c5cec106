---------------------------- MODULE SslHandshake ----------------------------
(***************************************************************************)
(* ssl_stream::handshake (ssl/ssl_stream.hpp) and ssl_engine::perform      *)
(* (ssl/ssl_engine.hpp), run by a client and a server that are connected   *)
(* to each other.                                                          *)
(*                                                                         *)
(* OpenSSL is a script of flights: an endpoint writes a flight when it has *)
(* processed the one before, and refuses one of its peer (a bad            *)
(* certificate, no common cipher) by writing an alert.  Script, Size and   *)
(* Versions are parameters: in TLS 1.3 the client is done when it has      *)
(* written its Finished, the server when it has written its tickets, in    *)
(* TLS 1.2 the client waits for the Finished of the server.                *)
(*                                                                         *)
(* Abstractions.  A piece of ciphertext is <<flight, last>>.  raw sends    *)
(* and recvs complete in the step in which the loop resumes the coroutine. *)
(* A raw send of the handshake takes at least one piece or fails.          *)
(***************************************************************************)
EXTENDS Naturals, SequencesExt

CONSTANTS
  Script,        \* the endpoint that writes each flight
  Size,          \* the pieces of each flight
  Versions,      \* what done may be
  Chunk,         \* size of buf (4096), in pieces
  MayBreak       \* may the connection break?

Endpoint == {"client", "server"}

ASSUME HandshakeAssumption ==
  /\ Script \in Seq(Endpoint)
  /\ \A i \in 1..(Len(Script) - 1) : Script[i] # Script[i + 1]
  /\ Size \in [DOMAIN Script -> Nat \ {0}]
  /\ Versions \subseteq [Endpoint -> 1..Len(Script)]
  /\ Chunk \in Nat \ {0}
  /\ MayBreak \in BOOLEAN

VARIABLES
  done,          \* the flights an endpoint has to process
  pos,           \* flights the SSL object of an endpoint has processed
  failed,        \* has the SSL object failed?
  errors,        \* entries in the error queue of OpenSSL
  rbio,          \* read_bio_
  wbio,          \* write_bio_
  buf,           \* the part of buf an endpoint has left to send
  pc,            \* where handshake is
  ret,           \* its result
  code,          \* its error code, 0 or not
  wire,          \* pieces on the way to an endpoint
  eof,           \* does the connection end behind them?
  app            \* has the caller of an endpoint sent data?

vars == <<done, pos, failed, errors, rbio, wbio, buf, pc, ret, code, wire, eof, app>>

Alert == 0
App == Len(Script) + 1

Pieces == (0..App) \X BOOLEAN

TypeOK ==
  /\ done \in Versions
  /\ pos \in [Endpoint -> 0..Len(Script)]
  /\ failed \in [Endpoint -> BOOLEAN]
  /\ errors \in [Endpoint -> Nat]
  /\ rbio \in [Endpoint -> Seq(Pieces)]
  /\ wbio \in [Endpoint -> Seq(Pieces)]
  /\ buf \in [Endpoint -> Seq(Pieces)]
  /\ \A e \in Endpoint : Len(buf[e]) <= Chunk /\ (buf[e] # <<>> => pc[e] = "send")
  /\ pc \in [Endpoint -> {"perform", "recv", "send", "return"}]
  /\ ret \in [Endpoint -> {"none", "ok", "ssl_error", "eof", "sys_error"}]
  /\ code \in [Endpoint -> 0..1]
  /\ wire \in [Endpoint -> Seq(Pieces)]
  /\ eof \in [Endpoint -> BOOLEAN]
  /\ app \in [Endpoint -> BOOLEAN]

Init ==
  /\ done \in Versions
  /\ pos = [e \in Endpoint |-> 0]
  /\ failed = [e \in Endpoint |-> FALSE]
  /\ errors = [e \in Endpoint |-> 0]
  /\ rbio = [e \in Endpoint |-> <<>>]
  /\ wbio = [e \in Endpoint |-> <<>>]
  /\ buf = [e \in Endpoint |-> <<>>]
  /\ pc = [e \in Endpoint |-> "perform"]
  /\ ret = [e \in Endpoint |-> "none"]
  /\ code = [e \in Endpoint |-> 0]
  /\ wire = [e \in Endpoint |-> <<>>]
  /\ eof = [e \in Endpoint |-> FALSE]
  /\ app = [e \in Endpoint |-> FALSE]

Peer(e) == CHOOSE p \in Endpoint : p # e

Drop(s, n) == SubSeq(s, n + 1, Len(s))

(* Variant with a bug: the size of buf is not respected.                   *)
TakeAll(s, n) == s

Take(s, n) == SubSeq(s, 1, Min({n, Len(s)}))

-----------------------------------------------------------------------------
(* SSL_connect and SSL_accept: OpenSSL.                                    *)

Flight(n) == [i \in 1..Size[n] |-> <<n, i = Size[n]>>]

Writes(e, n) == n <= done[e] /\ Script[n] = e

(* SSL_connect or SSL_accept goes as far as it can: the next flight is     *)
(* written, or it is there and is accepted (and answered) or refused.      *)
Operation(e) ==
  LET n    == pos[e] + 1
      live == ~failed[e] /\ pos[e] < done[e]
      end  == SelectInSeq(rbio[e], LAMBDA p : p = <<n, TRUE>>)
      rest == Drop(rbio[e], end)
      ssl(p, in, more, f, errs) == [pos |-> p, in |-> in, out |-> wbio[e] \o more,
                                    failed |-> f, errors |-> errs]
      write  == IF live /\ Writes(e, n)
                  THEN {ssl(n, rbio[e], Flight(n), FALSE, 0)} ELSE {}
      accept == IF live /\ end > 0
                  THEN {IF Writes(e, n + 1)
                          THEN ssl(n + 1, rest, Flight(n + 1), FALSE, 0)
                          ELSE ssl(n, rest, <<>>, FALSE, 0)} ELSE {}
      refuse == IF live /\ end > 0
                  THEN {ssl(pos[e], rest, <<<<Alert, TRUE>>>>, TRUE, 1)} ELSE {}
      told   == IF live /\ end = 0 /\ <<Alert, TRUE>> \in ToSet(rbio[e])
                  THEN {ssl(pos[e], rbio[e], <<>>, TRUE, 1)} ELSE {}
      moves  == write \cup accept \cup refuse \cup told
  IN  IF moves # {} THEN moves
                    ELSE {ssl(pos[e], rbio[e], <<>>, failed[e], 0)}

-----------------------------------------------------------------------------
(* ssl_engine::perform.                                                    *)

(* ERR_get_error takes the oldest entry of the queue, ERR_print_errors_fp  *)
(* the others.                                                             *)
Drained(n) == 0

(* Variants with a bug: the result of the operation is looked at before    *)
(* the pending output.                                                     *)
StatusResultFirst(e, o) ==
  IF o.failed THEN "error"
  ELSE IF o.pos = done[e] THEN "ok"
  ELSE IF o.out # <<>> THEN "want_write"
  ELSE "want_read"

StatusReadFirst(e, o) ==
  IF ~o.failed /\ o.pos < done[e] THEN "want_read"
  ELSE IF o.out # <<>> THEN "want_write"
  ELSE IF o.failed THEN "error"
  ELSE "ok"

(* Variant with a bug: an operation that waits for the peer is taken for   *)
(* one that has succeeded.                                                 *)
StatusNoWait(e, o) ==
  IF o.out # <<>> THEN "want_write"
  ELSE IF o.failed THEN "error"
  ELSE "ok"

(* Pending output comes first, whatever the result of the operation is.    *)
Status(e, o) ==
  IF o.out # <<>> THEN "want_write"
  ELSE IF o.failed THEN "error"
  ELSE IF o.pos = done[e] THEN "ok"
  ELSE "want_read"

-----------------------------------------------------------------------------
(* ssl_stream::handshake.                                                  *)

Return(e, r) ==
  /\ ret' = [ret EXCEPT ![e] = r]
  /\ pc' = [pc EXCEPT ![e] = "return"]

(* Where the switch on the status leads to.                                *)
Switch(e, o, status) ==
  \/ /\ status = "ok"
     /\ Return(e, "ok") /\ UNCHANGED <<code, buf>>
     /\ wbio' = [wbio EXCEPT ![e] = o.out]
  \/ /\ status = "error"
     /\ Return(e, "ssl_error") /\ UNCHANGED buf
     /\ code' = [code EXCEPT ![e] = IF errors'[e] = 0 THEN 0 ELSE 1]
     /\ wbio' = [wbio EXCEPT ![e] = o.out]
  \/ /\ status = "want_read"
     /\ pc' = [pc EXCEPT ![e] = "recv"]
     /\ wbio' = [wbio EXCEPT ![e] = o.out]
     /\ UNCHANGED <<ret, code, buf>>
  \/ /\ status = "want_write"
     /\ pc' = [pc EXCEPT ![e] = "send"]
     /\ buf' = [buf EXCEPT ![e] = Take(o.out, Chunk)]
     /\ wbio' = [wbio EXCEPT ![e] = Drop(o.out, Chunk)]
     /\ UNCHANGED <<ret, code>>

(* Variant with a bug: what is left in the BIO is cleared with success.    *)
PerformClear(e) ==
  /\ pc[e] = "perform"
  /\ \E o \in Operation(e) :
       /\ pos' = [pos EXCEPT ![e] = o.pos]
       /\ failed' = [failed EXCEPT ![e] = o.failed]
       /\ rbio' = [rbio EXCEPT ![e] = IF Status(e, o) = "ok" THEN <<>> ELSE o.in]
       /\ errors' = [errors EXCEPT ![e] = Drained(errors[e] + o.errors)]
       /\ Switch(e, o, Status(e, o))
  /\ UNCHANGED <<done, wire, eof, app>>

Perform(e) ==
  /\ pc[e] = "perform"
  /\ \E o \in Operation(e) :
       /\ pos' = [pos EXCEPT ![e] = o.pos]
       /\ failed' = [failed EXCEPT ![e] = o.failed]
       /\ rbio' = [rbio EXCEPT ![e] = o.in]
       /\ errors' = [errors EXCEPT ![e] = Drained(errors[e] + o.errors)]
       /\ Switch(e, o, Status(e, o))
  /\ UNCHANGED <<done, wire, eof, app>>

RawRecv(e) ==
  /\ pc[e] = "recv"
  /\ \E n \in 1..Min({Chunk, Len(wire[e])}) :
       /\ rbio' = [rbio EXCEPT ![e] = @ \o Take(wire[e], n)]
       /\ wire' = [wire EXCEPT ![e] = Drop(wire[e], n)]
  /\ pc' = [pc EXCEPT ![e] = "perform"]
  /\ UNCHANGED <<done, pos, failed, errors, wbio, buf, ret, code, eof, app>>

(* The peer has closed the connection and everything is read (0).          *)
RecvEof(e) ==
  /\ pc[e] = "recv"
  /\ wire[e] = <<>> /\ eof[e]
  /\ Return(e, "eof")
  /\ UNCHANGED <<done, pos, failed, errors, rbio, wbio, buf, code, wire, eof, app>>

(* The connection breaks (less than 0).                                    *)
RecvFails(e) ==
  /\ pc[e] = "recv"
  /\ MayBreak
  /\ Return(e, "sys_error")
  /\ UNCHANGED <<done, pos, failed, errors, rbio, wbio, buf, code, wire, eof, app>>

RawSend(e) ==
  /\ pc[e] = "send"
  /\ \E n \in 1..Len(buf[e]) :
       /\ wire' = [wire EXCEPT ![Peer(e)] = @ \o Take(buf[e], n)]
       /\ buf' = [buf EXCEPT ![e] = Drop(buf[e], n)]
       /\ pc' = [pc EXCEPT ![e] = IF n = Len(buf[e]) THEN "perform" ELSE "send"]
  /\ UNCHANGED <<done, pos, failed, errors, rbio, wbio, ret, code, eof, app>>

SendFails(e) ==
  /\ pc[e] = "send"
  /\ MayBreak \/ eof[e]
  /\ Return(e, "sys_error")
  /\ buf' = [buf EXCEPT ![e] = <<>>]
  /\ UNCHANGED <<done, pos, failed, errors, rbio, wbio, code, wire, eof, app>>

-----------------------------------------------------------------------------
(* The callers: a stream whose handshake has failed is destroyed, one that *)
(* has succeeded is written to, while the peer may still be at it.         *)
Close(e) ==
  /\ ret[e] \notin {"none", "ok"}
  /\ ~eof[Peer(e)]
  /\ eof' = [eof EXCEPT ![Peer(e)] = TRUE]
  /\ UNCHANGED <<done, pos, failed, errors, rbio, wbio, buf, pc, ret, code, wire, app>>

SendApp(e) ==
  /\ ret[e] = "ok" /\ ~app[e]
  /\ app' = [app EXCEPT ![e] = TRUE]
  /\ wire' = [wire EXCEPT ![Peer(e)] = Append(@, <<App, TRUE>>)]
  /\ UNCHANGED <<done, pos, failed, errors, rbio, wbio, buf, pc, ret, code, eof>>

Next ==
  \E e \in Endpoint :
    \/ Perform(e) \/ RawRecv(e) \/ RecvEof(e) \/ RecvFails(e) \/ RawSend(e)
    \/ SendFails(e) \/ Close(e) \/ SendApp(e)

Spec == Init /\ [][Next]_vars

(* The loop resumes a coroutine whose raw recv or send has completed, a    *)
(* connection carries what is sent, and a failed handshake closes it.  It  *)
(* may break, but nothing relies on that.                                  *)
Fairness ==
  \A e \in Endpoint :
    /\ WF_vars(Perform(e))
    /\ WF_vars(RawRecv(e)) /\ WF_vars(RecvEof(e))
    /\ WF_vars(RawSend(e))
    /\ WF_vars(Close(e))

FairSpec == Spec /\ Fairness

-----------------------------------------------------------------------------
(* handshake returns from the TLS engine, with success or an error, only   *)
(* when all of its flights, or its alert, are handed to the transport: the *)
(* peer can finish, or learn why not.                                      *)
ReturnedFlushed ==
  \A e \in Endpoint :
    ret[e] \in {"ok", "ssl_error"} => wbio[e] = <<>> /\ buf[e] = <<>>

(* A handshake succeeds only if the peer has written and not refused all   *)
(* the flights it needs: success on both sides is possible from there on.  *)
SuccessIsShared ==
  \A e \in Endpoint : ret[e] = "ok" => pos[Peer(e)] >= done[e] - 1

(* What a peer that is done sends behind its last flight may be read by    *)
(* the handshake; it stays in the BIO for the first recv.                  *)
AppDataKept ==
  \A e \in Endpoint :
    app[Peer(e)] => <<App, TRUE>> \in ToSet(rbio[e]) \cup ToSet(wire[e])

(* Both sides return: they do not wait for each other, because neither     *)
(* waits while it has output, and a failed side closes the connection.     *)
BothReturn == \A e \in Endpoint : <>(ret[e] # "none")

(* The comment "log ssl error" on the error branch of handshake, and the   *)
(* caller that logs the error code and its message: a handshake that TLS   *)
(* has failed reports an error.                                            *)
FailureNamesError ==
  \A e \in Endpoint : ret[e] = "ssl_error" => code[e] # 0
=============================================================================
