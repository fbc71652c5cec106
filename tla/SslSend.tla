------------------------------ MODULE SslSend ------------------------------
(***************************************************************************)
(* ssl_stream::send (ssl/ssl_stream.hpp): SSL_write puts the whole buffer  *)
(* of the caller as ciphertext into the write BIO, then the coroutine      *)
(* moves the BIO chunk by chunk through its write_buf to raw sends, which  *)
(* may take less than they are given.  The coroutine is suspended in every *)
(* raw send, and other coroutines may call send meanwhile.                 *)
(*                                                                         *)
(* breach records what the callers do that send cannot cope with:          *)
(*   "concurrent"     send was called while another send had not returned  *)
(*   "after_failure"  send was called after a send had failed              *)
(*                                                                         *)
(* A coroutine inside recv may add to the write BIO at any time: SSL_read  *)
(* answers a KeyUpdate of the peer, and nobody but send sends the answer.  *)
(*                                                                         *)
(* Abstractions.  A piece of ciphertext is <<n, i>>, the i-th piece of     *)
(* what the n-th call of send has produced, or <<0, i>> for the i-th       *)
(* answer of recv, which has one piece.  SSL_write does not fail, as       *)
(* it does not on a memory BIO before the stream is shut down (the throw   *)
(* of send is left out), and it takes the whole buffer, as it does without *)
(* SSL_MODE_ENABLE_PARTIAL_WRITE.                                          *)
(***************************************************************************)
EXTENDS Integers, SequencesExt

CONSTANTS
  Sender,        \* coroutines that call send
  Chunk,         \* size of write_buf (4096), in pieces
  MaxPieces,     \* bound: ciphertext of one call, in pieces
  MaxCalls,      \* bound: calls of send
  MaxAnswers     \* bound: answers written by SSL_read

ASSUME SendAssumption ==
  /\ Chunk \in Nat \ {0}
  /\ MaxPieces \in Nat \ {0}
  /\ MaxCalls \in Nat
  /\ MaxAnswers \in Nat

VARIABLES
  calls,         \* number of calls of send so far
  answers,       \* number of answers so far
  produced,      \* all the ciphertext SSL_write has put into the BIO
  bio,           \* write_bio_
  chunk,         \* what is left to send of the write_buf of a sender
  op,            \* the raw send of a sender
  cq,            \* completed raw sends: <<sender, result>>
  wire,          \* what the transport has accepted
  call,          \* the last call of send of a sender
  ret,           \* its result
  breach

vars == <<calls, answers, produced, bio, chunk, op, cq, wire, call, ret,
          breach>>

TypeOK ==
  LET Pieces == ((1..MaxCalls) \X (1..MaxPieces)) \cup
                ({0} \X (1..MaxAnswers)) IN
    /\ calls \in 0..MaxCalls
    /\ answers \in 0..MaxAnswers
    /\ produced \in Seq(Pieces) /\ bio \in Seq(Pieces) /\ wire \in Seq(Pieces)
    /\ chunk \in [Sender -> Seq(Pieces)]
    /\ \A s \in Sender : Len(chunk[s]) <= Chunk
    /\ op \in [Sender -> {"none", "flight", "done"}]
    /\ cq \in Seq(Sender \X Int)
    /\ call \in [Sender -> 0..MaxCalls]
    /\ ret \in [Sender -> {"none", "busy", "ok", "failed"}]
    /\ breach \subseteq {"concurrent", "after_failure"}

Init ==
  /\ calls = 0 /\ answers = 0
  /\ produced = <<>> /\ bio = <<>> /\ wire = <<>>
  /\ chunk = [s \in Sender |-> <<>>]
  /\ op = [s \in Sender |-> "none"]
  /\ cq = <<>>
  /\ call = [s \in Sender |-> 0]
  /\ ret = [s \in Sender |-> "none"]
  /\ breach = {}

Drop(s, n) == SubSeq(s, n + 1, Len(s))

Take(s, n) == SubSeq(s, 1, Min({n, Len(s)}))

-----------------------------------------------------------------------------
(* Variant with a bug: the size of write_buf is not respected.             *)
ReadAll(s, output) ==
  /\ chunk' = [chunk EXCEPT ![s] = output]
  /\ bio' = <<>>
  /\ op' = [op EXCEPT ![s] = "flight"]

(* BIO_read of the next chunk of the output, and the raw send of it.       *)
ReadChunk(s, output) ==
  /\ chunk' = [chunk EXCEPT ![s] = Take(output, Chunk)]
  /\ bio' = Drop(output, Chunk)
  /\ op' = [op EXCEPT ![s] = "flight"]

CallBreach(s) ==
  {b \in {"concurrent", "after_failure"} :
     \/ b = "concurrent" /\ \E z \in Sender \ {s} : ret[z] = "busy"
     \/ b = "after_failure" /\ \E z \in Sender : ret[z] = "failed"}

(* The call of send up to the first raw send.                              *)
Send(s, n) ==
  /\ ret[s] # "busy"
  /\ calls < MaxCalls
  /\ calls' = calls + 1
  /\ call' = [call EXCEPT ![s] = calls + 1]
  /\ ret' = [ret EXCEPT ![s] = "busy"]
  /\ breach' = breach \cup CallBreach(s)
  /\ LET record == [i \in 1..n |-> <<calls + 1, i>>] IN
       /\ produced' = produced \o record
       /\ ReadChunk(s, bio \o record)
  /\ UNCHANGED <<answers, cq, wire>>

(* Variant with a bug: the output of SSL_read goes past the BIO.           *)
AnswerAtOnce ==
  /\ answers < MaxAnswers
  /\ answers' = answers + 1
  /\ produced' = Append(produced, <<0, answers + 1>>)
  /\ wire' = Append(wire, <<0, answers + 1>>)
  /\ UNCHANGED <<calls, bio, chunk, op, cq, call, ret, breach>>

(* SSL_read, called by recv, leaves an answer in the BIO.                  *)
Answer ==
  /\ answers < MaxAnswers
  /\ answers' = answers + 1
  /\ produced' = Append(produced, <<0, answers + 1>>)
  /\ bio' = Append(bio, <<0, answers + 1>>)
  /\ UNCHANGED <<calls, chunk, op, cq, wire, call, ret, breach>>

(* The kernel completes the raw send of s: it takes n pieces, or fails.    *)
Accept(s, n) ==
  /\ op[s] = "flight"
  /\ n \in 0..Len(chunk[s])
  /\ op' = [op EXCEPT ![s] = "done"]
  /\ cq' = Append(cq, <<s, IF n = 0 THEN -1 ELSE n>>)
  /\ wire' = wire \o Take(chunk[s], n)
  /\ UNCHANGED <<calls, answers, produced, bio, chunk, call, ret, breach>>

(* Variants with a bug: bytes_sent is forgotten; a short raw send is taken *)
(* for a complete one.                                                     *)
RestFromStart(s, n) == IF n < Len(chunk[s]) THEN chunk[s] ELSE <<>>

RestIgnored(s, n) == <<>>

(* What the raw send of s has left of the chunk.                           *)
Rest(s, n) == Drop(chunk[s], n)

Resumed(s) ==
  /\ cq # <<>> /\ Head(cq)[1] = s
  /\ cq' = Tail(cq)

Return(s, r) ==
  /\ ret' = [ret EXCEPT ![s] = r]
  /\ op' = [op EXCEPT ![s] = "none"]
  /\ chunk' = [chunk EXCEPT ![s] = <<>>]

(* Variant with a bug: a failed raw send is tried again.                   *)
SendAgain(s) ==
  /\ Resumed(s) /\ Head(cq)[2] <= 0
  /\ op' = [op EXCEPT ![s] = "flight"]
  /\ UNCHANGED <<calls, answers, produced, bio, chunk, wire, call, ret,
                 breach>>

(* The raw send has failed: send returns its result; the rest of the chunk *)
(* goes with write_buf, the rest of the output stays in the BIO.           *)
SendFails(s) ==
  /\ Resumed(s) /\ Head(cq)[2] <= 0
  /\ Return(s, "failed")
  /\ UNCHANGED <<calls, answers, produced, bio, wire, call, breach>>

(* A short raw send: the inner loop sends the rest of the chunk.           *)
SendRest(s) ==
  /\ Resumed(s) /\ Head(cq)[2] > 0
  /\ Rest(s, Head(cq)[2]) # <<>>
  /\ chunk' = [chunk EXCEPT ![s] = Rest(s, Head(cq)[2])]
  /\ op' = [op EXCEPT ![s] = "flight"]
  /\ UNCHANGED <<calls, answers, produced, bio, wire, call, ret, breach>>

(* Variant with a bug: one chunk is read and no more.                      *)
SendOneChunk(s) ==
  /\ Resumed(s) /\ Head(cq)[2] > 0
  /\ Rest(s, Head(cq)[2]) = <<>>
  /\ Return(s, "ok") /\ UNCHANGED bio
  /\ UNCHANGED <<calls, answers, produced, wire, call, breach>>

(* The chunk is sent: the outer loop goes on until the BIO is empty.       *)
SendNext(s) ==
  /\ Resumed(s) /\ Head(cq)[2] > 0
  /\ Rest(s, Head(cq)[2]) = <<>>
  /\ IF bio # <<>>
       THEN ReadChunk(s, bio) /\ UNCHANGED ret
       ELSE Return(s, "ok") /\ UNCHANGED bio
  /\ UNCHANGED <<calls, answers, produced, wire, call, breach>>

Resume(s) == SendFails(s) \/ SendRest(s) \/ SendNext(s)

Next ==
  \/ Answer
  \/ \E s \in Sender :
       \/ \E n \in 1..MaxPieces : Send(s, n)
       \/ \E n \in 0..Chunk : Accept(s, n)
       \/ Resume(s)

Spec == Init /\ [][Next]_vars

(* The peer keeps reading, so that the kernel completes every raw send,    *)
(* and the loop handles every completion.                                  *)
Fairness ==
  \A s \in Sender :
    WF_vars(\E n \in 0..Chunk : Accept(s, n)) /\ WF_vars(Resume(s))

FairSpec == Spec /\ Fairness

-----------------------------------------------------------------------------
(* With one send at a time and none after a failure, the transport gets a  *)
(* prefix of the ciphertext, so that every record the peer decrypts is     *)
(* intact and in its place: short raw sends, chunks and records agree,     *)
(* although recv adds records of its own between two raw sends.            *)
WireIsPrefix == breach = {} => IsPrefix(wire, produced)

(* A send that reports success has handed its ciphertext to the transport, *)
(* and with it all the answers that waited in the BIO when it was called.  *)
(* Of two concurrent sends one can return while the other has its last     *)
(* chunk.                                                                  *)
SuccessMeansSent ==
  breach = {} =>
    \A s \in Sender : ret[s] = "ok" =>
      \A i, k \in DOMAIN produced :
        i <= k /\ produced[k][1] = call[s]
          => \E j \in DOMAIN wire : wire[j] = produced[i]

(* Even of concurrent sends: when all have returned and none has failed,   *)
(* all ciphertext is sent, once, but for answers that came too late.       *)
QuietMeansSent ==
  (\A s \in Sender : ret[s] \notin {"busy", "failed"})
    /\ "after_failure" \notin breach
    => /\ Len(wire) + Len(bio) = Len(produced)
       /\ ToSet(wire \o bio) = ToSet(produced)
       /\ ToSet(bio) \subseteq {0} \X (1..answers)

(* The other coroutines put something into the BIO: an answer of recv, the *)
(* record of another send.                                                 *)
Refill(s) ==
  Answer \/ \E z \in Sender \ {s}, n \in 1..MaxPieces : Send(z, n)

(* A send returns unless the others refill the BIO for ever: its loops end *)
(* with what it finds there, or with a failed raw send.  Nothing in the    *)
(* code limits the refills (a second sender that calls send again and      *)
(* again keeps the first one sending), so none is promised without it.     *)
SendReturns ==
  \A s \in Sender :
    []<><<Refill(s)>>_vars \/ (ret[s] = "busy" ~> ret[s] # "busy")
=============================================================================
