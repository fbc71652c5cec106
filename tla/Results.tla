------------------------------ MODULE Results ------------------------------
(***************************************************************************)
(* How the outcome of an operation reaches its caller: the result of a     *)
(* completion or of a system call, what await_resume, server_socket and    *)
(* ssl_stream::handshake make of it, and what error().message() then says  *)
(* (error_code.hpp, error_code.cpp).                                       *)
(*                                                                         *)
(* A request that finds no SQE is ready at once with -10086; made tells    *)
(* whether the kernel has ever seen the operation.                         *)
(***************************************************************************)
EXTENDS Integers

CONSTANTS
  Errno,         \* error numbers of the kernel, of 1..4095, with ETIME
  MaxCount       \* bound: what a successful transfer or accept returns

ETIME == 62      \* asm-generic/errno.h

E_TASK_FINISH == 10086
E_TASK_CANCEL == 10087
E_SSL_HANDSHAKE_SOCKET_READ_EOF == 10091

VARIABLES
  op,            \* the operation under way
  phase,         \* "idle", "flight", "ready" or "returned"
  made,          \* did the kernel see it?
  res,           \* result of the completion; of a system call: -errno
  got            \* what the caller of the operation has

vars == <<op, phase, made, res, got>>

SysOp == {"setsockopt", "bind", "listen"}

RingOp == {"accept", "connect", "read", "write", "recv", "send", "timeout",
           "handshake_recv", "handshake_send"}

Success(n) == [kind |-> "value", code |-> n]

(* make_sys_error and make_custom_error.                                   *)
SysError(n) == [kind |-> "system", code |-> n]
KkpError(n) == [kind |-> "kkp", code |-> n]

TypeOK ==
  /\ op \in SysOp \cup RingOp \cup {"none"}
  /\ phase \in {"idle", "flight", "ready", "returned"}
  /\ made \in BOOLEAN
  /\ res \in (-E_TASK_FINISH)..MaxCount
  /\ got \in [kind : {"value", "system", "kkp"}, code : Int]
  /\ got.kind = "kkp" =>
       got.code \in E_TASK_FINISH..E_SSL_HANDSHAKE_SOCKET_READ_EOF

Init ==
  /\ op = "none" /\ phase = "idle" /\ made = FALSE
  /\ res = 0 /\ got = Success(0)

-----------------------------------------------------------------------------
(* What the kernel may report; a timeout never ends with a count.          *)
Outcomes(o) ==
  {-e : e \in Errno} \cup
  CASE o = "timeout"         -> {}
    [] o \in SysOp           -> {0}
    [] OTHER                 -> 0..MaxCount

(* The system call and its -errno.                                         *)
Call(o) ==
  /\ phase = "idle" /\ o \in SysOp
  /\ op' = o /\ phase' = "ready" /\ made' = TRUE
  /\ res' \in Outcomes(o)
  /\ UNCHANGED got

Submit(o) ==
  /\ phase = "idle" /\ o \in RingOp
  /\ op' = o /\ phase' = "flight" /\ made' = TRUE
  /\ UNCHANGED <<res, got>>

(* The awaiter finds the SQ full.                                          *)
Reject(o) ==
  /\ phase = "idle" /\ o \in RingOp
  /\ op' = o /\ phase' = "ready" /\ made' = FALSE
  /\ res' = -E_TASK_FINISH
  /\ UNCHANGED got

Complete ==
  /\ phase = "flight" /\ phase' = "ready"
  /\ res' \in Outcomes(op)
  /\ UNCHANGED <<op, made, got>>

(* await_resume of the awaiters, class by class.                           *)
AcceptResult(r) == IF r > 0 THEN Success(r) ELSE SysError(r)

ConnectResult(r) == IF r >= 0 THEN Success(r) ELSE SysError(r)

ReadResult(r) == IF r >= 0 THEN Success(r) ELSE SysError(-r)

(* Variant with a bug: a timeout that ends has expired.                    *)
TimeoutAnyEnd(r) == Success(0)

TimeoutResult(r) == IF r = -ETIME THEN Success(0) ELSE SysError(-r)

RecvResult(r) == Success(r)
SendResult(r) == Success(r)
WriteResult(r) == Success(r)

AwaitResume(o, r) ==
  CASE o = "accept"  -> AcceptResult(r)
    [] o = "connect" -> ConnectResult(r)
    [] o = "read"    -> ReadResult(r)
    [] o = "timeout" -> TimeoutResult(r)
    [] o = "write"   -> WriteResult(r)
    [] o \in {"recv", "handshake_recv"} -> RecvResult(r)
    [] o \in {"send", "handshake_send"} -> SendResult(r)

(* server_socket: a failing system call returns -1; only the failure of    *)
(* ::bind is looked up in errno.                                           *)
BindResult(o, r) ==
  IF r = 0 THEN Success(0) ELSE SysError(IF o = "setsockopt" THEN -1 ELSE r)

ListenResult(r) == IF r = 0 THEN Success(0) ELSE SysError(-1)

CallResult(o, r) == IF o = "listen" THEN ListenResult(r) ELSE BindResult(o, r)

(* What handshake makes of its raw transfers; a success lets it go on.     *)
HandshakeResult(o, r) ==
  IF r = 0 /\ o = "handshake_recv"
    THEN KkpError(E_SSL_HANDSHAKE_SOCKET_READ_EOF)
    ELSE IF r < 0 THEN SysError(-r) ELSE Success(r)

Return ==
  /\ phase = "ready" /\ phase' = "returned"
  /\ got' = CASE op \in SysOp -> CallResult(op, res)
              [] op \in {"handshake_recv", "handshake_send"} ->
                   HandshakeResult(op, AwaitResume(op, res).code)
              [] OTHER -> AwaitResume(op, res)
  /\ UNCHANGED <<op, made, res>>

NextCall ==
  /\ phase = "returned" /\ phase' = "idle"
  /\ UNCHANGED <<op, made, res, got>>

Next ==
  \/ \E o \in SysOp : Call(o)
  \/ \E o \in RingOp : Submit(o) \/ Reject(o)
  \/ Complete \/ Return \/ NextCall

Spec == Init /\ [][Next]_vars

-----------------------------------------------------------------------------
(* What error().message() says: of a system error the text of that error   *)
(* number, if there is one; of the library's own the text of its table.    *)
Message(e) ==
  IF e.kind = "system"
    THEN <<IF e.code \in Errno THEN "errno" ELSE "unknown", e.code>>
    ELSE IF e.code \in {E_TASK_FINISH, E_TASK_CANCEL}
           THEN <<"table", e.code>> ELSE <<"unknown", e.code>>

Failed == phase = "returned" /\ res < 0 /\ ~(op = "timeout" /\ res = -ETIME)

(* What was asked for has been done: a delay has elapsed, anything else    *)
(* ended without an error.  A raw recv of nothing is the end of the        *)
(* stream, which fails a handshake; recv leaves it to its caller.          *)
Succeeded ==
  /\ phase = "returned" /\ made
  /\ IF op = "timeout" THEN res = -ETIME
     ELSE res >= 0 /\ ~(op = "handshake_recv" /\ res = 0)

(* The caller has a success: a value that is not negative.                 *)
ToldSuccess == got.kind = "value" /\ got.code >= 0

AcceptedZero == op = "accept" /\ made /\ res = 0

(* An operation is reported as a success exactly if it was one, through    *)
(* all the conversions, with one exception: an accept whose connection got *)
(* descriptor 0 is reported as system error 0 (socket.hpp:119).            *)
SuccessIsTold ==
  phase = "returned" =>
    IF AcceptedZero THEN got = SysError(0) ELSE ToldSuccess <=> Succeeded

(* A caller is told 10086, as an error or with a minus sign, exactly if    *)
(* the kernel has not seen the request, so that it can be told from every  *)
(* failure of the kernel and from a transfer of 10086 bytes (base_uring_-  *)
(* awaiter.hpp:22).                                                        *)
RefusalIsKnown ==
  phase = "returned" =>
    (~made <=> \/ got.code = -E_TASK_FINISH
               \/ got.code = E_TASK_FINISH /\ got.kind # "value")

(* The errno of a failure reaches the caller, with one sign or the other,  *)
(* except that of setsockopt and listen.  message() of a system error      *)
(* names it exactly for file reads, delays and handshakes: accept,         *)
(* connect, bind and listen hand out a negative code, which names nothing. *)
ErrnoIsTold ==
  Failed /\ made =>
    /\ op \notin {"setsockopt", "listen"} => got.code \in {res, -res}
    /\ got.kind = "system" =>
         (Message(got) = <<"errno", -res>> <=>
            op \in {"read", "timeout", "handshake_recv", "handshake_send"})

(* However the result of an operation is converted on its way (await_-     *)
(* resume, server_socket, handshake, message), its caller has a success    *)
(* exactly if there was one, but for an accepted descriptor 0; it can tell *)
(* a request the kernel never saw from everything else; and it gets the    *)
(* errno, but for setsockopt and listen, in the form its message needs     *)
(* only from reads, delays and handshakes.                                 *)
OutcomeIsTold == SuccessIsTold /\ RefusalIsKnown /\ ErrnoIsTold
=============================================================================
