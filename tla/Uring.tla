------------------------------- MODULE Uring -------------------------------
(***************************************************************************)
(* The io_uring instance of an io_context (io_context::ring_), as the code *)
(* under kkp-core uses it through liburing.                                *)
(*                                                                         *)
(* A request travels  SQ -> kernel -> CQ  and is consumed by the loop.     *)
(* Its user_data is the address of the io_data of the awaiter that made    *)
(* it, here the awaiter itself (an element of Op), or the address of       *)
(* io_data_completed, here Stop.                                           *)
(*                                                                         *)
(* Abstractions.  The order of the entries of the SQ is not kept: the      *)
(* kernel completes requests in any order.  The CQ is not bounded: the     *)
(* kernel keeps completions that do not fit (IORING_FEAT_NODROP).          *)
(***************************************************************************)
EXTENDS Naturals, Sequences, FiniteSets

CONSTANTS
  Op,            \* awaiter objects (base_uring_awaiter), by address
  Stop,          \* the sentinel &io_data_completed
  Entries,       \* size of the SQ (1024 in io_context's constructor)
  SubmitMayFail  \* may io_uring_submit leave entries in the SQ?

ASSUME UringAssumption ==
  /\ Stop \notin Op
  /\ Entries \in Nat \ {0}
  /\ SubmitMayFail \in BOOLEAN

VARIABLES
  sq,            \* entries handed out by io_uring_get_sqe, not yet submitted
  flight,        \* requests the kernel has accepted and not completed
  cq             \* completions the loop has not marked seen, oldest first

ringVars == <<sq, flight, cq>>

Request == Op \cup {Stop}

Completed == {cq[i] : i \in DOMAIN cq}

InRing == sq \cup flight \cup Completed

RingTypeOK ==
  /\ sq \subseteq Request
  /\ flight \subseteq Request
  /\ cq \in Seq(Request)

RingInit ==
  /\ sq = {}
  /\ flight = {}
  /\ cq = <<>>

(* io_uring_get_sqe returns a null pointer.                                *)
SqFull == Cardinality(sq) >= Entries

(* A storage location whose awaiter object is gone or not yet constructed. *)
(* The loop does not touch an awaiter after it has called handle_, but its *)
(* completion stays at the head of the CQ until it is marked seen.         *)
Fresh(o) == o \in Op \ InRing

(* Variant with a bug: the submission is forgotten.                        *)
SubmitForgotten(entries, taken) ==
  /\ sq' = entries
  /\ UNCHANGED <<flight, cq>>

(***************************************************************************)
(* io_uring_submit: the kernel takes the entries, or some of them only (an *)
(* error return such as -EBUSY or -EAGAIN, or a short count).  The callers *)
(* ignore the return value, so what was not taken stays in the SQ until    *)
(* somebody submits again.                                                 *)
(***************************************************************************)
Takes(entries) == IF SubmitMayFail THEN SUBSET entries ELSE {entries}

Submit(entries, taken) ==
  /\ sq' = entries \ taken
  /\ flight' = flight \cup taken
  /\ UNCHANGED cq

(* The kernel finishes a request and posts its completion.                 *)
PostCompletion(r) ==
  /\ r \in flight
  /\ flight' = flight \ {r}
  /\ cq' = Append(cq, r)
  /\ UNCHANGED sq

(* Variant with a bug: everything in the CQ is marked seen.                *)
MarkAllSeen ==
  /\ cq # <<>>
  /\ cq' = <<>>
  /\ UNCHANGED <<sq, flight>>

(* io_uring_cqe_seen on the completion io_uring_wait_cqe returned.         *)
MarkSeen ==
  /\ cq # <<>>
  /\ cq' = Tail(cq)
  /\ UNCHANGED <<sq, flight>>
=============================================================================
