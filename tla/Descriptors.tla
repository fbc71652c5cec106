---------------------------- MODULE Descriptors ----------------------------
(***************************************************************************)
(* Who owns which file descriptor: net::socket, net::server_socket         *)
(* (net/socket.hpp) and fs::file (fs/file.hpp) over the descriptor table   *)
(* of the process, whose numbers the kernel gives out again.               *)
(*                                                                         *)
(* An object is constructed, moved from, assigned to, closed and destroyed *)
(* in any order.  own is the open file the kernel gave the object          *)
(* together with the number in fd_: a number alone does not tell whether   *)
(* it still means the same file.                                           *)
(*                                                                         *)
(* Abstractions.  An open file is a member of File.  The rest of the       *)
(* process (logger, resolver) opens and closes descriptors of its own.     *)
(* bind, listen and transfers leave the table alone and are left out.      *)
(***************************************************************************)
EXTENDS Integers

CONSTANTS
  Obj,           \* storage for socket, server_socket and file objects
  File,          \* open files of the kernel
  None,          \* no open file
  MaxFd,         \* the highest descriptor (RLIMIT_NOFILE)
  CloseMayFail   \* may ::close report an error for an open descriptor?

ASSUME DescriptorsAssumption ==
  /\ None \notin File
  /\ MaxFd \in Nat
  /\ CloseMayFail \in BOOLEAN

VARIABLES
  table,         \* the open file of each descriptor
  class,         \* class of the object in each storage
  fd_,           \* its fd_
  own,           \* the open file that came with fd_
  accepted,      \* results of completed accepts the loop has not resumed
  others,        \* descriptors the rest of the process holds
  foreign,       \* has a descriptor been closed by somebody it is not of?
  failed         \* has socket::close() failed on an open descriptor?

heldVars == <<class, fd_, own>>
vars == <<table, heldVars, accepted, others, foreign, failed>>

Fd == 0..MaxFd

Class == {"socket", "server", "file"}

TypeOK ==
  /\ table \in [Fd -> File \cup {None}]
  /\ class \in [Obj -> Class \cup {"none"}]
  /\ fd_ \in [Obj -> Fd \cup {-1}]
  /\ own \in [Obj -> File \cup {None}]
  /\ accepted \subseteq Fd \X File
  /\ others \subseteq Fd \X File
  /\ foreign \in BOOLEAN
  /\ failed \in BOOLEAN

(* The process has stdin, or was started without it.                       *)
Init ==
  /\ \E f \in File \cup {None} :
       /\ table = [n \in Fd |-> IF n = 0 THEN f ELSE None]
       /\ others = IF f = None THEN {} ELSE {<<0, f>>}
  /\ class = [o \in Obj |-> "none"]
  /\ fd_ = [o \in Obj |-> -1]
  /\ own = [o \in Obj |-> None]
  /\ accepted = {}
  /\ foreign = FALSE
  /\ failed = FALSE

-----------------------------------------------------------------------------
(* The kernel.                                                             *)

(* An open file nobody has, or has had and not forgotten.                  *)
FreshFile(f) ==
  /\ f \in File
  /\ \A n \in Fd : table[n] # f
  /\ \A o \in Obj : own[o] # f
  /\ \A h \in accepted \cup others : h[2] # f

(* The lowest free descriptor; there may be none.                          *)
Lowest(n) ==
  /\ n \in Fd
  /\ table[n] = None
  /\ \A m \in Fd : m < n => table[m] # None

Full == \A n \in Fd : table[n] # None

(* ::close by an owner that has been given the file f together with n.     *)
(* The kernel gives the number back even where it reports an error.        *)
SysClose(n, f) ==
  IF n \in Fd /\ table[n] # None
    THEN /\ table' = [table EXCEPT ![n] = None]
         /\ foreign' = (foreign \/ table[n] # f)
    ELSE UNCHANGED <<table, foreign>>

-----------------------------------------------------------------------------
(* Construction and destruction of objects.                                *)

Becomes(o, c, n, f) ==
  /\ class' = [class EXCEPT ![o] = c]
  /\ fd_' = [fd_ EXCEPT ![o] = n]
  /\ own' = [own EXCEPT ![o] = f]

(* Variant with a bug: fd_ keeps the error code, as it comes from the ring. *)
OpenErrno(o, c) ==
  /\ class[o] = "none"
  /\ \/ \E n \in Fd, f \in File :
          /\ Lowest(n) /\ FreshFile(f)
          /\ table' = [table EXCEPT ![n] = f]
          /\ Becomes(o, c, n, f)
     \/ /\ c = "file" \/ (c = "socket" /\ Full)
        /\ Becomes(o, c, -24, None)
        /\ UNCHANGED table
  /\ UNCHANGED <<accepted, others, foreign, failed>>

(* ::socket or ::open gives a new object its descriptor.  It fails where   *)
(* the table is full (and ::open wherever it likes): the constructor of    *)
(* server_socket throws, socket and file keep the -1.                      *)
Open(o, c) ==
  /\ class[o] = "none"
  /\ \/ \E n \in Fd, f \in File :
          /\ Lowest(n) /\ FreshFile(f)
          /\ table' = [table EXCEPT ![n] = f]
          /\ Becomes(o, c, n, f)
     \/ /\ c = "file" \/ (c = "socket" /\ Full)
        /\ Becomes(o, c, -1, None)
        /\ UNCHANGED table
  /\ UNCHANGED <<accepted, others, foreign, failed>>

(* What the moved-from object keeps: file sets it to 0.                    *)
MovedFrom(c) == IF c = "file" THEN 0 ELSE -1

(* Variant with a bug: the moved-from object keeps its descriptor.         *)
MoveToCopy(o, p, c) ==
  /\ class' = [class EXCEPT ![o] = c]
  /\ fd_' = [fd_ EXCEPT ![o] = fd_[p]]
  /\ own' = [own EXCEPT ![o] = own[p]]

MoveTo(o, p, c) ==
  /\ class' = [class EXCEPT ![o] = c]
  /\ fd_' = [fd_ EXCEPT ![o] = fd_[p], ![p] = MovedFrom(c)]
  /\ own' = [own EXCEPT ![o] = own[p], ![p] = None]

MoveConstruct(o, p) ==
  /\ class[o] = "none" /\ class[p] # "none"
  /\ MoveTo(o, p, class[p])
  /\ UNCHANGED <<table, accepted, others, foreign, failed>>

(* Variant with a bug: what the target had is not closed.                  *)
MoveAssignOpen(o, p) ==
  /\ o # p
  /\ class[o] # "none" /\ class[o] = class[p]
  /\ MoveTo(o, p, class[p])
  /\ UNCHANGED <<table, accepted, others, foreign, failed>>

(* operator=(T &&): the target closes what it has first.                   *)
MoveAssign(o, p) ==
  /\ o # p
  /\ class[o] # "none" /\ class[o] = class[p]
  /\ IF fd_[o] > 0 THEN SysClose(fd_[o], own[o]) ELSE UNCHANGED <<table, foreign>>
  /\ MoveTo(o, p, class[p])
  /\ UNCHANGED <<accepted, others, failed>>

(* Variant with a bug: the descriptor stays in fd_ although it is closed.  *)
CloseKeeps(o) ==
  /\ class[o] = "socket" /\ fd_[o] > 0
  /\ SysClose(fd_[o], own[o])
  /\ UNCHANGED <<heldVars, accepted, others, failed>>

(* socket::close(): fd_ is reset only if ::close has succeeded; it reports *)
(* EBADF for a descriptor that is not open.                                *)
Close(o) ==
  /\ class[o] = "socket" /\ fd_[o] > 0
  /\ SysClose(fd_[o], own[o])
  /\ \/ /\ table[fd_[o]] # None
        /\ Becomes(o, "socket", -1, None)
        /\ UNCHANGED failed
     \/ /\ table[fd_[o]] = None \/ CloseMayFail
        /\ failed' = (failed \/ table[fd_[o]] # None)
        /\ UNCHANGED heldVars
  /\ UNCHANGED <<accepted, others>>

(* The destructors: socket and server_socket close what is above 0, file   *)
(* what is not 0.                                                          *)
Destroy(o) ==
  /\ class[o] # "none"
  /\ IF (IF class[o] = "file" THEN fd_[o] # 0 ELSE fd_[o] > 0)
       THEN SysClose(fd_[o], own[o]) ELSE UNCHANGED <<table, foreign>>
  /\ Becomes(o, "none", -1, None)
  /\ UNCHANGED <<accepted, others, failed>>

-----------------------------------------------------------------------------
(* server_socket::accept.                                                  *)

(* The kernel completes the accept of a listening socket: the descriptor   *)
(* exists from here on, as a number in a completion.                       *)
AcceptCompletes ==
  /\ \E o \in Obj : class[o] = "server" /\ fd_[o] > 0 /\ table[fd_[o]] = own[o]
  /\ \E n \in Fd, f \in File :
       /\ Lowest(n) /\ FreshFile(f)
       /\ table' = [table EXCEPT ![n] = f]
       /\ accepted' = accepted \cup {<<n, f>>}
  /\ UNCHANGED <<heldVars, others, foreign, failed>>

(* socket_accept_awaiter::await_resume: 0 is taken for an error.           *)
AcceptResumes(o) ==
  /\ \E h \in accepted :
       /\ accepted' = accepted \ {h}
       /\ IF h[1] > 0
            THEN class[o] = "none" /\ Becomes(o, "socket", h[1], h[2])
            ELSE UNCHANGED heldVars
  /\ UNCHANGED <<table, others, foreign, failed>>

-----------------------------------------------------------------------------
(* The rest of the process.                                                *)
OtherOpens ==
  /\ \E n \in Fd, f \in File :
       /\ Lowest(n) /\ FreshFile(f)
       /\ table' = [table EXCEPT ![n] = f]
       /\ others' = others \cup {<<n, f>>}
  /\ UNCHANGED <<heldVars, accepted, foreign, failed>>

OtherCloses ==
  /\ \E h \in others :
       /\ SysClose(h[1], h[2])
       /\ others' = others \ {h}
  /\ UNCHANGED <<heldVars, accepted, failed>>

Next ==
  \/ \E o \in Obj :
       \/ \E c \in Class : Open(o, c)
       \/ \E p \in Obj : MoveConstruct(o, p) \/ MoveAssign(o, p)
       \/ Close(o) \/ Destroy(o) \/ AcceptResumes(o)
  \/ AcceptCompletes \/ OtherOpens \/ OtherCloses

Spec == Init /\ [][Next]_vars

-----------------------------------------------------------------------------
(* Moves, assignments, closes and destructors of sockets and files, in any *)
(* order, never close a descriptor that has been given to somebody else in *)
(* the meantime.  The exception is a socket whose close() has failed: it   *)
(* keeps its number and closes it again (net/socket.hpp:53-59, 89).        *)
NoForeignClose == foreign => failed

(* Every descriptor above 0 that is open has an owner that will close it:  *)
(* an object, a completion that will become a socket, or other code; also  *)
(* when ::close reports errors.  (Descriptor 0 can be lost: see Close and  *)
(* AcceptResumes.)                                                         *)
NoDescriptorLost ==
  \A n \in Fd \ {0} :
    table[n] # None =>
      \/ \E o \in Obj : class[o] # "none" /\ fd_[o] = n /\ own[o] = table[n]
      \/ <<n, table[n]>> \in accepted \cup others

(* An object that believes it has an open descriptor has it, and alone:    *)
(* what it sends goes into its own connection.  Again up to the first      *)
(* close() that has failed.                                                *)
HeldIsOwned ==
  ~failed =>
    \A o \in Obj :
      own[o] # None =>
        /\ fd_[o] \in Fd /\ table[fd_[o]] = own[o]
        /\ \A p \in Obj \ {o} : own[p] # own[o]
        /\ \A h \in accepted \cup others : h[1] # fd_[o]
=============================================================================
