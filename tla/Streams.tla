------------------------------ MODULE Streams ------------------------------
(***************************************************************************)
(* Who owns the connection and the OpenSSL objects of a stream:            *)
(* base_stream (stream.hpp), ssl_stream and ssl_engine over construction,  *)
(* moves, assignments, close and destruction, in any order.                *)
(*                                                                         *)
(* Every object is a base_stream: a socket ("raw") or an ssl_stream        *)
(* ("tls") on its own is one that never changes its alternative.  The      *)
(* pointers ssl_, read_bio_ and write_bio_ of an engine are set and moved  *)
(* together, so that engine names all three.  The socket is the connection *)
(* it holds; its descriptor is the business of Descriptors.                *)
(*                                                                         *)
(* breach:  "assign"  a stream was move-assigned over one with an engine   *)
(*          "nomem"   SSL_new or BIO_new has failed                        *)
(* Nothing is modelled after a double free.                                *)
(***************************************************************************)
EXTENDS FiniteSets

CONSTANTS
  Obj,           \* storage for streams
  Conn,          \* connections
  Ssl,           \* SSL objects OpenSSL can allocate
  None           \* null pointer, no connection

ASSUME StreamsAssumption == None \notin Conn \cup Ssl

VARIABLES
  class,         \* alternative of the variant in each storage
  conn,          \* the connection of the socket or of raw_stream_
  engine,        \* ssl_engine_.ssl_
  open,          \* connections nobody has closed
  heap,          \* live allocations: <<SSL, part>>
  madeFor,       \* the connection an SSL object was created for
  breach,
  doubleFree     \* has an allocation been freed twice?

objVars == <<class, conn, engine>>
vars == <<objVars, open, heap, madeFor, breach, doubleFree>>

Part == {"ssl", "read_bio", "write_bio"}

TypeOK ==
  /\ class \in [Obj -> {"none", "raw", "tls"}]
  /\ conn \in [Obj -> Conn \cup {None}]
  /\ engine \in [Obj -> Ssl \cup {None}]
  /\ open \subseteq Conn
  /\ heap \subseteq Ssl \X Part
  /\ madeFor \in [Ssl -> Conn \cup {None}]
  /\ breach \subseteq {"assign", "nomem"}
  /\ doubleFree \in BOOLEAN

Init ==
  /\ class = [o \in Obj |-> "none"]
  /\ conn = [o \in Obj |-> None]
  /\ engine = [o \in Obj |-> None]
  /\ open = {} /\ heap = {} /\ breach = {}
  /\ madeFor = [s \in Ssl |-> None]
  /\ doubleFree = FALSE

-----------------------------------------------------------------------------
Whole(s) == {s} \X Part

Unused(s) == heap \cap Whole(s) = {} /\ \A o \in Obj : engine[o] # s

(* SSL_free frees the BIOs that SSL_set_bio has handed over.               *)
FreeEngine(s) ==
  /\ heap' = heap \ Whole(s)
  /\ doubleFree' = (doubleFree \/ (s # None /\ ~(Whole(s) \subseteq heap)))

(* Variant with a bug: the two frees that are commented out in the code.   *)
DestroyEngineAndBios(s) ==
  /\ heap' = heap \ Whole(s)
  /\ doubleFree' = (doubleFree \/ s # None)

(* ~ssl_engine().                                                          *)
DestroyEngine(s) == FreeEngine(s)

(* What ssl_engine::operator= does to the engine s of the target: SSL_free *)
(* and then BIO_free on both BIOs.                                         *)
AssignOver(s) ==
  /\ heap' = heap \ Whole(s)
  /\ doubleFree' = (doubleFree \/ s # None)
  /\ breach' = breach \cup IF s # None THEN {"assign"} ELSE {}

(* A socket is connected or accepted into o.                               *)
Connect(o, c) ==
  /\ class[o] = "none"
  /\ c \notin open /\ \A p \in Obj : conn[p] # c
  /\ class' = [class EXCEPT ![o] = "raw"]
  /\ conn' = [conn EXCEPT ![o] = c]
  /\ open' = open \cup {c}
  /\ UNCHANGED <<engine, heap, madeFor, breach, doubleFree>>

(* Variant with a bug: the socket that was moved in survives the throw.    *)
WrapFailsOpen(o, p, s) ==
  /\ class[o] = "none" /\ class[p] = "raw"
  /\ Unused(s)
  /\ \E kept \in {{}, {"ssl"}, {"ssl", "read_bio"}} :
       heap' = heap \cup ({s} \X kept)
  /\ conn' = [conn EXCEPT ![p] = None]
  /\ breach' = breach \cup {"nomem"}
  /\ UNCHANGED <<class, engine, open, madeFor, doubleFree>>

(* The constructor of ssl_stream when SSL_new, the first or the second     *)
(* BIO_new fails: nothing owns what was allocated before the throw; the    *)
(* socket was moved into raw_stream_, which is destroyed.                  *)
WrapFails(o, p, s) ==
  /\ class[o] = "none" /\ class[p] = "raw"
  /\ Unused(s)
  /\ \E kept \in {{}, {"ssl"}, {"ssl", "read_bio"}} :
       heap' = heap \cup ({s} \X kept)
  /\ conn' = [conn EXCEPT ![p] = None]
  /\ open' = open \ {conn[p]}
  /\ breach' = breach \cup {"nomem"}
  /\ UNCHANGED <<class, engine, madeFor, doubleFree>>

(* ssl_stream(std::move(p), ctx).                                          *)
Wrap(o, p, s) ==
  /\ class[o] = "none" /\ class[p] = "raw"
  /\ Unused(s)
  /\ class' = [class EXCEPT ![o] = "tls"]
  /\ conn' = [conn EXCEPT ![o] = conn[p], ![p] = None]
  /\ engine' = [engine EXCEPT ![o] = s]
  /\ heap' = heap \cup Whole(s)
  /\ madeFor' = [madeFor EXCEPT ![s] = conn[p]]
  /\ UNCHANGED <<open, breach, doubleFree>>

(* Variant with a bug: the moved-from variant is left without a value.     *)
TakeOverValueless(o, p) ==
  /\ class' = [class EXCEPT ![o] = class[p], ![p] = "valueless"]
  /\ conn' = [conn EXCEPT ![o] = conn[p], ![p] = None]
  /\ engine' = [engine EXCEPT ![o] = engine[p], ![p] = None]

(* The members of p move to o; p keeps its alternative, with nulls.        *)
TakeOver(o, p) ==
  /\ class' = [class EXCEPT ![o] = class[p]]
  /\ conn' = [conn EXCEPT ![o] = conn[p], ![p] = None]
  /\ engine' = [engine EXCEPT ![o] = engine[p], ![p] = None]

(* The move constructors of all three classes.                             *)
MoveConstruct(o, p) ==
  /\ class[o] = "none" /\ class[p] # "none"
  /\ TakeOver(o, p)
  /\ UNCHANGED <<open, heap, madeFor, breach, doubleFree>>

(* Variant with a bug: the engine stays behind.                            *)
AssignSameRawOnly(o, p) ==
  /\ o # p /\ class[o] # "none" /\ class[o] = class[p]
  /\ open' = open \ {conn[o]}
  /\ conn' = [conn EXCEPT ![o] = conn[p], ![p] = None]
  /\ UNCHANGED <<class, engine, heap, madeFor, breach, doubleFree>>

(* operator= of base_stream, same alternative: member by member, each      *)
(* giving up what it had.                                                  *)
AssignSame(o, p) ==
  /\ o # p /\ class[o] # "none" /\ class[o] = class[p]
  /\ open' = open \ {conn[o]}
  /\ AssignOver(engine[o])
  /\ TakeOver(o, p)
  /\ UNCHANGED madeFor

(* ... other alternative: the variant destroys what it has and constructs. *)
AssignOther(o, p) ==
  /\ class[o] # "none" /\ class[p] # "none" /\ class[o] # class[p]
  /\ open' = open \ {conn[o]}
  /\ DestroyEngine(engine[o])
  /\ TakeOver(o, p)
  /\ UNCHANGED <<madeFor, breach>>

(* close(): the socket only; the engine lives on.                          *)
Close(o) ==
  /\ class[o] # "none" /\ conn[o] # None
  /\ open' = open \ {conn[o]}
  /\ conn' = [conn EXCEPT ![o] = None]
  /\ UNCHANGED <<class, engine, heap, madeFor, breach, doubleFree>>

Destroy(o) ==
  /\ class[o] # "none"
  /\ open' = open \ {conn[o]}
  /\ DestroyEngine(engine[o])
  /\ class' = [class EXCEPT ![o] = "none"]
  /\ conn' = [conn EXCEPT ![o] = None]
  /\ engine' = [engine EXCEPT ![o] = None]
  /\ UNCHANGED <<madeFor, breach>>

Next ==
  /\ ~doubleFree
  /\ \E o, p \in Obj :
       \/ \E c \in Conn : Connect(o, c)
       \/ \E s \in Ssl : Wrap(o, p, s) \/ WrapFails(o, p, s)
       \/ MoveConstruct(o, p) \/ AssignSame(o, p) \/ AssignOther(o, p)
       \/ Close(o) \/ Destroy(o)

Spec == Init /\ [][Next]_vars

-----------------------------------------------------------------------------
(* Nothing is freed twice, whatever the order of moves, variant            *)
(* assignments and destructors, unless a stream is move-assigned over one  *)
(* that has an engine (ssl_engine::operator=).                             *)
DoubleFreeNeedsAssign == doubleFree => "assign" \in breach

(* What ~ssl_engine takes for granted in the two frees it leaves out: the  *)
(* BIOs go with the SSL object, in every member of the class.              *)
NoDoubleFree == ~doubleFree

(* A TLS engine is never paired with the connection of another engine, so  *)
(* that no record is encrypted with the keys of one connection and sent on *)
(* another (ssl_stream::operator=, base_stream::operator=).                *)
Paired ==
  \A o \in Obj :
    /\ engine[o] # None /\ conn[o] # None => madeFor[engine[o]] = conn[o]
    /\ class[o] = "tls" /\ conn[o] # None => engine[o] # None

(* Every open connection and, as long as no allocation has failed, every   *)
(* live OpenSSL object is owned by exactly one stream, whole; so a         *)
(* connection whose ssl_stream cannot be constructed is closed as well.    *)
OwnedOnce ==
  /\ \A c \in open : Cardinality({o \in Obj : conn[o] = c}) = 1
  /\ breach = {} =>
       \A h \in heap : /\ Whole(h[1]) \subseteq heap
                       /\ Cardinality({o \in Obj : engine[o] = h[1]}) = 1
=============================================================================
