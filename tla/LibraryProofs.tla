---------------------------- MODULE LibraryProofs ----------------------------
(***************************************************************************)
(* Theorems about the parts of the library that share no state, for any    *)
(* streams, connections and SSL objects, any error numbers, hosts,         *)
(* addresses and ports, any header objects, names and values.              *)
(***************************************************************************)
EXTENDS MCLibrary, Sequences, FiniteSetTheorems, WellFoundedInduction, TLAPS

-----------------------------------------------------------------------------
(* Streams: types.                                                         *)

(* Every step of a stream keeps the types.                                 *)
LEMMA StreamsTypeStep ==
  ASSUME TypeOK, [Next]_vars PROVE TypeOK'
<1>1. ASSUME NEW o \in Obj, NEW c \in Conn, Connect(o, c) PROVE TypeOK'
  BY <1>1 DEF Connect, TypeOK
<1>2. ASSUME NEW o \in Obj, NEW p \in Obj, NEW s \in Ssl, Wrap(o, p, s)
      PROVE  TypeOK'
  BY <1>2 DEF Wrap, TypeOK, Whole, Part
<1>3. ASSUME NEW o \in Obj, NEW p \in Obj, NEW s \in Ssl, WrapFails(o, p, s)
      PROVE  TypeOK'
  BY <1>3 DEF WrapFails, TypeOK, Part
<1>4. ASSUME NEW o \in Obj, NEW p \in Obj, MoveConstruct(o, p) PROVE TypeOK'
  BY <1>4 DEF MoveConstruct, TakeOver, TypeOK
<1>5. ASSUME NEW o \in Obj, NEW p \in Obj, AssignSame(o, p) PROVE TypeOK'
  BY <1>5 DEF AssignSame, AssignOver, TakeOver, TypeOK
<1>6. ASSUME NEW o \in Obj, NEW p \in Obj, AssignOther(o, p) PROVE TypeOK'
  BY <1>6 DEF AssignOther, DestroyEngine, FreeEngine, TakeOver, TypeOK
<1>7. ASSUME NEW o \in Obj, Close(o) PROVE TypeOK'
  BY <1>7 DEF Close, TypeOK
<1>8. ASSUME NEW o \in Obj, Destroy(o) PROVE TypeOK'
  BY <1>8 DEF Destroy, DestroyEngine, FreeEngine, TypeOK
<1>9. CASE UNCHANGED vars
  BY <1>9 DEF vars, objVars, TypeOK
<1> QED
  BY <1>1, <1>2, <1>3, <1>4, <1>5, <1>6, <1>7, <1>8, <1>9 DEF Next

(* The initial state.                                                      *)
LEMMA StreamsTypeInit == Init => TypeOK
BY DEF Init, TypeOK

-----------------------------------------------------------------------------
(* Streams: ownership.                                                     *)

(* Every open connection has one owner, and nobody has a closed one.       *)
ConnInv ==
  /\ \A o \in Obj : class[o] = "none" => conn[o] = None
  /\ \A o \in Obj : conn[o] # None => conn[o] \in open
  /\ \A o, p \in Obj : o # p /\ conn[o] # None => conn[o] # conn[p]
  /\ \A c \in open : \E o \in Obj : conn[o] = c

(* Every engine has one owner, and is whole; nothing else is on the heap   *)
(* unless the caller has broken a rule.                                    *)
EngineInv ==
  /\ \A o \in Obj : class[o] # "tls" => engine[o] = None
  /\ \A o \in Obj : engine[o] # None => Whole(engine[o]) \subseteq heap
  /\ \A o, p \in Obj : o # p /\ engine[o] # None => engine[o] # engine[p]
  /\ breach = {} => \A h \in heap : \E o \in Obj : engine[o] = h[1]
  /\ doubleFree => "assign" \in breach

StreamsInv == ConnInv /\ EngineInv /\ Paired

(* What a move does to the three members of both objects.                  *)
LEMMA TakeOverBy ==
  ASSUME TypeOK, NEW o \in Obj, NEW p \in Obj, o # p, TakeOver(o, p)
  PROVE  /\ class'[o] = class[p] /\ conn'[o] = conn[p] /\ engine'[o] = engine[p]
         /\ class'[p] = class[p] /\ conn'[p] = None /\ engine'[p] = None
         /\ \A q \in Obj \ {o, p} :
              class'[q] = class[q] /\ conn'[q] = conn[q] /\ engine'[q] = engine[q]
BY DEF TakeOver, TypeOK

(* A move leaves every connection and every engine with one owner, if what *)
(* the target had is given up.                                             *)
LEMMA MoveKeeps ==
  ASSUME TypeOK, StreamsInv, NEW o \in Obj, NEW p \in Obj, o # p,
         class[p] # "none", TakeOver(o, p), madeFor' = madeFor,
         open' = open \ {conn[o]}, heap' = heap \ Whole(engine[o]),
         \/ breach' = breach
         \/ breach' = breach \cup {"assign"} /\ engine[o] # None,
         doubleFree' => "assign" \in breach'
  PROVE  StreamsInv'
<1>1. /\ class'[o] = class[p] /\ conn'[o] = conn[p] /\ engine'[o] = engine[p]
      /\ class'[p] = class[p] /\ conn'[p] = None /\ engine'[p] = None
      /\ \A q \in Obj \ {o, p} :
           class'[q] = class[q] /\ conn'[q] = conn[q] /\ engine'[q] = engine[q]
  BY TakeOverBy
<1>2. ConnInv'
  <2>1. \A q \in Obj : conn'[q] # None => conn'[q] \in open'
    BY <1>1 DEF StreamsInv, ConnInv
  <2>2. \A q, r \in Obj : q # r /\ conn'[q] # None => conn'[q] # conn'[r]
    BY <1>1 DEF StreamsInv, ConnInv
  <2>3. \A c \in open' : \E q \in Obj : conn'[q] = c
    <3> SUFFICES ASSUME NEW c \in open' PROVE \E q \in Obj : conn'[q] = c
      OBVIOUS
    <3>1. PICK q \in Obj : conn[q] = c
      BY DEF StreamsInv, ConnInv
    <3>2. q # o
      BY <3>1
    <3> QED
      BY <1>1, <3>1, <3>2
  <2> QED
    BY <1>1, <2>1, <2>2, <2>3 DEF ConnInv, StreamsInv
<1>3. EngineInv'
  <2>1. \A q \in Obj : engine'[q] # None => Whole(engine'[q]) \subseteq heap'
    <3>1. \A q \in Obj \ {o} : engine[q] # None =>
            Whole(engine[q]) \subseteq heap /\ engine[q] # engine[o]
      BY DEF StreamsInv, EngineInv
    <3>2. \A s, t : s # t => Whole(s) \cap Whole(t) = {}
      BY DEF Whole
    <3> QED
      BY <1>1, <3>1, <3>2
  <2>2. \A q, r \in Obj : q # r /\ engine'[q] # None => engine'[q] # engine'[r]
    BY <1>1 DEF StreamsInv, EngineInv
  <2>3. breach' = {} => \A h \in heap' : \E q \in Obj : engine'[q] = h[1]
    <3> SUFFICES ASSUME breach' = {}, NEW h \in heap'
                 PROVE  \E q \in Obj : engine'[q] = h[1]
      OBVIOUS
    <3>1. h \in heap /\ h \notin Whole(engine[o])
      OBVIOUS
    <3>2. PICK q \in Obj : engine[q] = h[1]
      BY <3>1 DEF StreamsInv, EngineInv
    <3>3. q # o
      BY <3>1, <3>2 DEF TypeOK, Whole
    <3> QED
      BY <1>1, <3>2, <3>3
  <2>4. \A q \in Obj : class'[q] # "tls" => engine'[q] = None
    BY <1>1 DEF StreamsInv, EngineInv
  <2> QED
    BY <2>1, <2>2, <2>3, <2>4 DEF EngineInv
<1>4. Paired'
  BY <1>1 DEF StreamsInv, Paired
<1> QED
  BY <1>2, <1>3, <1>4 DEF StreamsInv

(* StreamsInv is inductive.                                                *)
LEMMA StreamsStep ==
  ASSUME TypeOK, StreamsInv, [Next]_vars PROVE StreamsInv'
<1> USE StreamsAssumption
<1>1. ASSUME NEW o \in Obj, NEW c \in Conn, Connect(o, c) PROVE StreamsInv'
  <2>1. /\ class[o] = "none" /\ c \notin open /\ c # None
        /\ \A p \in Obj : conn[p] # c
        /\ class'[o] = "raw" /\ conn'[o] = c /\ open' = open \cup {c}
        /\ \A q \in Obj \ {o} : class'[q] = class[q] /\ conn'[q] = conn[q]
        /\ UNCHANGED <<engine, heap, madeFor, breach, doubleFree>>
    BY <1>1 DEF Connect, TypeOK
  <2>2. engine[o] = None /\ conn[o] = None
    BY <2>1 DEF StreamsInv, EngineInv, ConnInv
  <2>3. ConnInv'
    <3>1. \A d \in open' : \E q \in Obj : conn'[q] = d
      <4> SUFFICES ASSUME NEW d \in open', d # c
                   PROVE  \E q \in Obj : conn'[q] = d
        BY <2>1
      <4>1. PICK q \in Obj : conn[q] = d
        BY <2>1 DEF StreamsInv, ConnInv
      <4>2. q # o
        BY <2>2, <4>1, <2>1 DEF TypeOK
      <4> QED
        BY <2>1, <4>1, <4>2
    <3> QED
      BY <2>1, <2>2, <3>1 DEF StreamsInv, ConnInv
  <2>4. EngineInv' /\ Paired'
    BY <2>1, <2>2 DEF StreamsInv, EngineInv, Paired
  <2> QED
    BY <2>3, <2>4 DEF StreamsInv
<1>2. ASSUME NEW o \in Obj, NEW p \in Obj, NEW s \in Ssl, Wrap(o, p, s)
      PROVE  StreamsInv'
  <2>1. /\ class[o] = "none" /\ class[p] = "raw" /\ s # None
        /\ \A q \in Obj : engine[q] # s
        /\ class'[o] = "tls" /\ conn'[o] = conn[p] /\ engine'[o] = s
        /\ class'[p] = "raw" /\ conn'[p] = None /\ engine'[p] = engine[p]
        /\ \A q \in Obj \ {o, p} :
             class'[q] = class[q] /\ conn'[q] = conn[q] /\ engine'[q] = engine[q]
        /\ heap' = heap \cup Whole(s)
        /\ madeFor'[s] = conn[p]
        /\ \A t \in Ssl \ {s} : madeFor'[t] = madeFor[t]
        /\ UNCHANGED <<open, breach, doubleFree>>
    BY <1>2 DEF Wrap, Unused, TypeOK
  <2>2. engine[p] = None /\ engine[o] = None /\ conn[o] = None
    BY <2>1 DEF StreamsInv, EngineInv, ConnInv
  <2>3. ConnInv'
    <3>1. \A c \in open' : \E q \in Obj : conn'[q] = c
      <4> SUFFICES ASSUME NEW c \in open' PROVE \E q \in Obj : conn'[q] = c
        OBVIOUS
      <4>1. PICK q \in Obj : conn[q] = c
        BY <2>1 DEF StreamsInv, ConnInv
      <4>2. q # o
        BY <2>1, <2>2, <4>1 DEF TypeOK
      <4> QED
        BY <2>1, <4>1, <4>2
    <3> QED
      BY <2>1, <2>2, <3>1 DEF StreamsInv, ConnInv
  <2>4. EngineInv'
    <3>1. breach' = {} => \A h \in heap' : \E q \in Obj : engine'[q] = h[1]
      <4> SUFFICES ASSUME breach' = {}, NEW h \in heap'
                   PROVE  \E q \in Obj : engine'[q] = h[1]
        OBVIOUS
      <4>1. CASE h \in Whole(s)
        BY <2>1, <4>1 DEF Whole
      <4>2. CASE h \in heap
        <5>1. PICK q \in Obj : engine[q] = h[1]
          BY <2>1, <4>2 DEF StreamsInv, EngineInv
        <5>2. h[1] \in Ssl
          BY <4>2 DEF TypeOK
        <5>3. q # o
          BY <2>2, <5>1, <5>2
        <5> QED
          BY <2>1, <5>1, <5>3
      <4> QED
        BY <2>1, <4>1, <4>2
    <3>2. \A q \in Obj : engine'[q] # None => Whole(engine'[q]) \subseteq heap'
      BY <2>1 DEF StreamsInv, EngineInv
    <3> QED
      BY <2>1, <2>2, <3>1, <3>2 DEF StreamsInv, EngineInv
  <2>5. Paired'
    <3>1. \A q \in Obj \ {o, p} : engine[q] # None => engine[q] \in Ssl \ {s}
      BY <2>1 DEF TypeOK
    <3> QED
      BY <2>1, <2>2, <3>1 DEF StreamsInv, Paired
  <2> QED
    BY <2>3, <2>4, <2>5 DEF StreamsInv
<1>3. ASSUME NEW o \in Obj, NEW p \in Obj, NEW s \in Ssl, WrapFails(o, p, s)
      PROVE  StreamsInv'
  <2>1. /\ heap \subseteq heap'
        /\ conn'[p] = None /\ \A q \in Obj \ {p} : conn'[q] = conn[q]
        /\ open' = open \ {conn[p]} /\ breach' = breach \cup {"nomem"}
        /\ UNCHANGED <<class, engine, madeFor, doubleFree>>
    BY <1>3 DEF WrapFails, TypeOK
  <2>2. ConnInv'
    BY <2>1 DEF StreamsInv, ConnInv
  <2>3. EngineInv'
    BY <2>1 DEF StreamsInv, EngineInv
  <2>4. Paired'
    BY <2>1 DEF StreamsInv, Paired
  <2> QED
    BY <2>2, <2>3, <2>4 DEF StreamsInv
<1>4. ASSUME NEW o \in Obj, NEW p \in Obj, MoveConstruct(o, p)
      PROVE  StreamsInv'
  <2>1. /\ class[o] = "none" /\ class[p] # "none" /\ TakeOver(o, p)
        /\ UNCHANGED <<open, heap, madeFor, breach, doubleFree>>
    BY <1>4 DEF MoveConstruct
  <2>2. conn[o] = None /\ engine[o] = None
    BY <2>1 DEF StreamsInv, ConnInv, EngineInv
  <2>3. open' = open \ {conn[o]} /\ heap' = heap \ Whole(engine[o])
    BY <2>1, <2>2 DEF TypeOK, Whole
  <2>4. doubleFree' => "assign" \in breach'
    BY <2>1 DEF StreamsInv, EngineInv
  <2> QED
    BY <2>1, <2>3, <2>4, MoveKeeps
<1>5. ASSUME NEW o \in Obj, NEW p \in Obj, AssignSame(o, p)
      PROVE  StreamsInv'
  <2>1. /\ o # p /\ class[p] # "none" /\ TakeOver(o, p)
        /\ open' = open \ {conn[o]} /\ madeFor' = madeFor
    BY <1>5 DEF AssignSame
  <2>2. /\ heap' = heap \ Whole(engine[o])
        /\ doubleFree' = (doubleFree \/ engine[o] # None)
        /\ breach' = breach \cup IF engine[o] # None THEN {"assign"} ELSE {}
    BY <1>5 DEF AssignSame, AssignOver
  <2>3. doubleFree' => "assign" \in breach'
    BY <2>2 DEF StreamsInv, EngineInv
  <2> QED
    BY <2>1, <2>2, <2>3, MoveKeeps
<1>6. ASSUME NEW o \in Obj, NEW p \in Obj, AssignOther(o, p)
      PROVE  StreamsInv'
  <2>1. /\ o # p /\ class[p] # "none" /\ TakeOver(o, p)
        /\ open' = open \ {conn[o]} /\ UNCHANGED <<madeFor, breach>>
    BY <1>6 DEF AssignOther
  <2>2. /\ heap' = heap \ Whole(engine[o])
        /\ doubleFree' = (doubleFree \/
             (engine[o] # None /\ ~(Whole(engine[o]) \subseteq heap)))
    BY <1>6 DEF AssignOther, DestroyEngine, FreeEngine
  <2>3. doubleFree' => "assign" \in breach'
    BY <2>1, <2>2 DEF StreamsInv, EngineInv
  <2> QED
    BY <2>1, <2>2, <2>3, MoveKeeps
<1>7. ASSUME NEW o \in Obj, Close(o) PROVE StreamsInv'
  <2>1. /\ conn'[o] = None /\ \A q \in Obj \ {o} : conn'[q] = conn[q]
        /\ open' = open \ {conn[o]}
        /\ UNCHANGED <<class, engine, heap, madeFor, breach, doubleFree>>
    BY <1>7 DEF Close, TypeOK
  <2>2. ConnInv'
    BY <2>1 DEF StreamsInv, ConnInv
  <2>3. EngineInv' /\ Paired'
    BY <2>1 DEF StreamsInv, EngineInv, Paired
  <2> QED
    BY <2>2, <2>3 DEF StreamsInv
<1>8. ASSUME NEW o \in Obj, Destroy(o) PROVE StreamsInv'
  <2>1. /\ class'[o] = "none" /\ conn'[o] = None /\ engine'[o] = None
        /\ \A q \in Obj \ {o} :
             class'[q] = class[q] /\ conn'[q] = conn[q] /\ engine'[q] = engine[q]
        /\ open' = open \ {conn[o]}
        /\ UNCHANGED <<madeFor, breach>>
    BY <1>8 DEF Destroy, TypeOK
  <2>2. /\ heap' = heap \ Whole(engine[o])
        /\ doubleFree' = (doubleFree \/
             (engine[o] # None /\ ~(Whole(engine[o]) \subseteq heap)))
    BY <1>8 DEF Destroy, DestroyEngine, FreeEngine
  <2>3. ConnInv'
    BY <2>1 DEF StreamsInv, ConnInv
  <2>4. EngineInv'
    <3>1. \A q \in Obj : engine'[q] # None => Whole(engine'[q]) \subseteq heap'
      BY <2>1, <2>2 DEF StreamsInv, EngineInv, Whole
    <3>2. breach' = {} => \A h \in heap' : \E q \in Obj : engine'[q] = h[1]
      <4> SUFFICES ASSUME breach' = {}, NEW h \in heap'
                   PROVE  \E q \in Obj : engine'[q] = h[1]
        OBVIOUS
      <4>1. PICK q \in Obj : engine[q] = h[1]
        BY <2>1, <2>2 DEF StreamsInv, EngineInv
      <4>2. q # o
        BY <2>2, <4>1 DEF TypeOK, Whole
      <4> QED
        BY <2>1, <4>1, <4>2
    <3>3. doubleFree' => "assign" \in breach'
      BY <2>1, <2>2 DEF StreamsInv, EngineInv
    <3>4. /\ \A q \in Obj : class'[q] # "tls" => engine'[q] = None
          /\ \A q, r \in Obj :
               q # r /\ engine'[q] # None => engine'[q] # engine'[r]
      BY <2>1 DEF StreamsInv, EngineInv
    <3> QED
      BY <3>1, <3>2, <3>3, <3>4 DEF EngineInv
  <2>5. Paired'
    BY <2>1 DEF StreamsInv, Paired
  <2> QED
    BY <2>3, <2>4, <2>5 DEF StreamsInv
<1>9. CASE UNCHANGED vars
  BY <1>9 DEF vars, objVars, StreamsInv, ConnInv, EngineInv, Paired
<1> QED
  BY <1>1, <1>2, <1>3, <1>4, <1>5, <1>6, <1>7, <1>8, <1>9 DEF Next

(* The initial state.                                                      *)
LEMMA StreamsInit == Init => StreamsInv
BY DEF Init, StreamsInv, ConnInv, EngineInv, Paired

(* What a stream step is to the library.                                   *)
LEMMA StreamsArea ==
  /\ LibraryInit => Init
  /\ [LibraryNext]_libraryVars => [Next]_vars
BY DEF LibraryInit, LibraryNext, libraryVars

(* The invariants of Streams hold together.                                *)
LEMMA StreamsAlways == LibrarySpec => [](TypeOK /\ StreamsInv)
<1>1. LibraryInit => TypeOK /\ StreamsInv
  BY StreamsArea, StreamsTypeInit, StreamsInit
<1>2. TypeOK /\ StreamsInv /\ [LibraryNext]_libraryVars
        => (TypeOK /\ StreamsInv)'
  BY StreamsArea, StreamsTypeStep, StreamsStep
<1> QED
  BY <1>1, <1>2, PTL DEF LibrarySpec

(* DoubleFreeNeedsAssign, for the frees of ~ssl_engine and of the three    *)
(* assignment operators: in any order of moves, assignments and            *)
(* destructors only an assignment over an engine frees anything twice.     *)
THEOREM FreedOnce == LibrarySpec => []DoubleFreeNeedsAssign
<1>1. StreamsInv => DoubleFreeNeedsAssign
  BY DEF StreamsInv, EngineInv, DoubleFreeNeedsAssign
<1> QED
  BY <1>1, StreamsAlways, PTL

(* Paired, for ssl_stream and its engine: wherever moves take them, an     *)
(* engine stays with the connection it was created for.                    *)
THEOREM EnginesPaired == LibrarySpec => []Paired
<1>1. StreamsInv => Paired
  BY DEF StreamsInv
<1> QED
  BY <1>1, StreamsAlways, PTL

(* OwnedOnce, for the members raw_stream_ and ssl_engine_: one owner for   *)
(* every open connection and, while no rule is broken, for every OpenSSL   *)
(* object, which is whole.                                                 *)
THEOREM OneOwner == LibrarySpec => []OwnedOnce
<1>1. ASSUME TypeOK, StreamsInv PROVE OwnedOnce
  <2>1. ASSUME NEW c \in open PROVE Cardinality({o \in Obj : conn[o] = c}) = 1
    <3>1. PICK o \in Obj : conn[o] = c
      BY <1>1 DEF StreamsInv, ConnInv
    <3>2. c # None
      BY <1>1, StreamsAssumption DEF TypeOK
    <3>3. {p \in Obj : conn[p] = c} = {o}
      BY <1>1, <3>1, <3>2 DEF StreamsInv, ConnInv
    <3> QED
      BY <3>3, FS_Singleton
  <2>2. ASSUME breach = {}, NEW h \in heap
        PROVE  /\ Whole(h[1]) \subseteq heap
               /\ Cardinality({o \in Obj : engine[o] = h[1]}) = 1
    <3>1. PICK o \in Obj : engine[o] = h[1]
      BY <1>1, <2>2 DEF StreamsInv, EngineInv
    <3>2. engine[o] # None
      BY <1>1, <3>1, StreamsAssumption DEF TypeOK
    <3>3. {p \in Obj : engine[p] = h[1]} = {o}
      BY <1>1, <3>1, <3>2 DEF StreamsInv, EngineInv
    <3>4. Whole(h[1]) \subseteq heap
      BY <1>1, <3>1, <3>2 DEF StreamsInv, EngineInv
    <3> QED
      BY <3>3, <3>4, FS_Singleton
  <2> QED
    BY <2>1, <2>2 DEF OwnedOnce
<1> QED
  BY <1>1, StreamsAlways, PTL

-----------------------------------------------------------------------------
(* Results.                                                                *)

(* What the caller gets for the result r of operation o.                   *)
Told(o, r) ==
  CASE o \in R!SysOp -> R!CallResult(o, r)
    [] o \in {"handshake_recv", "handshake_send"} ->
         R!HandshakeResult(o, R!AwaitResume(o, r).code)
    [] OTHER -> R!AwaitResume(o, r)

(* A request is refused, or it is made and ends with one of the outcomes   *)
(* of its operation; a caller to whom it has returned has what its result  *)
(* is converted to.                                                        *)
ResultInv ==
  /\ phase = "flight" => op \in R!RingOp /\ made
  /\ phase \in {"ready", "returned"} =>
       \/ made /\ op \in R!SysOp \cup R!RingOp /\ res \in R!Outcomes(op)
       \/ ~made /\ op \in R!RingOp /\ res = -R!E_TASK_FINISH
  /\ phase = "returned" => got = Told(op, res)

(* An error is reported with its number, negated.                          *)
LEMMA Negative == \A e \in Errno : -e \in Int /\ -e < 0 /\ -(-e) = e
BY ResultsAssumption

(* The outcomes of an operation are results the kernel can give.           *)
LEMMA OutcomeRange ==
  \A o : R!Outcomes(o) \subseteq (-4095)..MaxCount
<1> SUFFICES ASSUME NEW o, NEW r \in R!Outcomes(o)
             PROVE  r \in (-4095)..MaxCount
  OBVIOUS
<1>1. \/ \E e \in Errno : r = -e
      \/ r \in 0..MaxCount
  <2>1. \/ r \in {-e : e \in Errno}
        \/ r \in CASE o = "timeout"    -> {}
                   [] o \in R!SysOp    -> {0}
                   [] OTHER            -> 0..MaxCount
    BY DEF R!Outcomes
  <2>2. CASE o = "timeout"
    BY <2>1, <2>2 DEF R!SysOp
  <2>3. CASE o \in R!SysOp
    <3>1. o # "timeout"
      BY <2>3 DEF R!SysOp
    <3>2. (\E e \in Errno : r = -e) \/ r = 0
      BY <2>1, <2>3, <3>1
    <3> QED
      BY <3>2, ResultsAssumption
  <2>4. CASE o # "timeout" /\ o \notin R!SysOp
    BY <2>1, <2>4
  <2> QED
    BY <2>2, <2>3, <2>4
<1>2. ASSUME NEW e \in Errno, r = -e PROVE r \in (-4095)..MaxCount
  <2>1. e \in 1..4095 /\ MaxCount \in Nat
    BY ResultsAssumption
  <2> QED
    BY <1>2, <2>1
<1>3. CASE r \in 0..MaxCount
  BY <1>3, ResultsAssumption
<1> QED
  BY <1>1, <1>2, <1>3

(* What is told, operation by operation.                                   *)
LEMMA ToldBy ==
  ASSUME NEW r \in Int
  PROVE  /\ Told("accept", r) = IF r > 0 THEN R!Success(r) ELSE R!SysError(r)
         /\ Told("connect", r) = IF r >= 0 THEN R!Success(r) ELSE R!SysError(r)
         /\ Told("read", r) = IF r >= 0 THEN R!Success(r) ELSE R!SysError(-r)
         /\ Told("timeout", r) = IF r = -62 THEN R!Success(0) ELSE R!SysError(-r)
         /\ \A o \in {"write", "recv", "send"} : Told(o, r) = R!Success(r)
         /\ Told("handshake_recv", r) = IF r = 0 THEN R!KkpError(10091)
              ELSE IF r < 0 THEN R!SysError(-r) ELSE R!Success(r)
         /\ Told("handshake_send", r) =
              IF r < 0 THEN R!SysError(-r) ELSE R!Success(r)
         /\ Told("setsockopt", r) = IF r = 0 THEN R!Success(0) ELSE R!SysError(-1)
         /\ Told("bind", r) = IF r = 0 THEN R!Success(0) ELSE R!SysError(r)
         /\ Told("listen", r) = IF r = 0 THEN R!Success(0) ELSE R!SysError(-1)
<1> USE DEF Told, R!SysOp
<1>1. /\ Told("accept", r) = R!AcceptResult(r)
      /\ Told("connect", r) = R!ConnectResult(r)
      /\ Told("read", r) = R!ReadResult(r)
      /\ Told("timeout", r) = R!TimeoutResult(r)
      /\ Told("write", r) = R!WriteResult(r)
      /\ Told("recv", r) = R!RecvResult(r)
      /\ Told("send", r) = R!SendResult(r)
  BY DEF R!AwaitResume
<1>2. /\ Told("handshake_recv", r) = R!HandshakeResult("handshake_recv", r)
      /\ Told("handshake_send", r) = R!HandshakeResult("handshake_send", r)
  BY DEF R!AwaitResume, R!RecvResult, R!SendResult, R!Success
<1>3. /\ Told("setsockopt", r) = R!BindResult("setsockopt", r)
      /\ Told("bind", r) = R!BindResult("bind", r)
      /\ Told("listen", r) = R!ListenResult(r)
  BY DEF R!CallResult
<1> QED
  BY <1>1, <1>2, <1>3
     DEF R!AcceptResult, R!ConnectResult, R!ReadResult, R!TimeoutResult,
         R!WriteResult, R!RecvResult, R!SendResult, R!HandshakeResult,
         R!BindResult, R!ListenResult, R!ETIME,
         R!E_SSL_HANDSHAKE_SOCKET_READ_EOF

(* The operations and what their results are told as.                      *)
LEMMA ToldType ==
  ASSUME NEW o \in R!SysOp \cup R!RingOp, NEW r \in Int
  PROVE  /\ Told(o, r) \in [kind : {"value", "system", "kkp"}, code : Int]
         /\ Told(o, r).kind = "kkp" => Told(o, r).code \in 10086..10091
<1>1. \A n \in Int :
        /\ R!Success(n).kind = "value" /\ R!SysError(n).kind = "system"
        /\ R!Success(n) \in [kind : {"value", "system", "kkp"}, code : Int]
        /\ R!SysError(n) \in [kind : {"value", "system", "kkp"}, code : Int]
  BY DEF R!Success, R!SysError
<1>2. /\ R!KkpError(10091) \in [kind : {"value", "system", "kkp"}, code : Int]
      /\ R!KkpError(10091).code = 10091
  BY DEF R!KkpError
<1>3. o \in {"accept", "connect", "read", "timeout", "write", "recv", "send",
             "handshake_recv", "handshake_send", "setsockopt", "bind", "listen"}
  BY DEF R!SysOp, R!RingOp
<1>4. \/ \E n \in Int : Told(o, r) = R!Success(n) \/ Told(o, r) = R!SysError(n)
      \/ Told(o, r) = R!KkpError(10091)
  <2>1. CASE o \in {"accept", "connect", "read", "timeout"}
    BY <2>1, ToldBy
  <2>2. CASE o \in {"write", "recv", "send"}
    BY <2>2, ToldBy
  <2>3. CASE o \in {"handshake_recv", "handshake_send"}
    BY <2>3, ToldBy
  <2>4. CASE o \in {"setsockopt", "bind", "listen"}
    BY <2>4, ToldBy
  <2> QED
    BY <1>3, <2>1, <2>2, <2>3, <2>4
<1>5. CASE Told(o, r) = R!KkpError(10091)
  BY <1>2, <1>5
<1>6. ASSUME NEW n \in Int,
             Told(o, r) = R!Success(n) \/ Told(o, r) = R!SysError(n)
      PROVE  /\ Told(o, r) \in [kind : {"value", "system", "kkp"}, code : Int]
             /\ Told(o, r).kind # "kkp"
  BY <1>1, <1>6
<1> QED
  BY <1>4, <1>5, <1>6

(* The types of Results.                                                   *)
LEMMA ResultsTypeStep ==
  ASSUME R!TypeOK, ResultInv, [R!Next]_(R!vars) PROVE R!TypeOK'
<1>1. ASSUME NEW o \in R!SysOp, R!Call(o) PROVE R!TypeOK'
  <2>1. res' \in (-4095)..MaxCount
    BY <1>1, OutcomeRange DEF R!Call
  <2>2. res' \in (-R!E_TASK_FINISH)..MaxCount
    BY <2>1, ResultsAssumption DEF R!E_TASK_FINISH
  <2> QED
    BY <1>1, <2>2 DEF R!Call, R!TypeOK
<1>2. ASSUME NEW o \in R!RingOp, R!Submit(o) PROVE R!TypeOK'
  BY <1>2 DEF R!Submit, R!TypeOK
<1>3. ASSUME NEW o \in R!RingOp, R!Reject(o) PROVE R!TypeOK'
  <2>1. res' \in (-R!E_TASK_FINISH)..MaxCount
    BY <1>3, ResultsAssumption DEF R!Reject, R!E_TASK_FINISH
  <2> QED
    BY <1>3, <2>1 DEF R!Reject, R!TypeOK
<1>4. CASE R!Complete
  <2>1. res' \in (-4095)..MaxCount
    BY <1>4, OutcomeRange DEF R!Complete
  <2>2. res' \in (-R!E_TASK_FINISH)..MaxCount
    BY <2>1, ResultsAssumption DEF R!E_TASK_FINISH
  <2> QED
    BY <1>4, <2>2 DEF R!Complete, R!TypeOK
<1>5. CASE R!Return
  <2>1. op \in R!SysOp \cup R!RingOp /\ res \in Int
    BY <1>5, ResultsAssumption DEF R!Return, ResultInv, R!TypeOK, R!E_TASK_FINISH
  <2>2. got' = Told(op, res)
    BY <1>5 DEF R!Return, Told
  <2>3. /\ got' \in [kind : {"value", "system", "kkp"}, code : Int]
        /\ got'.kind = "kkp" => got'.code \in 10086..10091
    BY <2>1, <2>2, ToldType
  <2> QED
    BY <1>5, <2>3
       DEF R!Return, R!TypeOK, R!E_TASK_FINISH,
           R!E_SSL_HANDSHAKE_SOCKET_READ_EOF
<1>6. CASE R!NextCall
  BY <1>6 DEF R!NextCall, R!TypeOK
<1>7. CASE UNCHANGED R!vars
  BY <1>7 DEF R!vars, R!TypeOK
<1> QED
  BY <1>1, <1>2, <1>3, <1>4, <1>5, <1>6, <1>7 DEF R!Next

(* ResultInv is inductive.                                                 *)
LEMMA ResultStep ==
  ASSUME R!TypeOK, ResultInv, [R!Next]_(R!vars) PROVE ResultInv'
<1>1. ASSUME NEW o \in R!SysOp, R!Call(o) PROVE ResultInv'
  BY <1>1 DEF R!Call, ResultInv
<1>2. ASSUME NEW o \in R!RingOp, R!Submit(o) PROVE ResultInv'
  BY <1>2 DEF R!Submit, ResultInv
<1>3. ASSUME NEW o \in R!RingOp, R!Reject(o) PROVE ResultInv'
  BY <1>3 DEF R!Reject, ResultInv
<1>4. CASE R!Complete
  BY <1>4 DEF R!Complete, ResultInv
<1>5. CASE R!Return
  <2>1. got' = Told(op, res)
    BY <1>5 DEF R!Return, Told
  <2>2. got' = Told(op', res')
    BY <1>5, <2>1 DEF R!Return
  <2>3. phase = "ready" /\ phase' = "returned" /\ UNCHANGED <<op, made, res>>
    BY <1>5 DEF R!Return
  <2> QED
    BY <2>2, <2>3 DEF ResultInv
<1>6. CASE R!NextCall
  BY <1>6 DEF R!NextCall, ResultInv
<1>7. CASE UNCHANGED R!vars
  <2>1. UNCHANGED <<op, phase, made, res, got>>
    BY <1>7 DEF R!vars
  <2> QED
    BY <2>1 DEF ResultInv
<1> QED
  BY <1>1, <1>2, <1>3, <1>4, <1>5, <1>6, <1>7 DEF R!Next

(* The initial state.                                                      *)
LEMMA ResultsInit == R!Init => R!TypeOK /\ ResultInv
<1>1. R!Success(0) \in [kind : {"value", "system", "kkp"}, code : Int]
      /\ R!Success(0).kind = "value"
  BY DEF R!Success
<1>2. 0 \in (-R!E_TASK_FINISH)..MaxCount
  BY ResultsAssumption DEF R!E_TASK_FINISH
<1> QED
  BY <1>1, <1>2 DEF R!Init, R!TypeOK, ResultInv

(* What a step of Results is to the library.                               *)
LEMMA ResultsArea ==
  /\ LibraryInit => R!Init
  /\ [LibraryNext]_libraryVars => [R!Next]_(R!vars)
BY DEF LibraryInit, LibraryNext, libraryVars, resultVars, R!vars

(* The invariants of Results hold together.                                *)
LEMMA ResultsAlways == LibrarySpec => [](R!TypeOK /\ ResultInv)
<1>1. LibraryInit => R!TypeOK /\ ResultInv
  BY ResultsArea, ResultsInit
<1>2. R!TypeOK /\ ResultInv /\ [LibraryNext]_libraryVars
        => (R!TypeOK /\ ResultInv)'
  BY ResultsArea, ResultsTypeStep, ResultStep
<1> QED
  BY <1>1, <1>2, PTL DEF LibrarySpec

(* OutcomeIsTold, for await_resume, server_socket, handshake and message:  *)
(* through all the conversions the caller has a success exactly if there   *)
(* was one, but for an accepted descriptor 0; it knows a refusal; and it   *)
(* gets the errno, but for setsockopt and listen, in the form its message  *)
(* needs only from reads, delays and handshakes.                           *)
THEOREM OutcomesTold == LibrarySpec => []OutcomeIsTold
<1>1. ASSUME R!TypeOK, ResultInv PROVE OutcomeIsTold
  <2> USE DEF R!Success, R!SysError, R!KkpError
  <2>0. res \in Int
    BY <1>1, ResultsAssumption DEF R!TypeOK, R!E_TASK_FINISH
  <2>1. ASSUME phase = "returned", made
        PROVE  /\ res \in (-4095)..MaxCount /\ op \in R!SysOp \cup R!RingOp
               /\ res < 0 => -res \in Errno
               /\ got = Told(op, res)
    <3>1. res \in R!Outcomes(op)
      BY <1>1, <2>1 DEF ResultInv
    <3>2. res < 0 => -res \in Errno
      <4>1. (\E e \in Errno : res = -e) \/ ~(res < 0)
        BY <3>1, ResultsAssumption DEF R!Outcomes
      <4> QED
        BY <4>1, ResultsAssumption
    <3> QED
      BY <1>1, <2>1, <3>1, <3>2, OutcomeRange DEF ResultInv
  <2>2. ASSUME phase = "returned", ~made
        PROVE  res = -10086 /\ op \in R!RingOp /\ got = Told(op, res)
    BY <1>1, <2>2 DEF ResultInv, R!E_TASK_FINISH
  <2>3. R!SuccessIsTold
    <3>1. CASE phase = "returned" /\ made
      <4>1. op \in {"accept", "connect", "read", "timeout", "write", "recv",
                    "send", "handshake_recv", "handshake_send", "setsockopt",
                    "bind", "listen"}
        BY <2>1, <3>1 DEF R!SysOp, R!RingOp
      <4>2. got = Told(op, res)
        BY <2>1, <3>1
      <4>3. CASE op = "accept"
        BY <2>0, <3>1, <4>2, <4>3, ToldBy
           DEF R!SuccessIsTold, R!AcceptedZero, R!ToldSuccess, R!Succeeded
      <4>4. CASE op = "timeout"
        BY <2>0, <3>1, <4>2, <4>4, ToldBy
           DEF R!SuccessIsTold, R!AcceptedZero, R!ToldSuccess, R!Succeeded, R!ETIME
      <4>5. CASE op \in {"setsockopt", "bind", "listen"}
        <5>1. res <= 0
          <6>1. op \in R!SysOp /\ op # "timeout"
            BY <4>5 DEF R!SysOp
          <6>2. (\E e \in Errno : res = -e) \/ res = 0
            BY <1>1, <3>1, <6>1 DEF ResultInv, R!Outcomes
          <6> QED
            BY <6>2, Negative
        <5> QED
          BY <2>0, <3>1, <4>2, <4>5, <5>1, ToldBy
             DEF R!SuccessIsTold, R!AcceptedZero, R!ToldSuccess, R!Succeeded
      <4>6. CASE op \in {"connect", "read", "write", "recv", "send",
                         "handshake_recv", "handshake_send"}
        BY <2>0, <3>1, <4>2, <4>6, ToldBy
           DEF R!SuccessIsTold, R!AcceptedZero, R!ToldSuccess, R!Succeeded
      <4> QED
        BY <4>1, <4>3, <4>4, <4>5, <4>6
    <3>2. CASE phase = "returned" /\ ~made
      BY <2>2, <3>2, ToldBy
         DEF R!SuccessIsTold, R!AcceptedZero, R!ToldSuccess, R!Succeeded, R!RingOp
    <3> QED
      BY <1>1, <3>1, <3>2 DEF R!SuccessIsTold, R!TypeOK
  <2>4. R!RefusalIsKnown
    <3>1. CASE phase = "returned" /\ made
      <4>1. \/ got.kind = "value" /\ got.code # -10086
            \/ got.kind # "value" /\ got.code \notin {10086, -10086}
        <5>1. res >= -4095 /\ got = Told(op, res)
          BY <2>0, <2>1, <3>1, ResultsAssumption
        <5>2. op \in {"accept", "connect", "read", "timeout", "write", "recv",
                     "send", "handshake_recv", "handshake_send", "setsockopt",
                     "bind", "listen"}
          BY <2>1, <3>1 DEF R!SysOp, R!RingOp
        <5>3. CASE op \in {"accept", "connect"}
          BY <2>0, <5>1, <5>3, ToldBy
        <5>4. CASE op \in {"read", "timeout"}
          <6>1. op = "timeout" => res < 0
            <7>1. op = "timeout" => \E e \in Errno : res = -e
              BY <1>1, <3>1 DEF ResultInv, R!Outcomes, R!SysOp
            <7> QED
              BY <7>1, Negative
          <6> QED
            BY <2>0, <5>1, <5>4, <6>1, ToldBy
        <5>5. CASE op \in {"write", "recv", "send"}
          BY <2>0, <5>1, <5>5, ToldBy
        <5>6. CASE op \in {"handshake_recv", "handshake_send"}
          BY <2>0, <5>1, <5>6, ToldBy
        <5>7. CASE op \in {"setsockopt", "bind", "listen"}
          <6>1. res <= 0
            <7>1. op \in R!SysOp /\ op # "timeout"
              BY <5>7 DEF R!SysOp
            <7>2. (\E e \in Errno : res = -e) \/ res = 0
              BY <1>1, <3>1, <7>1 DEF ResultInv, R!Outcomes
            <7> QED
              BY <7>2, Negative
          <6> QED
            BY <2>0, <5>1, <5>7, <6>1, ToldBy
        <5> QED
          BY <5>2, <5>3, <5>4, <5>5, <5>6, <5>7
      <4> QED
        BY <3>1, <4>1 DEF R!RefusalIsKnown, R!E_TASK_FINISH
    <3>2. CASE phase = "returned" /\ ~made
      BY <2>2, <3>2, ToldBy DEF R!RefusalIsKnown, R!E_TASK_FINISH, R!RingOp
    <3> QED
      BY <1>1, <3>1, <3>2 DEF R!RefusalIsKnown, R!TypeOK
  <2>5. R!ErrnoIsTold
    <3> SUFFICES ASSUME R!Failed, made
                 PROVE  /\ op \notin {"setsockopt", "listen"} =>
                             got.code \in {res, -res}
                        /\ got.kind = "system" =>
                             (R!Message(got) = <<"errno", -res>> <=>
                                op \in {"read", "timeout", "handshake_recv",
                                        "handshake_send"})
      BY DEF R!ErrnoIsTold
    <3>1. phase = "returned" /\ res < 0 /\ ~(op = "timeout" /\ res = -62)
      BY DEF R!Failed, R!ETIME
    <3>2. -res \in Errno /\ got = Told(op, res) /\ res \notin Errno
      BY <2>0, <2>1, <3>1, ResultsAssumption
    <3>3. op \in {"accept", "connect", "read", "timeout", "write", "recv",
                  "send", "handshake_recv", "handshake_send", "setsockopt",
                  "bind", "listen"}
      BY <2>1, <3>1 DEF R!SysOp, R!RingOp
    <3>4. CASE op \in {"read", "timeout", "handshake_recv", "handshake_send"}
      <4>1. got = R!SysError(-res)
        BY <2>0, <3>1, <3>2, <3>4, ToldBy
      <4> QED
        BY <3>2, <3>4, <4>1 DEF R!Message
    <3>5. CASE op \in {"accept", "connect", "bind"}
      <4>1. got = R!SysError(res)
        BY <2>0, <3>1, <3>2, <3>5, ToldBy
      <4> QED
        BY <3>2, <3>5, <4>1 DEF R!Message
    <3>6. CASE op \in {"write", "recv", "send"}
      BY <2>0, <3>2, <3>6, ToldBy
    <3>7. CASE op \in {"setsockopt", "listen"}
      <4>1. got = R!SysError(-1)
        BY <2>0, <3>1, <3>2, <3>7, ToldBy
      <4>2. -1 \notin Errno
        BY ResultsAssumption
      <4> QED
        BY <3>7, <4>1, <4>2 DEF R!Message
    <3> QED
      BY <3>3, <3>4, <3>5, <3>6, <3>7
  <2> QED
    BY <2>3, <2>4, <2>5 DEF OutcomeIsTold, R!OutcomeIsTold
<1> QED
  BY <1>1, ResultsAlways, PTL

-----------------------------------------------------------------------------
(* Endpoints.                                                              *)

(* The two bytes of a word.                                                *)
Low(w) == w % 256
High(w) == w \div 256

(* The numbers of 16 bits.                                                 *)
LEMMA WordIs ==
  \A w : w \in E!Word <=> w \in Nat /\ w < 65536
<1>1. E!MaxWord \in Nat /\ \A w \in Nat : w <= E!MaxWord <=> w < 65536
  BY DEF E!MaxWord
<1> QED
  BY <1>1 DEF E!Word

(* A word is made of its bytes,                                            *)
LEMMA TakeApart ==
  ASSUME NEW w \in Nat, w < 65536
  PROVE  /\ Low(w) \in Nat /\ Low(w) < 256
         /\ High(w) \in Nat /\ High(w) < 256
         /\ w = High(w) * 256 + Low(w)
<1>1. Low(w) \in Nat /\ Low(w) < 256
  BY DEF Low
<1>2. w = High(w) * 256 + Low(w)
  BY DEF Low, High
<1>3. High(w) \in Int
  BY DEF High
<1>4. High(w) \in Nat /\ High(w) < 256
  BY <1>1, <1>2, <1>3
<1> QED
  BY <1>1, <1>2, <1>4

(* and two bytes are those of the word they make.                          *)
LEMMA PutTogether ==
  ASSUME NEW a \in Nat, NEW b \in Nat, a < 256, b < 256
  PROVE  /\ b * 256 + a \in Nat /\ b * 256 + a < 65536
         /\ Low(b * 256 + a) = a /\ High(b * 256 + a) = b
<1>1. b * 256 + a \in Nat /\ b * 256 + a < 65536
  OBVIOUS
<1>2. Low(b * 256 + a) = a
  BY DEF Low
<1>3. High(b * 256 + a) = b
  BY DEF High
<1> QED
  BY <1>1, <1>2, <1>3

(* htons and ntohs undo each other.                                        *)
LEMMA SwapTwice ==
  \A w \in E!Word : E!Swap(w) \in E!Word /\ E!Swap(E!Swap(w)) = w
<1> SUFFICES ASSUME NEW w \in Nat, w < 65536
             PROVE  /\ E!Swap(w) \in Nat /\ E!Swap(w) < 65536
                    /\ E!Swap(E!Swap(w)) = w
  BY WordIs
<1>1. \A x : E!Swap(x) = Low(x) * 256 + High(x)
  BY DEF E!Swap, Low, High
<1>2. /\ Low(w) \in Nat /\ Low(w) < 256
      /\ High(w) \in Nat /\ High(w) < 256
      /\ w = High(w) * 256 + Low(w)
  BY TakeApart
<1>3. /\ E!Swap(w) \in Nat /\ E!Swap(w) < 65536
      /\ Low(E!Swap(w)) = High(w) /\ High(E!Swap(w)) = Low(w)
  BY <1>1, <1>2, PutTogether
<1> QED
  BY <1>1, <1>2, <1>3

(* The addresses a name stands for: itself, or those of its host.          *)
Meant(name) == {name} \cup IF name \in Host THEN HostIps[name] ELSE {}

(* A socket that was opened for a host has one of its addresses, in        *)
(* network byte order, and its IP if it is of IPv4.  A socket with a peer  *)
(* is connected, has the whole address of the peer, and if it was opened   *)
(* for a host, the peer is what its address says.                          *)
AddressOf(s) ==
  asked[s] # None =>
    \E ip \in Meant(asked[s][1]) \cap E!Ip :
      peer[s] = E!Filled(ip, asked[s][2])

PeerOf(s) ==
  remote[s] # None =>
    /\ peer[s].family = "v4" /\ peer[s].ip = remote[s][1]
    /\ asked[s] # None => remote[s][2] = E!Swap(peer[s].port)

EndpointInv ==
  \A s \in Sock :
    /\ peer[s].family = "v4" => peer[s].ip \in E!Ip
    /\ state[s] \in {"none", "open"} => remote[s] = None
    /\ state[s] = "none" => asked[s] = None
    /\ state[s] = "ok" /\ asked[s] # None => remote[s] # None
    /\ AddressOf(s) /\ PeerOf(s)

(* The addresses of the code.                                              *)
LEMMA FilledType ==
  ASSUME NEW ip \in E!Ip, NEW port \in Port
  PROVE  /\ E!Filled(ip, port) \in E!Address
         /\ E!Filled(ip, port).family \in {"v4", "v6"}
         /\ E!Filled(ip, port).family = "v4" => E!Filled(ip, port).ip = ip
         /\ E!Filled(ip, port).port = E!Swap(port)
<1>1. E!Swap(port) \in E!Word
  BY EndpointsAssumption, SwapTwice
<1>2. CASE ip \in V4
  <2>1. E!Filled(ip, port) = [family |-> "v4", ip |-> ip, port |-> E!Swap(port)]
    BY <1>2 DEF E!Filled
  <2> QED
    BY <1>1, <2>1 DEF E!Address
<1>3. CASE ip \notin V4
  <2>1. E!Filled(ip, port) =
          [family |-> "v6", ip |-> None, port |-> E!Swap(port)]
    BY <1>3 DEF E!Filled
  <2> QED
    BY <1>1, <2>1 DEF E!Address
<1> QED
  BY <1>2, <1>3

(* Every candidate is an address of what was asked for.                    *)
LEMMA CandidatesMeant ==
  ASSUME NEW name \in Host \cup E!Ip
  PROVE  E!Candidates(name) \subseteq Meant(name) \cap E!Ip
<1>1. CASE name \in E!Ip
  BY <1>1 DEF E!Candidates, Meant
<1>2. CASE name \notin E!Ip
  <2>1. name \in Host /\ HostIps[name] \subseteq E!Ip
    BY <1>2, EndpointsAssumption DEF E!Ip
  <2> QED
    BY <1>2, <2>1 DEF E!Candidates, E!Resolved, Meant
<1> QED
  BY <1>1, <1>2

(* What each action does to its socket, and that it leaves the others.     *)
LEMMA SocketStep ==
  ASSUME E!TypeOK, E!Next
  PROVE  \E s \in Sock :
           /\ \A z \in Sock \ {s} :
                /\ state'[z] = state[z] /\ peer'[z] = peer[z]
                /\ asked'[z] = asked[z] /\ remote'[z] = remote[z]
           /\ \/ \E name \in Host \cup E!Ip, port \in Port :
                   /\ state[s] = "none" /\ state'[s] = "open"
                   /\ asked'[s] = <<name, port>> /\ remote'[s] = remote[s]
                   /\ \E ip \in E!Candidates(name) :
                        peer'[s] = E!Filled(ip, port)
              \/ /\ state[s] = "none" /\ state'[s] = "open"
                 /\ asked'[s] = asked[s] /\ remote'[s] = remote[s]
                 /\ peer'[s] = peer[s]
              \/ /\ state[s] = "open" /\ peer'[s] = peer[s]
                 /\ asked'[s] = asked[s]
                 /\ \/ /\ peer[s].family = "v4" /\ state'[s] = "ok"
                       /\ remote'[s] = <<peer[s].ip, E!Swap(peer[s].port)>>
                    \/ /\ state'[s] \in {"refused", "family"}
                       /\ remote'[s] = remote[s]
                    \/ /\ peer[s].family = "unspec" /\ state'[s] = "ok"
                       /\ remote'[s] = remote[s]
              \/ \E ip \in V4, port \in Port :
                   /\ state[s] = "none" /\ state'[s] = "ok"
                   /\ asked'[s] = asked[s] /\ remote'[s] = <<ip, port>>
                   /\ peer'[s] = [family |-> "v4", ip |-> ip,
                                  port |-> E!Swap(port)]
              \/ /\ state'[s] = "none" /\ peer'[s] = E!NoAddress
                 /\ asked'[s] = None /\ remote'[s] = None
<1>1. ASSUME NEW s \in Sock, NEW name \in Host \cup E!Ip, NEW port \in Port,
             E!OpenTo(s, name, port)
      PROVE  /\ \A z \in Sock \ {s} :
                  /\ state'[z] = state[z] /\ peer'[z] = peer[z]
                  /\ asked'[z] = asked[z] /\ remote'[z] = remote[z]
             /\ state[s] = "none" /\ state'[s] = "open"
             /\ asked'[s] = <<name, port>> /\ remote'[s] = remote[s]
             /\ \E ip \in E!Candidates(name) : peer'[s] = E!Filled(ip, port)
  BY <1>1 DEF E!OpenTo, E!TypeOK
<1>2. ASSUME NEW s \in Sock, E!OpenPlain(s)
      PROVE  /\ \A z \in Sock \ {s} :
                  /\ state'[z] = state[z] /\ peer'[z] = peer[z]
                  /\ asked'[z] = asked[z] /\ remote'[z] = remote[z]
             /\ state[s] = "none" /\ state'[s] = "open"
             /\ asked'[s] = asked[s] /\ remote'[s] = remote[s]
             /\ peer'[s] = peer[s]
  BY <1>2 DEF E!OpenPlain, E!TypeOK
<1>3. ASSUME NEW s \in Sock, E!Connect(s)
      PROVE  /\ \A z \in Sock \ {s} :
                  /\ state'[z] = state[z] /\ peer'[z] = peer[z]
                  /\ asked'[z] = asked[z] /\ remote'[z] = remote[z]
             /\ state[s] = "open" /\ peer'[s] = peer[s]
             /\ asked'[s] = asked[s]
             /\ \/ /\ peer[s].family = "v4" /\ state'[s] = "ok"
                   /\ remote'[s] = <<peer[s].ip, E!Swap(peer[s].port)>>
                \/ /\ state'[s] \in {"refused", "family"}
                   /\ remote'[s] = remote[s]
                \/ /\ peer[s].family = "unspec" /\ state'[s] = "ok"
                   /\ remote'[s] = remote[s]
  <2>1. peer[s].family \in {"unspec", "v4", "v6"}
    BY DEF E!TypeOK, E!Address
  <2>2. peer[s] = peer'[s] /\ asked' = asked /\ peer' = peer /\ state[s] = "open"
    BY <1>3 DEF E!Connect
  <2>3. \/ /\ peer[s].family = "v4"
           /\ \/ /\ state' = [state EXCEPT ![s] = "ok"]
                 /\ remote' = [remote EXCEPT
                                 ![s] = <<peer[s].ip, E!Swap(peer[s].port)>>]
              \/ state' = [state EXCEPT ![s] = "refused"] /\ remote' = remote
        \/ /\ peer[s].family = "v6" /\ remote' = remote
           /\ state' = [state EXCEPT ![s] = "family"]
        \/ /\ peer[s].family = "unspec" /\ remote' = remote
           /\ state' = [state EXCEPT ![s] = "ok"]
    BY <1>3, <2>1 DEF E!Connect
  <2> QED
    BY <2>2, <2>3 DEF E!TypeOK
<1>4. ASSUME NEW s \in Sock, NEW ip \in V4, NEW port \in Port,
             E!Accept(s, ip, port)
      PROVE  /\ \A z \in Sock \ {s} :
                  /\ state'[z] = state[z] /\ peer'[z] = peer[z]
                  /\ asked'[z] = asked[z] /\ remote'[z] = remote[z]
             /\ state[s] = "none" /\ state'[s] = "ok"
             /\ asked'[s] = asked[s] /\ remote'[s] = <<ip, port>>
             /\ peer'[s] = [family |-> "v4", ip |-> ip, port |-> E!Swap(port)]
  BY <1>4 DEF E!Accept, E!TypeOK
<1>5. ASSUME NEW s \in Sock, E!Drop(s)
      PROVE  /\ \A z \in Sock \ {s} :
                  /\ state'[z] = state[z] /\ peer'[z] = peer[z]
                  /\ asked'[z] = asked[z] /\ remote'[z] = remote[z]
             /\ state'[s] = "none" /\ peer'[s] = E!NoAddress
             /\ asked'[s] = None /\ remote'[s] = None
  BY <1>5 DEF E!Drop, E!TypeOK
<1> QED
  BY <1>1, <1>2, <1>3, <1>4, <1>5 DEF E!Next

(* EndpointInv is inductive.                                               *)
LEMMA EndpointStep ==
  ASSUME E!TypeOK, EndpointInv, [E!Next]_(E!vars) PROVE EndpointInv'
<1>1. CASE UNCHANGED E!vars
  <2>1. UNCHANGED <<state, peer, asked, remote>>
    BY <1>1 DEF E!vars
  <2> QED
    BY <2>1 DEF EndpointInv, AddressOf, PeerOf
<1>2. CASE E!Next
  <2>1. PICK s \in Sock :
           /\ \A z \in Sock \ {s} :
                /\ state'[z] = state[z] /\ peer'[z] = peer[z]
                /\ asked'[z] = asked[z] /\ remote'[z] = remote[z]
           /\ \/ \E name \in Host \cup E!Ip, port \in Port :
                   /\ state[s] = "none" /\ state'[s] = "open"
                   /\ asked'[s] = <<name, port>> /\ remote'[s] = remote[s]
                   /\ \E ip \in E!Candidates(name) :
                        peer'[s] = E!Filled(ip, port)
              \/ /\ state[s] = "none" /\ state'[s] = "open"
                 /\ asked'[s] = asked[s] /\ remote'[s] = remote[s]
                 /\ peer'[s] = peer[s]
              \/ /\ state[s] = "open" /\ peer'[s] = peer[s]
                 /\ asked'[s] = asked[s]
                 /\ \/ /\ peer[s].family = "v4" /\ state'[s] = "ok"
                       /\ remote'[s] = <<peer[s].ip, E!Swap(peer[s].port)>>
                    \/ /\ state'[s] \in {"refused", "family"}
                       /\ remote'[s] = remote[s]
                    \/ /\ peer[s].family = "unspec" /\ state'[s] = "ok"
                       /\ remote'[s] = remote[s]
              \/ \E ip \in V4, port \in Port :
                   /\ state[s] = "none" /\ state'[s] = "ok"
                   /\ asked'[s] = asked[s] /\ remote'[s] = <<ip, port>>
                   /\ peer'[s] = [family |-> "v4", ip |-> ip,
                                  port |-> E!Swap(port)]
              \/ /\ state'[s] = "none" /\ peer'[s] = E!NoAddress
                 /\ asked'[s] = None /\ remote'[s] = None
    BY <1>2, SocketStep
  <2> DEFINE Good(z) ==
        /\ peer[z].family = "v4" => peer[z].ip \in E!Ip
        /\ state[z] \in {"none", "open"} => remote[z] = None
        /\ state[z] = "none" => asked[z] = None
        /\ state[z] = "ok" /\ asked[z] # None => remote[z] # None
        /\ AddressOf(z) /\ PeerOf(z)
  <2>2. ASSUME NEW z \in Sock \ {s} PROVE Good(z)'
    BY <2>1 DEF EndpointInv, AddressOf, PeerOf
  <2>3. Good(s)
    BY DEF EndpointInv
  <2>4. Good(s)'
    <3>1. CASE \E name \in Host \cup E!Ip, port \in Port :
                 /\ state[s] = "none" /\ state'[s] = "open"
                 /\ asked'[s] = <<name, port>> /\ remote'[s] = remote[s]
                 /\ \E ip \in E!Candidates(name) : peer'[s] = E!Filled(ip, port)
      <4>1. PICK name \in Host \cup E!Ip, port \in Port :
                 /\ state[s] = "none" /\ state'[s] = "open"
                 /\ asked'[s] = <<name, port>> /\ remote'[s] = remote[s]
                 /\ \E ip \in E!Candidates(name) : peer'[s] = E!Filled(ip, port)
        BY <3>1
      <4>2. AddressOf(s)'
        BY <4>1, CandidatesMeant DEF AddressOf
      <4>4. peer'[s].family = "v4" => peer'[s].ip \in E!Ip
        <5>1. PICK ip \in E!Ip : peer'[s] = E!Filled(ip, port)
          BY <4>1, CandidatesMeant
        <5> QED
          BY <5>1, FilledType
      <4>3. PeerOf(s)'
        BY <2>3, <4>1 DEF PeerOf
      <4> QED
        BY <2>3, <4>1, <4>2, <4>3, <4>4
    <3>2. CASE /\ state[s] = "none" /\ state'[s] = "open"
               /\ asked'[s] = asked[s] /\ remote'[s] = remote[s]
               /\ peer'[s] = peer[s]
      BY <2>3, <3>2 DEF AddressOf, PeerOf
    <3>3. CASE /\ state[s] = "open" /\ peer'[s] = peer[s]
               /\ asked'[s] = asked[s]
               /\ \/ /\ peer[s].family = "v4" /\ state'[s] = "ok"
                     /\ remote'[s] = <<peer[s].ip, E!Swap(peer[s].port)>>
                  \/ /\ state'[s] \in {"refused", "family"}
                     /\ remote'[s] = remote[s]
                  \/ /\ peer[s].family = "unspec" /\ state'[s] = "ok"
                     /\ remote'[s] = remote[s]
      <4>1. AddressOf(s)'
        BY <2>3, <3>3 DEF AddressOf
      <4>2. asked[s] # None => peer[s].family \in {"v4", "v6"}
        <5> SUFFICES ASSUME asked[s] # None PROVE peer[s].family \in {"v4", "v6"}
          OBVIOUS
        <5>1. PICK ip \in E!Ip : peer[s] = E!Filled(ip, asked[s][2])
          BY <2>3 DEF AddressOf
        <5>2. asked[s][2] \in Port
          BY DEF E!TypeOK
        <5> QED
          BY <5>1, <5>2, FilledType
      <4>3. CASE /\ peer[s].family = "v4" /\ state'[s] = "ok"
                 /\ remote'[s] = <<peer[s].ip, E!Swap(peer[s].port)>>
        <5>1. peer[s].ip \in E!Ip /\ E!Swap(peer[s].port) \in E!Word
          BY <2>3, <4>3, SwapTwice DEF E!TypeOK, E!Address
        <5>2. remote'[s] # None
          BY <4>3, <5>1, NoneAssumption
        <5> QED
          BY <2>3, <3>3, <4>1, <4>3, <5>2 DEF PeerOf
      <4>4. CASE /\ state'[s] \in {"refused", "family"}
                 /\ remote'[s] = remote[s]
        BY <2>3, <3>3, <4>1, <4>4 DEF PeerOf
      <4>5. CASE /\ peer[s].family = "unspec" /\ state'[s] = "ok"
                 /\ remote'[s] = remote[s]
        BY <2>3, <3>3, <4>1, <4>2, <4>5 DEF PeerOf
      <4> QED
        BY <3>3, <4>3, <4>4, <4>5
    <3>4. CASE \E ip \in V4, port \in Port :
                 /\ state[s] = "none" /\ state'[s] = "ok"
                 /\ asked'[s] = asked[s] /\ remote'[s] = <<ip, port>>
                 /\ peer'[s] = [family |-> "v4", ip |-> ip,
                                port |-> E!Swap(port)]
      BY <2>3, <3>4 DEF AddressOf, PeerOf, E!Ip
    <3>5. CASE /\ state'[s] = "none" /\ peer'[s] = E!NoAddress
               /\ asked'[s] = None /\ remote'[s] = None
      BY <3>5 DEF AddressOf, PeerOf, E!NoAddress
    <3> QED
      BY <2>1, <3>1, <3>2, <3>3, <3>4, <3>5
  <2> QED
    BY <2>2, <2>4 DEF EndpointInv
<1> QED
  BY <1>1, <1>2

(* The types of Endpoints.                                                 *)
LEMMA EndpointsTypeStep ==
  ASSUME E!TypeOK, EndpointInv, [E!Next]_(E!vars) PROVE E!TypeOK'
<1>1. ASSUME NEW s \in Sock, NEW name \in Host \cup E!Ip, NEW port \in Port,
             E!OpenTo(s, name, port)
      PROVE  E!TypeOK'
  <2>1. PICK ip \in E!Ip : peer' = [peer EXCEPT ![s] = E!Filled(ip, port)]
    BY <1>1, CandidatesMeant DEF E!OpenTo
  <2>2. peer' \in [Sock -> E!Address]
    BY <2>1, FilledType DEF E!TypeOK
  <2>3. asked' \in [Sock -> ((Host \cup E!Ip) \X Port) \cup {None}]
    BY <1>1 DEF E!OpenTo, E!TypeOK
  <2> QED
    BY <1>1, <2>2, <2>3 DEF E!OpenTo, E!TypeOK
<1>2. ASSUME NEW s \in Sock, E!OpenPlain(s) PROVE E!TypeOK'
  BY <1>2 DEF E!OpenPlain, E!TypeOK
<1>3. ASSUME NEW s \in Sock, E!Connect(s) PROVE E!TypeOK'
  <2>1. UNCHANGED <<hasV6, peer, asked>>
    BY <1>3 DEF E!Connect
  <2>2. state' \in [Sock -> {"none", "open", "ok", "refused", "family"}]
    BY <1>3 DEF E!Connect, E!TypeOK
  <2>3. \/ remote' = remote
        \/ /\ peer[s].family = "v4"
           /\ remote' = [remote EXCEPT
                           ![s] = <<peer[s].ip, E!Swap(peer[s].port)>>]
    BY <1>3 DEF E!Connect
  <2>4. peer[s].family = "v4" =>
          peer[s].ip \in E!Ip /\ E!Swap(peer[s].port) \in E!Word
    BY SwapTwice DEF EndpointInv, E!TypeOK, E!Address
  <2>5. remote' \in [Sock -> (E!Ip \X E!Word) \cup {None}]
    BY <2>3, <2>4 DEF E!TypeOK
  <2> QED
    BY <2>1, <2>2, <2>5 DEF E!TypeOK
<1>4. ASSUME NEW s \in Sock, NEW ip \in V4, NEW port \in Port,
             E!Accept(s, ip, port)
      PROVE  E!TypeOK'
  <2>1. E!Swap(port) \in E!Word /\ port \in E!Word /\ ip \in E!Ip
    BY EndpointsAssumption, SwapTwice DEF E!Ip
  <2>2. [family |-> "v4", ip |-> ip, port |-> E!Swap(port)] \in E!Address
    BY <2>1 DEF E!Address
  <2> QED
    BY <1>4, <2>1, <2>2 DEF E!Accept, E!TypeOK
<1>5. ASSUME NEW s \in Sock, E!Drop(s) PROVE E!TypeOK'
  <2>1. E!NoAddress \in E!Address
    BY WordIs DEF E!NoAddress, E!Address
  <2> QED
    BY <1>5, <2>1 DEF E!Drop, E!TypeOK
<1>6. CASE UNCHANGED E!vars
  BY <1>6 DEF E!vars, E!TypeOK
<1> QED
  BY <1>1, <1>2, <1>3, <1>4, <1>5, <1>6 DEF E!Next

(* The initial state.                                                      *)
LEMMA EndpointsInit == E!Init => E!TypeOK /\ EndpointInv
<1> SUFFICES ASSUME E!Init PROVE E!TypeOK /\ EndpointInv
  OBVIOUS
<1>1. E!NoAddress \in E!Address /\ E!NoAddress.family = "unspec"
  BY WordIs DEF E!NoAddress, E!Address
<1>2. E!TypeOK
  BY <1>1 DEF E!Init, E!TypeOK
<1>3. EndpointInv
  BY <1>1 DEF E!Init, EndpointInv, AddressOf, PeerOf
<1> QED
  BY <1>2, <1>3

(* What a step of Endpoints is to the library.                             *)
LEMMA EndpointsArea ==
  /\ LibraryInit => E!Init
  /\ [LibraryNext]_libraryVars => [E!Next]_(E!vars)
BY DEF LibraryInit, LibraryNext, libraryVars, endpointVars, E!vars

(* The invariants of Endpoints hold together.                              *)
LEMMA EndpointsAlways == LibrarySpec => [](E!TypeOK /\ EndpointInv)
<1>1. LibraryInit => E!TypeOK /\ EndpointInv
  BY EndpointsArea, EndpointsInit
<1>2. E!TypeOK /\ EndpointInv /\ [LibraryNext]_libraryVars
        => (E!TypeOK /\ EndpointInv)'
  BY EndpointsArea, EndpointsTypeStep, EndpointStep
<1> QED
  BY <1>1, <1>2, PTL DEF LibrarySpec

(* ConnectedAsAsked, for address, endpoint and socket::connect and accept: *)
(* a connection leads to the host and the port that were asked for, and a  *)
(* socket with a peer has the whole address of it, whatever the hosts,     *)
(* addresses and ports.                                                    *)
THEOREM Connected == LibrarySpec => []ConnectedAsAsked
<1>1. ASSUME E!TypeOK, EndpointInv PROVE ConnectedAsAsked
  <2>1. ASSUME NEW s \in Sock, state[s] = "ok", asked[s] # None
        PROVE  /\ remote[s] # None
               /\ remote[s][1] \in Meant(asked[s][1])
               /\ remote[s][2] = asked[s][2]
    <3>1. remote[s] # None
      BY <1>1, <2>1 DEF EndpointInv
    <3>2. PICK ip \in Meant(asked[s][1]) \cap E!Ip :
            peer[s] = E!Filled(ip, asked[s][2])
      BY <1>1, <2>1 DEF EndpointInv, AddressOf
    <3>3. /\ peer[s].family = "v4" /\ peer[s].ip = remote[s][1]
          /\ remote[s][2] = E!Swap(peer[s].port)
      BY <1>1, <2>1, <3>1 DEF EndpointInv, PeerOf
    <3>4. asked[s][2] \in Port /\ asked[s][2] \in E!Word
      BY <1>1, <2>1, EndpointsAssumption DEF E!TypeOK
    <3>5. peer[s].ip = ip /\ peer[s].port = E!Swap(asked[s][2])
      BY <3>2, <3>3, <3>4, FilledType
    <3>6. remote[s][2] = asked[s][2]
      BY <3>3, <3>4, <3>5, SwapTwice
    <3> QED
      BY <3>1, <3>2, <3>3, <3>5, <3>6
  <2>2. ASSUME NEW s \in Sock, remote[s] # None
        PROVE  E!ShownIp(s) = remote[s][1]
    BY <1>1, <2>2 DEF EndpointInv, PeerOf, E!ShownIp
  <2> QED
    BY <2>1, <2>2 DEF ConnectedAsAsked, E!ConnectedAsAsked, Meant
<1> QED
  BY <1>1, EndpointsAlways, PTL

-----------------------------------------------------------------------------
(* Headers.                                                                *)

(* A least element of a set of numbers is the one that Min chooses.        *)
LEMMA LeastIs ==
  ASSUME NEW T \in SUBSET Nat, NEW i \in T, \A j \in T : i <= j
  PROVE  H!Min(T) = i
<1>1. \E x \in T : \A y \in T : x <= y
  OBVIOUS
<1> DEFINE m == H!Min(T)
<1>2. m \in T /\ \A y \in T : m <= y
  BY <1>1 DEF H!Min
<1> HIDE DEF m
<1>3. m = i
  BY <1>2
<1> QED
  BY <1>3 DEF m

(* What get reads is the value of the first entry of the name.             *)
LEMMA ReadsFirst ==
  ASSUME NEW m \in Seq(H!Entry), NEW n, NEW i \in DOMAIN m,
         m[i].name = n, \A j \in DOMAIN m : m[j].name = n => i <= j
  PROVE  H!Get(m, n) = m[i].value
<1>1. H!EqualRange(m, n) \in SUBSET Nat /\ i \in H!EqualRange(m, n)
  BY DEF H!EqualRange
<1>2. \A j \in H!EqualRange(m, n) : i <= j
  BY DEF H!EqualRange
<1>3. H!Min(H!EqualRange(m, n)) = i
  BY <1>1, <1>2, LeastIs
<1> QED
  BY <1>1, <1>3 DEF H!Get

(* Where equal_range is not empty it has a first entry.                    *)
LEMMA FirstOf ==
  ASSUME NEW m \in Seq(H!Entry), NEW n, H!EqualRange(m, n) # {}
  PROVE  \E i \in DOMAIN m :
           m[i].name = n /\ \A j \in DOMAIN m : m[j].name = n => i <= j
<1>1. H!EqualRange(m, n) \in SUBSET Nat
  BY DEF H!EqualRange
<1>2. PICK x \in H!EqualRange(m, n) :
        \A y \in H!EqualRange(m, n) : ~ (<<y, x>> \in OpToRel(<, Nat))
  BY <1>1, NatLessThanWellFounded, WFMin
<1>3. ASSUME NEW y \in H!EqualRange(m, n) PROVE x <= y
  <2>1. y \in Nat /\ x \in Nat
    BY <1>1
  <2>2. y < x => <<y, x>> \in OpToRel(<, Nat)
    BY <2>1 DEF OpToRel
  <2>3. ~(y < x)
    BY <1>2, <2>2
  <2> QED
    BY <2>1, <2>3
<1>4. /\ x \in DOMAIN m /\ m[x].name = n
      /\ \A j \in DOMAIN m : m[j].name = n => x <= j
  BY <1>3 DEF H!EqualRange
<1> QED
  BY <1>4

(* A name without an entry reads as none, and one with an entry does not.  *)
LEMMA ReadsNone ==
  ASSUME NEW m \in Seq(H!Entry), NEW n
  PROVE  H!Get(m, n) = None <=> H!EqualRange(m, n) = {}
<1>1. CASE H!EqualRange(m, n) # {}
  <2>1. PICK i \in DOMAIN m :
          m[i].name = n /\ \A j \in DOMAIN m : m[j].name = n => i <= j
    BY <1>1, FirstOf
  <2>2. H!Get(m, n) = m[i].value
    BY <2>1, ReadsFirst
  <2>3. m[i] \in H!Entry
    BY <2>1
  <2>4. m[i].value \in Value
    BY <2>3 DEF H!Entry
  <2> QED
    BY <1>1, <2>2, <2>4, HeadersAssumption
<1> QED
  BY <1>1 DEF H!Get

(* emplace keeps what is read of every name that has an entry.             *)
LEMMA EmplaceReads ==
  ASSUME NEW m \in Seq(H!Entry), NEW n \in Name, NEW v \in Value
  PROVE  LET e == H!Emplace(m, n, v) IN
           /\ e \in Seq(H!Entry) /\ Len(e) = Len(m) + 1
           /\ \A k \in Name : k # n \/ H!EqualRange(m, k) # {} =>
                H!Get(e, k) = H!Get(m, k)
           /\ H!EqualRange(m, n) = {} => H!Get(e, n) = v
<1> DEFINE e == Append(m, H!Node(n, v))
           l == Len(m) + 1
<1>1. H!Node(n, v) \in H!Entry /\ H!Node(n, v).name = n /\ H!Node(n, v).value = v
  BY DEF H!Node, H!Entry
<1>2. /\ e \in Seq(H!Entry) /\ Len(e) = l /\ DOMAIN e = DOMAIN m \cup {l}
      /\ \A i \in DOMAIN m : e[i] = m[i] /\ i < l
      /\ l \in Nat /\ e[l] = H!Node(n, v)
  BY <1>1
<1>3. e = H!Emplace(m, n, v)
  BY DEF H!Emplace
<1> HIDE DEF e, l
<1>4. ASSUME NEW k \in Name, H!EqualRange(m, k) # {}
      PROVE  H!Get(e, k) = H!Get(m, k)
  <2>1. PICK i \in DOMAIN m :
          m[i].name = k /\ \A j \in DOMAIN m : m[j].name = k => i <= j
    BY <1>4, FirstOf
  <2>2. H!Get(m, k) = m[i].value
    BY <2>1, ReadsFirst
  <2>3. /\ i \in DOMAIN e /\ e[i].name = k
        /\ \A j \in DOMAIN e : e[j].name = k => i <= j
    BY <1>2, <2>1
  <2>4. H!Get(e, k) = e[i].value
    BY <1>2, <2>3, ReadsFirst
  <2> QED
    BY <1>2, <2>1, <2>2, <2>4
<1>5. ASSUME NEW k \in Name, k # n, H!EqualRange(m, k) = {}
      PROVE  H!Get(e, k) = H!Get(m, k)
  <2>1. H!EqualRange(e, k) = {}
    BY <1>1, <1>2, <1>5 DEF H!EqualRange
  <2> QED
    BY <1>5, <2>1 DEF H!Get
<1>6. ASSUME H!EqualRange(m, n) = {} PROVE H!Get(e, n) = v
  <2>1. /\ l \in DOMAIN e /\ e[l].name = n
        /\ \A j \in DOMAIN e : e[j].name = n => l <= j
    BY <1>1, <1>2, <1>6 DEF H!EqualRange
  <2>2. H!Get(e, n) = e[l].value
    BY <1>2, <2>1, ReadsFirst
  <2> QED
    BY <1>1, <1>2, <2>2
<1> QED
  BY <1>2, <1>3, <1>4, <1>5, <1>6 DEF l

(* The loop of set changes what is read of its own name only.              *)
LEMMA AssignReads ==
  ASSUME NEW m \in Seq(H!Entry), NEW n \in Name, NEW v \in Value,
         H!EqualRange(m, n) # {}
  PROVE  LET a == H!Assign(m, n, v) IN
           /\ a \in Seq(H!Entry) /\ Len(a) = Len(m)
           /\ \A k \in Name \ {n} : H!Get(a, k) = H!Get(m, k)
           /\ H!Get(a, n) = v
<1> DEFINE a == [i \in DOMAIN m |-> IF i \in H!EqualRange(m, n)
                                     THEN H!Node(n, v) ELSE m[i]]
<1>1. H!Node(n, v) \in H!Entry /\ H!Node(n, v).name = n /\ H!Node(n, v).value = v
  BY DEF H!Node, H!Entry
<1>2. /\ DOMAIN a = DOMAIN m /\ a = [i \in 1..Len(m) |-> a[i]]
      /\ \A i \in DOMAIN m : /\ a[i] \in H!Entry /\ a[i].name = m[i].name
                             /\ m[i].name # n => a[i] = m[i]
                             /\ m[i].name = n => a[i].value = v
  BY <1>1 DEF H!EqualRange
<1>3. a = H!Assign(m, n, v)
  BY DEF H!Assign
<1> HIDE DEF a
<1>4. a \in Seq(H!Entry) /\ Len(a) = Len(m)
  <2>1. a \in [1..Len(m) -> H!Entry]
    BY <1>2
  <2> QED
    BY <2>1
<1>5. ASSUME NEW k \in Name, H!EqualRange(m, k) # {}
      PROVE  H!Get(a, k) = IF k = n THEN v ELSE H!Get(m, k)
  <2>1. PICK i \in DOMAIN m :
          m[i].name = k /\ \A j \in DOMAIN m : m[j].name = k => i <= j
    BY <1>5, FirstOf
  <2>2. H!Get(m, k) = m[i].value
    BY <2>1, ReadsFirst
  <2>3. /\ i \in DOMAIN a /\ a[i].name = k
        /\ \A j \in DOMAIN a : a[j].name = k => i <= j
    BY <1>2, <2>1
  <2>4. H!Get(a, k) = a[i].value
    BY <1>4, <2>3, ReadsFirst
  <2> QED
    BY <1>2, <2>1, <2>2, <2>4
<1>6. ASSUME NEW k \in Name, k # n, H!EqualRange(m, k) = {}
      PROVE  H!Get(a, k) = H!Get(m, k)
  <2>1. H!EqualRange(a, k) = {}
    BY <1>2, <1>6 DEF H!EqualRange
  <2> QED
    BY <1>6, <2>1 DEF H!Get
<1> QED
  BY <1>3, <1>4, <1>5, <1>6

(* The invariant: storage without an object has no entries and no history. *)
ToldInv ==
  \A h \in Object, n \in Name : H!Get(entries[h], n) = told[h][n]

(* Giving the map of h another content.                                    *)
LEMMA GivenReads ==
  ASSUME H!TypeOK, ToldInv, NEW h \in Object, NEW m \in Seq(H!Entry),
         NEW f \in [Name -> Value \cup {None}], Len(m) <= MaxEntries,
         \A n \in Name : H!Get(m, n) = f[n],
         entries' = [entries EXCEPT ![h] = m], told' = [told EXCEPT ![h] = f],
         live' \subseteq Object
  PROVE  H!TypeOK' /\ ToldInv'
<1>1. entries' \in [Object -> Seq(H!Entry)]
  BY DEF H!TypeOK
<1>2. told' \in [Object -> [Name -> Value \cup {None}]]
  BY DEF H!TypeOK
<1>3. /\ entries'[h] = m /\ told'[h] = f
      /\ \A g \in Object \ {h} : entries'[g] = entries[g] /\ told'[g] = told[g]
  BY DEF H!TypeOK
<1>4. H!TypeOK'
  BY <1>1, <1>2, <1>3 DEF H!TypeOK
<1>5. ToldInv'
  BY <1>3 DEF ToldInv
<1> QED
  BY <1>4, <1>5

(* Nothing is read of an empty map.                                        *)
LEMMA EmptyReads ==
  /\ <<>> \in Seq(H!Entry) /\ H!NoEntry \in [Name -> Value \cup {None}]
  /\ \A n \in Name : H!Get(<<>>, n) = H!NoEntry[n]
BY DEF H!Get, H!EqualRange, H!NoEntry

(* Every step keeps the types and what is read.                            *)
LEMMA HeadersStep ==
  ASSUME H!TypeOK, ToldInv, [H!Next]_(H!vars)
  PROVE  H!TypeOK' /\ ToldInv'
<1>1. ASSUME NEW h \in Object, H!Construct(h) PROVE H!TypeOK' /\ ToldInv'
  BY <1>1 DEF H!Construct, H!TypeOK, ToldInv
<1>2. ASSUME NEW h \in Object, NEW o \in Object, H!Copy(h, o)
      PROVE  H!TypeOK' /\ ToldInv'
  <2>1. /\ entries[o] \in Seq(H!Entry) /\ Len(entries[o]) <= MaxEntries
        /\ told[o] \in [Name -> Value \cup {None}]
        /\ \A n \in Name : H!Get(entries[o], n) = told[o][n]
    BY DEF H!TypeOK, ToldInv
  <2>2. /\ entries' = [entries EXCEPT ![h] = entries[o]]
        /\ told' = [told EXCEPT ![h] = told[o]] /\ live' \subseteq Object
    BY <1>2 DEF H!Copy, H!TypeOK
  <2> QED
    BY <2>1, <2>2, GivenReads
<1>3. ASSUME NEW h \in Object, H!Destroy(h) PROVE H!TypeOK' /\ ToldInv'
  <2>1. /\ entries' = [entries EXCEPT ![h] = <<>>]
        /\ told' = [told EXCEPT ![h] = H!NoEntry] /\ live' \subseteq Object
    BY <1>3 DEF H!Destroy, H!TypeOK
  <2>2. Len(<<>>) <= MaxEntries
    BY HeadersAssumption
  <2> QED
    BY <2>1, <2>2, EmptyReads, GivenReads
<1>4. ASSUME NEW h \in Object, NEW n \in Name, NEW v \in Value,
             H!Add(h, n, v) \/ H!Set(h, n, v)
      PROVE  H!TypeOK' /\ ToldInv'
  <2> DEFINE m == entries[h]
             e == H!Emplace(m, n, v)
             a == H!Assign(m, n, v)
             f == [told[h] EXCEPT ![n] = v]
  <2>1. /\ m \in Seq(H!Entry) /\ Len(m) <= MaxEntries
        /\ told[h] \in [Name -> Value \cup {None}]
        /\ \A k \in Name : H!Get(m, k) = told[h][k]
        /\ live' \subseteq Object /\ entries \in [Object -> Seq(H!Entry)]
    BY <1>4 DEF H!TypeOK, ToldInv, H!Add, H!Set
  <2>2. /\ f \in [Name -> Value \cup {None}] /\ f[n] = v
        /\ \A k \in Name \ {n} : f[k] = told[h][k]
    BY <2>1
  <2>3. /\ e \in Seq(H!Entry) /\ Len(e) = Len(m) + 1
        /\ \A k \in Name : k # n \/ H!EqualRange(m, k) # {} =>
             H!Get(e, k) = H!Get(m, k)
        /\ H!EqualRange(m, n) = {} => H!Get(e, n) = v
    BY <2>1, EmplaceReads
  <2>4. H!EqualRange(m, n) # {} =>
          /\ a \in Seq(H!Entry) /\ Len(a) = Len(m)
          /\ \A k \in Name \ {n} : H!Get(a, k) = H!Get(m, k)
          /\ H!Get(a, n) = v
    BY <2>1, AssignReads
  <2>5. told[h][n] = None <=> H!EqualRange(m, n) = {}
    BY <2>1, ReadsNone
  <2>6. \/ /\ H!EqualRange(m, n) = {} /\ Len(m) < MaxEntries
           /\ entries' = [entries EXCEPT ![h] = e]
           /\ told' = [told EXCEPT ![h] = f]
        \/ /\ H!EqualRange(m, n) # {} /\ Len(m) < MaxEntries
           /\ entries' = [entries EXCEPT ![h] = e]
           /\ told' = [told EXCEPT ![h] = told[h]]
        \/ /\ H!EqualRange(m, n) # {}
           /\ entries' = [entries EXCEPT ![h] = a]
           /\ told' = [told EXCEPT ![h] = f]
    <3>1. CASE H!Add(h, n, v)
      <4>1. /\ Len(m) < MaxEntries
            /\ entries' = [entries EXCEPT ![h] = e]
            /\ told' = [told EXCEPT ![h] =
                 [told[h] EXCEPT ![n] = IF told[h][n] = None THEN v ELSE told[h][n]]]
        BY <3>1 DEF H!Add, H!TypeOK
      <4>2. told[h] = [told[h] EXCEPT ![n] = told[h][n]]
        BY <2>1
      <4> QED
        BY <2>5, <4>1, <4>2
    <3>2. CASE H!Set(h, n, v)
      BY <3>2 DEF H!Set, H!TypeOK
    <3> QED
      BY <1>4, <3>1, <3>2
  <2>7. Len(m) < MaxEntries => Len(e) <= MaxEntries
    BY <2>1, <2>3, HeadersAssumption
  <2> HIDE DEF m, e, a, f
  <2>8. CASE /\ H!EqualRange(m, n) = {} /\ Len(m) < MaxEntries
             /\ entries' = [entries EXCEPT ![h] = e]
             /\ told' = [told EXCEPT ![h] = f]
    <3>1. \A k \in Name : H!Get(e, k) = f[k]
      BY <2>1, <2>2, <2>3, <2>8
    <3> QED
      BY <2>1, <2>2, <2>3, <2>7, <2>8, <3>1, GivenReads
  <2>9. CASE /\ H!EqualRange(m, n) # {} /\ Len(m) < MaxEntries
             /\ entries' = [entries EXCEPT ![h] = e]
             /\ told' = [told EXCEPT ![h] = told[h]]
    <3>1. \A k \in Name : H!Get(e, k) = told[h][k]
      BY <2>1, <2>3, <2>9
    <3> QED
      BY <2>1, <2>3, <2>7, <2>9, <3>1, GivenReads
  <2>10. CASE /\ H!EqualRange(m, n) # {}
              /\ entries' = [entries EXCEPT ![h] = a]
              /\ told' = [told EXCEPT ![h] = f]
    <3>1. \A k \in Name : H!Get(a, k) = f[k]
      BY <2>1, <2>2, <2>4, <2>10
    <3>2. Len(a) <= MaxEntries
      BY <2>1, <2>4, <2>10
    <3> QED
      BY <2>1, <2>2, <2>4, <2>10, <3>1, <3>2, GivenReads
  <2> QED
    BY <2>6, <2>8, <2>9, <2>10
<1>5. CASE UNCHANGED H!vars
  BY <1>5 DEF H!vars, H!TypeOK, ToldInv
<1> QED
  BY <1>1, <1>2, <1>3, <1>4, <1>5 DEF H!Next

(* The initial state.                                                      *)
LEMMA HeadersInit == H!Init => H!TypeOK /\ ToldInv
<1> SUFFICES ASSUME H!Init PROVE H!TypeOK /\ ToldInv
  OBVIOUS
<1>1. /\ live = {} /\ entries = [h \in Object |-> <<>>]
      /\ told = [h \in Object |-> H!NoEntry]
  BY DEF H!Init
<1>2. \A h \in Object : entries[h] = <<>> /\ told[h] = H!NoEntry
  BY <1>1
<1>3. entries \in [Object -> Seq(H!Entry)] /\ Len(<<>>) <= MaxEntries
  BY <1>1, HeadersAssumption
<1>4. told \in [Object -> [Name -> Value \cup {None}]]
  BY <1>1, EmptyReads
<1> QED
  BY <1>1, <1>2, <1>3, <1>4, EmptyReads DEF H!TypeOK, ToldInv

(* What a step of Headers is to the library.                               *)
LEMMA HeadersArea ==
  /\ LibraryInit => H!Init
  /\ [LibraryNext]_libraryVars => [H!Next]_(H!vars)
BY DEF LibraryInit, LibraryNext, libraryVars, headerVars, H!vars

(* The invariants of Headers hold together.                                *)
LEMMA HeadersAlways == LibrarySpec => [](H!TypeOK /\ ToldInv)
<1>1. LibraryInit => H!TypeOK /\ ToldInv
  BY HeadersArea, HeadersInit
<1>2. H!TypeOK /\ ToldInv /\ [LibraryNext]_libraryVars
        => (H!TypeOK /\ ToldInv)'
  BY HeadersArea, HeadersStep
<1> QED
  BY <1>1, <1>2, PTL DEF LibrarySpec

(* GetIsSettled, for headers::get: after any number of calls on any number *)
(* of objects, get reads the value the name was set to last, or, if it was *)
(* never set, the one that was added first.                                *)
THEOREM GetsAreSettled == LibrarySpec => []GetIsSettled
<1>1. H!TypeOK /\ ToldInv => GetIsSettled
  BY DEF H!TypeOK, ToldInv, GetIsSettled, H!GetIsSettled
<1> QED
  BY <1>1, HeadersAlways, PTL

-----------------------------------------------------------------------------
(* LibraryTypeOK, the type invariant of the four parts together.           *)
THEOREM LibraryTyped == LibrarySpec => []LibraryTypeOK
<1>1. TypeOK /\ R!TypeOK /\ E!TypeOK /\ H!TypeOK => LibraryTypeOK
  BY DEF LibraryTypeOK
<1> QED
  BY <1>1, StreamsAlways, ResultsAlways, EndpointsAlways, HeadersAlways, PTL
=============================================================================
