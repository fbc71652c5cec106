------------------------- MODULE SslHandshakeProofs -------------------------
(***************************************************************************)
(* Theorems about SslHandshake, for every script of flights, every size of *)
(* the flights and of the buffer, whatever the endpoints accept or refuse  *)
(* and wherever the connection breaks.                                     *)
(***************************************************************************)
EXTENDS SslHandshake, SequenceTheorems, WellFoundedInduction, TLAPS

-----------------------------------------------------------------------------
(* The constants and the endpoints.                                        *)

LEMMA ScriptIs ==
  /\ Len(Script) \in Nat /\ App = Len(Script) + 1 /\ App \in Nat /\ Alert = 0
  /\ DOMAIN Script = 1..Len(Script)
  /\ \A n \in 1..Len(Script) : Script[n] \in Endpoint /\ Size[n] \in Nat \ {0}
  /\ \A n \in 1..(Len(Script) - 1) : Script[n] # Script[n + 1]
<1>1. Script \in Seq(Endpoint)
  BY HandshakeAssumption
<1>2. Len(Script) \in Nat /\ DOMAIN Script = 1..Len(Script)
  BY <1>1
<1>3. \A n \in 1..Len(Script) : Script[n] \in Endpoint /\ Size[n] \in Nat \ {0}
  BY <1>1, <1>2, HandshakeAssumption
<1>4. \A n \in 1..(Len(Script) - 1) : Script[n] # Script[n + 1]
  BY HandshakeAssumption
<1> QED
  BY <1>2, <1>3, <1>4 DEF App, Alert

LEMMA PeerIs ==
  \A e \in Endpoint :
    /\ Peer(e) \in Endpoint /\ Peer(e) # e
    /\ \A x \in Endpoint : x = e \/ x = Peer(e)
    /\ Peer(Peer(e)) = e
<1>1. ASSUME NEW e \in Endpoint
      PROVE  /\ Peer(e) \in Endpoint /\ Peer(e) # e
             /\ \A x \in Endpoint : x = e \/ x = Peer(e)
  <2>1. \E p \in Endpoint : p # e
    BY DEF Endpoint
  <2>2. Peer(e) \in Endpoint /\ Peer(e) # e
    BY <2>1 DEF Peer
  <2> QED
    BY <2>2 DEF Endpoint
<1> QED
  BY <1>1

-----------------------------------------------------------------------------
(* The operators on sequences.                                             *)

(* A set of naturals that is not empty has a least element.                *)
LEMMA Least ==
  ASSUME NEW T \in SUBSET Nat, T # {}
  PROVE  Min(T) \in T
<1>1. PICK x \in T : \A y \in T : ~ (<<y, x>> \in OpToRel(<, Nat))
  BY NatLessThanWellFounded, WFMin
<1>2. ASSUME NEW y \in T PROVE x <= y
  <2>1. y \in Nat /\ x \in Nat
    OBVIOUS
  <2>2. y < x => <<y, x>> \in OpToRel(<, Nat)
    BY <2>1 DEF OpToRel
  <2>3. ~(y < x)
    BY <1>1, <2>2
  <2> QED
    BY <2>1, <2>3
<1> QED
  BY <1>2 DEF Min

LEMMA MinOfTwo ==
  ASSUME NEW a \in Nat, NEW b \in Nat
  PROVE  Min({a, b}) = IF a <= b THEN a ELSE b
<1> DEFINE m == IF a <= b THEN a ELSE b
<1>1. m \in {a, b} /\ \A y \in {a, b} : m <= y
  OBVIOUS
<1>2. \A x \in {a, b} : (\A y \in {a, b} : x <= y) => x = m
  OBVIOUS
<1> QED
  BY <1>1, <1>2 DEF Min

(* The last element.                                                       *)
EndsWith(s, p) == s # <<>> /\ s[Len(s)] = p

LEMMA TakeIs ==
  ASSUME NEW S, NEW s \in Seq(S), NEW n \in Nat
  PROVE  /\ Take(s, n) \in Seq(S)
         /\ Len(Take(s, n)) = IF n <= Len(s) THEN n ELSE Len(s)
         /\ n >= Len(s) => Take(s, n) = s
<1> DEFINE m == IF n <= Len(s) THEN n ELSE Len(s)
<1>1. m \in 0..Len(s) /\ Len(s) \in Nat
  OBVIOUS
<1>2. Take(s, n) = SubSeq(s, 1, m)
  BY MinOfTwo DEF Take
<1>3. Take(s, n) \in Seq(S) /\ Len(Take(s, n)) = m
  BY <1>1, <1>2
<1>4. n >= Len(s) => Take(s, n) = s
  BY <1>1, <1>2
<1> QED
  BY <1>3, <1>4

LEMMA DropIs ==
  ASSUME NEW S, NEW s \in Seq(S), NEW n \in Nat
  PROVE  /\ Drop(s, n) \in Seq(S)
         /\ n <= Len(s) => Len(Drop(s, n)) = Len(s) - n
         /\ n > Len(s) => Drop(s, n) = <<>>
         /\ n = 0 => Drop(s, n) = s
         /\ \A p : EndsWith(s, p) /\ n < Len(s) => EndsWith(Drop(s, n), p)
<1>1. CASE n <= Len(s)
  <2>1. /\ Drop(s, n) \in Seq(S)
        /\ Len(Drop(s, n)) = Len(s) - n
        /\ \A i \in 1..(Len(s) - n) : Drop(s, n)[i] = s[n + i]
    BY <1>1 DEF Drop
  <2>2. n = 0 => Drop(s, n) = s
    BY DEF Drop
  <2>3. ASSUME NEW p, EndsWith(s, p), n < Len(s) PROVE EndsWith(Drop(s, n), p)
    BY <2>1, <2>3 DEF EndsWith
  <2> QED
    BY <1>1, <2>1, <2>2, <2>3
<1>2. CASE n > Len(s)
  <2>1. Drop(s, n) = <<>>
    BY <1>2, SubSeqEmpty DEF Drop
  <2> QED
    BY <1>2, <2>1
<1> QED
  BY <1>1, <1>2

LEMMA ConcatIs ==
  ASSUME NEW S, NEW s \in Seq(S), NEW t \in Seq(S)
  PROVE  /\ s \o t \in Seq(S)
         /\ \A p : EndsWith(t, p) => EndsWith(s \o t, p)
<1>1. s \o t \in Seq(S) /\ Len(s \o t) = Len(s) + Len(t)
  OBVIOUS
<1>2. ASSUME NEW p, EndsWith(t, p) PROVE EndsWith(s \o t, p)
  <2>1. Len(t) \in Nat \ {0} /\ Len(s) \in Nat /\ t[Len(t)] = p
    BY <1>2 DEF EndsWith
  <2>2. (s \o t)[Len(s) + Len(t)] = t[Len(t)]
    BY <2>1
  <2> QED
    BY <1>1, <2>1, <2>2 DEF EndsWith
<1> QED
  BY <1>1, <1>2

LEMMA SeqGrows ==
  ASSUME NEW S, NEW T, S \subseteq T PROVE Seq(S) \subseteq Seq(T)
OBVIOUS

-----------------------------------------------------------------------------
(* The inductive invariant.                                                *)

(* What an endpoint that has come to flight k may have written: its own    *)
(* flights up to k, an alert, data.                                        *)
Written(e, k) ==
  ({m \in 1..Len(Script) : m <= k /\ Script[m] = e} \cup {Alert, App})
    \X BOOLEAN

(* The types of everything except the ciphertext.                          *)
ControlTypes ==
  /\ done \in Versions
  /\ pos \in [Endpoint -> 0..Len(Script)]
  /\ failed \in [Endpoint -> BOOLEAN]
  /\ errors \in [Endpoint -> Nat]
  /\ pc \in [Endpoint -> {"perform", "recv", "send", "return"}]
  /\ ret \in [Endpoint -> {"none", "ok", "ssl_error", "eof", "sys_error"}]
  /\ code \in [Endpoint -> 0..1]
  /\ eof \in [Endpoint -> BOOLEAN]
  /\ app \in [Endpoint -> BOOLEAN]

(* Whatever is under way to an endpoint, its peer has come to write.       *)
PathInv ==
  /\ rbio \in [Endpoint -> Seq(Pieces)] /\ wbio \in [Endpoint -> Seq(Pieces)]
  /\ buf \in [Endpoint -> Seq(Pieces)] /\ wire \in [Endpoint -> Seq(Pieces)]
  /\ \A e \in Endpoint :
       /\ rbio[e] \in Seq(Written(Peer(e), pos[Peer(e)]))
       /\ wire[e] \in Seq(Written(Peer(e), pos[Peer(e)]))
       /\ wbio[e] \in Seq(Written(e, pos[e]))
       /\ buf[e] \in Seq(Written(e, pos[e]))

(* The two scripts keep step: an endpoint that has processed a flight of   *)
(* its peer is not ahead of it, and never more than by its own flight.     *)
PosInv ==
  \A e \in Endpoint :
    /\ pos[e] <= done[e]
    /\ pos[e] <= pos[Peer(e)] + 1
    /\ pos[e] >= 1 /\ Script[pos[e]] # e => pos[e] <= pos[Peer(e)]

(* buf is used by one send at a time, and the output is empty where the    *)
(* engine has returned.                                                    *)
ReturnInv ==
  \A e \in Endpoint :
    /\ Len(buf[e]) <= Chunk
    /\ buf[e] # <<>> => pc[e] = "send"
    /\ ret[e] # "none" => pc[e] = "return"
    /\ ret[e] = "ok" => pos[e] = done[e]
    /\ ret[e] \in {"ok", "ssl_error"} => wbio[e] = <<>>

(* The data an endpoint sends is the last that reaches its peer.           *)
AppInv ==
  \A e \in Endpoint : app[Peer(e)] =>
    /\ ret[Peer(e)] = "ok"
    /\ \/ EndsWith(wire[e], <<App, TRUE>>)
       \/ wire[e] = <<>> /\ EndsWith(rbio[e], <<App, TRUE>>)

HandshakeInv == ControlTypes /\ PathInv /\ PosInv /\ ReturnInv /\ AppInv

LEMMA WrittenGrows ==
  ASSUME NEW e \in Endpoint, NEW j \in Nat, NEW k \in Nat, j <= k
  PROVE  /\ Written(e, j) \subseteq Written(e, k)
         /\ Written(e, k) \subseteq Pieces
         /\ Seq(Written(e, j)) \subseteq Seq(Written(e, k))
         /\ Seq(Written(e, k)) \subseteq Seq(Pieces)
<1>1. Written(e, j) \subseteq Written(e, k)
  BY ScriptIs DEF Written
<1>2. Written(e, k) \subseteq Pieces
  BY ScriptIs DEF Written, Pieces
<1> QED
  BY <1>1, <1>2, SeqGrows

(* SSL_connect and SSL_accept move on by the flight they write or accept,  *)
(* and by no other.                                                        *)
Moved(e, o, k, more) ==
  \/ more = <<>> /\ o.pos = pos[e]
  \/ more = <<<<Alert, TRUE>>>> /\ o.pos = pos[e]
  \/ /\ more = Flight(o.pos) /\ o.pos = pos[e] + 1
     /\ Writes(e, o.pos)
  \/ more = <<>> /\ o.pos = pos[e] + 1 /\ k > 0
  \/ /\ more = Flight(o.pos) /\ o.pos = pos[e] + 2
     /\ Writes(e, o.pos) /\ k > 0

LEMMA OperationIs ==
  ASSUME HandshakeInv, NEW e \in Endpoint, NEW o \in Operation(e)
  PROVE  \E k \in 0..Len(rbio[e]), more \in {<<>>, <<<<Alert, TRUE>>>>,
                                            Flight(o.pos)} :
           /\ o.in = Drop(rbio[e], k) /\ o.out = wbio[e] \o more
           /\ o.failed \in BOOLEAN
           /\ k > 0 => pos[e] < done[e] /\ rbio[e][k] = <<pos[e] + 1, TRUE>>
           /\ Moved(e, o, k, more)
<1> DEFINE P == Written(Peer(e), pos[Peer(e)])
           n == pos[e] + 1
           live == ~failed[e] /\ pos[e] < done[e]
           end == SelectInSeq(rbio[e], LAMBDA p : p = <<n, TRUE>>)
           rest == Drop(rbio[e], end)
           ssl(p, in, more, f, errs) == [pos |-> p, in |-> in, out |-> wbio[e] \o more,
                                         failed |-> f, errors |-> errs]
           ok(k, more) ==
             /\ o.in = Drop(rbio[e], k) /\ o.out = wbio[e] \o more
             /\ o.failed \in BOOLEAN
             /\ k > 0 => pos[e] < done[e] /\ rbio[e][k] = <<pos[e] + 1, TRUE>>
             /\ Moved(e, o, k, more)
<1>1. rbio[e] \in Seq(P)
  BY DEF HandshakeInv, PathInv
<1> SUFFICES \E k \in 0..Len(rbio[e]), more \in {<<>>, <<<<Alert, TRUE>>>>,
                                                Flight(o.pos)} : ok(k, more)
  OBVIOUS
<1>0. wbio[e] \o <<>> = wbio[e] /\ 0 \in 0..Len(rbio[e])
  <2>1. wbio[e] \in Seq(Written(e, pos[e]))
    BY DEF HandshakeInv, PathInv
  <2> QED
    BY <1>1, <2>1
<1>2. Drop(rbio[e], 0) = rbio[e]
  BY <1>1, DropIs
<1>3. end \in 0..Len(rbio[e]) /\ (end > 0 => rbio[e][end] = <<n, TRUE>>)
  <2> DEFINE I == {i \in 1..Len(rbio[e]) : rbio[e][i] = <<n, TRUE>>}
  <2>1. end = IF I # {} THEN Min(I) ELSE 0
    BY DEF SelectInSeq
  <2>2. I \in SUBSET Nat /\ Len(rbio[e]) \in Nat
    <3>1. Len(rbio[e]) \in Nat
      <4> HIDE DEF P
      <4> QED
        BY <1>1
    <3>2. 1..Len(rbio[e]) \subseteq Nat
      BY <3>1
    <3>3. I \subseteq 1..Len(rbio[e])
      OBVIOUS
    <3> HIDE DEF I
    <3> QED
      BY <3>1, <3>2, <3>3
  <2>3. \A i \in I : i \in 1..Len(rbio[e]) /\ rbio[e][i] = <<n, TRUE>>
    OBVIOUS
  <2> HIDE DEF end, I
  <2>4. I # {} => Min(I) \in I
    BY <2>2, Least
  <2>5. CASE I # {}
    <3>1. end \in 1..Len(rbio[e]) /\ rbio[e][end] = <<n, TRUE>>
      BY <2>1, <2>3, <2>4, <2>5
    <3> QED
      BY <2>2, <3>1
  <2>6. CASE I = {}
    BY <2>1, <2>2, <2>6
  <2> QED
    BY <2>5, <2>6
<1>4. failed[e] \in BOOLEAN
  BY DEF HandshakeInv, ControlTypes
<1>5. \/ live /\ Writes(e, n) /\ o = ssl(n, rbio[e], Flight(n), FALSE, 0)
      \/ live /\ end > 0 /\ Writes(e, n + 1)
           /\ o = ssl(n + 1, rest, Flight(n + 1), FALSE, 0)
      \/ live /\ end > 0 /\ o = ssl(n, rest, <<>>, FALSE, 0)
      \/ live /\ end > 0 /\ o = ssl(pos[e], rest, <<<<Alert, TRUE>>>>, TRUE, 1)
      \/ live /\ end = 0 /\ o = ssl(pos[e], rbio[e], <<>>, TRUE, 1)
      \/ o = ssl(pos[e], rbio[e], <<>>, failed[e], 0)
  BY DEF Operation
<1> HIDE DEF end
<1>6. pos[e] \in Nat /\ n + 1 = pos[e] + 2
  BY DEF HandshakeInv, ControlTypes
<1>7. CASE live /\ Writes(e, n) /\ o = ssl(n, rbio[e], Flight(n), FALSE, 0)
  <2>1. ok(0, Flight(n)) /\ o.pos = n
    <3>1. o.pos = n /\ o.in = rbio[e] /\ o.out = wbio[e] \o Flight(n)
      BY <1>7
    <3>0. o.failed \in BOOLEAN
      BY <1>7
    <3>2. Moved(e, o, 0, Flight(n))
      BY <1>7, <3>1 DEF Moved
    <3>3. ~(0 > 0)
      OBVIOUS
    <3> QED
      BY <1>2, <3>0, <3>1, <3>2, <3>3
  <2> QED
    <3> HIDE DEF ok
    <3> QED
      BY <1>0, <2>1
<1>8. CASE live /\ end > 0 /\ Writes(e, n + 1)
           /\ o = ssl(n + 1, rest, Flight(n + 1), FALSE, 0)
  <2>1. ok(end, Flight(n + 1)) /\ o.pos = n + 1
    BY <1>3, <1>6, <1>8 DEF Moved
  <2> QED
    <3> HIDE DEF ok
    <3> QED
      BY <1>3, <2>1
<1>9. CASE live /\ end > 0 /\ o = ssl(n, rest, <<>>, FALSE, 0)
  <2>1. ok(end, <<>>)
    BY <1>0, <1>3, <1>9 DEF Moved
  <2> QED
    <3> HIDE DEF ok
    <3> QED
      BY <1>3, <2>1
<1>10. CASE live /\ end > 0 /\ o = ssl(pos[e], rest, <<<<Alert, TRUE>>>>, TRUE, 1)
  <2>1. ok(end, <<<<Alert, TRUE>>>>)
    BY <1>3, <1>10 DEF Moved
  <2> QED
    <3> HIDE DEF ok
    <3> QED
      BY <1>3, <2>1
<1>11. CASE \/ live /\ end = 0 /\ o = ssl(pos[e], rbio[e], <<>>, TRUE, 1)
            \/ o = ssl(pos[e], rbio[e], <<>>, failed[e], 0)
  <2>1. ok(0, <<>>)
    <3>1. o.pos = pos[e] /\ o.in = rbio[e] /\ o.out = wbio[e] \o <<>>
      BY <1>11
    <3>0. o.failed \in BOOLEAN
      <4>1. o.failed = TRUE \/ o.failed = failed[e]
        BY <1>11
      <4> QED
        BY <1>4, <4>1
    <3>2. Moved(e, o, 0, <<>>)
      BY <3>1 DEF Moved
    <3>3. ~(0 > 0)
      OBVIOUS
    <3> QED
      BY <1>2, <3>0, <3>1, <3>2, <3>3
  <2> QED
    <3> HIDE DEF ok
    <3> QED
      BY <1>0, <2>1
<1> QED
  BY <1>5, <1>7, <1>8, <1>9, <1>10, <1>11

-----------------------------------------------------------------------------
(* What one SSL_connect or SSL_accept does to the invariant.               *)

(* A flight is written by its endpoint when it has come to it.             *)
LEMMA FlightWritten ==
  ASSUME NEW e \in Endpoint, NEW m \in 1..Len(Script), Script[m] = e
  PROVE  Flight(m) \in Seq(Written(e, m))
<1>1. Size[m] \in Nat
  BY ScriptIs
<1>2. ASSUME NEW i \in 1..Size[m] PROVE <<m, i = Size[m]>> \in Written(e, m)
  <2>1. (i = Size[m]) \in BOOLEAN
    OBVIOUS
  <2>2. m \in {j \in 1..Len(Script) : j <= m /\ Script[j] = e}
    BY ScriptIs
  <2> QED
    BY <2>1, <2>2 DEF Written
<1>3. Flight(m) \in [1..Size[m] -> Written(e, m)]
  BY <1>2 DEF Flight
<1> QED
  BY <1>1, <1>3

(* A flight that is accepted is one the peer has written.                  *)
LEMMA AcceptedIs ==
  ASSUME HandshakeInv, NEW e \in Endpoint, NEW k \in 1..Len(rbio[e]),
         pos[e] < done[e], rbio[e][k] = <<pos[e] + 1, TRUE>>
  PROVE  pos[e] + 1 <= pos[Peer(e)] /\ Script[pos[e] + 1] = Peer(e)
<1>1. rbio[e] \in Seq(Written(Peer(e), pos[Peer(e)]))
  BY DEF HandshakeInv, PathInv
<1>2. rbio[e][k] \in Written(Peer(e), pos[Peer(e)])
  BY <1>1, ElementOfSeq
<1>3. pos[e] + 1 \in 1..Len(Script)
  <2>1. done[e] \in 1..Len(Script) /\ pos[e] \in 0..Len(Script)
    BY HandshakeAssumption DEF HandshakeInv, ControlTypes
  <2> QED
    BY <2>1, ScriptIs
<1>4. pos[e] + 1 # Alert /\ pos[e] + 1 # App
  BY <1>3, ScriptIs
<1> QED
  BY <1>2, <1>4 DEF Written

(* The result of an operation: the positions keep step, and everything the *)
(* endpoint hands on is written by then.                                   *)
LEMMA OperationKeeps ==
  ASSUME HandshakeInv, NEW e \in Endpoint, NEW o \in Operation(e)
  PROVE  /\ o.pos \in 0..Len(Script) /\ o.failed \in BOOLEAN
         /\ pos[e] <= o.pos /\ o.pos <= done[e]
         /\ o.pos <= pos[Peer(e)] + 1
         /\ o.pos >= 1 /\ Script[o.pos] # e => o.pos <= pos[Peer(e)]
         /\ o.in \in Seq(Written(Peer(e), pos[Peer(e)]))
         /\ o.out \in Seq(Written(e, o.pos))
         /\ EndsWith(rbio[e], <<App, TRUE>>) => EndsWith(o.in, <<App, TRUE>>)
<1>1. PICK k \in 0..Len(rbio[e]), more \in {<<>>, <<<<Alert, TRUE>>>>,
                                            Flight(o.pos)} :
        /\ o.in = Drop(rbio[e], k) /\ o.out = wbio[e] \o more
        /\ o.failed \in BOOLEAN
        /\ k > 0 => pos[e] < done[e] /\ rbio[e][k] = <<pos[e] + 1, TRUE>>
        /\ Moved(e, o, k, more)
  BY OperationIs
<1>2. /\ pos[e] \in 0..Len(Script) /\ pos[Peer(e)] \in 0..Len(Script)
      /\ done[e] \in 1..Len(Script) /\ pos[e] <= done[e]
      /\ pos[e] <= pos[Peer(e)] + 1
      /\ pos[e] >= 1 /\ Script[pos[e]] # e => pos[e] <= pos[Peer(e)]
  BY PeerIs, HandshakeAssumption DEF HandshakeInv, ControlTypes, PosInv
<1>3. /\ rbio[e] \in Seq(Written(Peer(e), pos[Peer(e)]))
      /\ wbio[e] \in Seq(Written(e, pos[e]))
      /\ k \in Nat /\ k <= Len(rbio[e])
  <2>1. rbio[e] \in Seq(Written(Peer(e), pos[Peer(e)]))
        /\ wbio[e] \in Seq(Written(e, pos[e]))
    BY DEF HandshakeInv, PathInv
  <2> QED
    BY <2>1
<1>4. o.in \in Seq(Written(Peer(e), pos[Peer(e)]))
  BY <1>1, <1>3, DropIs
<1>5. ASSUME EndsWith(rbio[e], <<App, TRUE>>)
      PROVE  EndsWith(o.in, <<App, TRUE>>)
  <2>1. Len(rbio[e]) \in Nat \ {0}
    BY <1>3, <1>5 DEF EndsWith
  <2>2. k # Len(rbio[e])
    <3> SUFFICES ASSUME k = Len(rbio[e]) PROVE FALSE
      OBVIOUS
    <3>0. k > 0
      BY <2>1
    <3>1. pos[e] < done[e] /\ rbio[e][k] = <<pos[e] + 1, TRUE>>
      BY <1>1, <3>0
    <3>2. rbio[e][k] = <<App, TRUE>>
      BY <1>5 DEF EndsWith
    <3>3. pos[e] + 1 = App
      BY <3>1, <3>2
    <3> QED
      BY <1>2, <3>1, <3>3, ScriptIs
  <2>3. k < Len(rbio[e])
    BY <1>3, <2>1, <2>2
  <2>4. EndsWith(Drop(rbio[e], k), <<App, TRUE>>)
    BY <1>3, <1>5, <2>3, DropIs
  <2> QED
    BY <1>1, <2>4
<1>6. k > 0 => pos[e] + 1 <= pos[Peer(e)] /\ Script[pos[e] + 1] = Peer(e)
  <2> SUFFICES ASSUME k > 0
               PROVE  pos[e] + 1 <= pos[Peer(e)] /\ Script[pos[e] + 1] = Peer(e)
    OBVIOUS
  <2>1. k \in 1..Len(rbio[e])
    BY <1>3
  <2> QED
    BY <1>1, <2>1, AcceptedIs
<1>7. /\ o.pos \in 0..Len(Script) /\ pos[e] <= o.pos /\ o.pos <= done[e]
      /\ o.pos <= pos[Peer(e)] + 1
      /\ o.pos >= 1 /\ Script[o.pos] # e => o.pos <= pos[Peer(e)]
  <2>1. CASE o.pos = pos[e]
    BY <1>2, <2>1
  <2>2. CASE o.pos = pos[e] + 1 /\ Writes(e, o.pos)
    <3>1. pos[e] >= 1 => Script[pos[e]] # e
      BY <1>2, <2>2, ScriptIs DEF Writes
    <3> QED
      BY <1>2, <2>2, <3>1, ScriptIs DEF Writes
  <2>3. CASE o.pos = pos[e] + 1 /\ k > 0
    BY <1>1, <1>2, <1>6, <2>3, ScriptIs
  <2>4. CASE o.pos = pos[e] + 2 /\ Writes(e, o.pos) /\ k > 0
    BY <1>1, <1>2, <1>6, <2>4, ScriptIs DEF Writes
  <2> QED
    BY <1>1, <2>1, <2>2, <2>3, <2>4 DEF Moved
<1>8. more \in Seq(Written(e, o.pos))
  <2>1. CASE more = <<>>
    BY <2>1
  <2>2. CASE more = <<<<Alert, TRUE>>>>
    <3>1. <<Alert, TRUE>> \in Written(e, o.pos)
      BY DEF Written
    <3> QED
      BY <2>2, <3>1
  <2>3. CASE more = Flight(o.pos) /\ Writes(e, o.pos) /\ o.pos > pos[e]
    <3>1. o.pos \in 1..Len(Script) /\ Script[o.pos] = e
      BY <1>2, <1>7, <2>3, ScriptIs DEF Writes
    <3> QED
      BY <2>3, <3>1, FlightWritten
  <2>4. pos[e] + 1 > pos[e] /\ pos[e] + 2 > pos[e]
    BY <1>2
  <2>5. \/ more = <<>> \/ more = <<<<Alert, TRUE>>>>
        \/ /\ more = Flight(o.pos) /\ Writes(e, o.pos)
           /\ o.pos = pos[e] + 1 \/ o.pos = pos[e] + 2
    BY <1>1 DEF Moved
  <2> QED
    BY <2>1, <2>2, <2>3, <2>4, <2>5
<1>9. o.out \in Seq(Written(e, o.pos))
  <2>1. wbio[e] \in Seq(Written(e, o.pos))
    BY <1>2, <1>3, <1>7, ScriptIs, WrittenGrows
  <2> QED
    BY <1>1, <1>8, <2>1, ConcatIs
<1> QED
  BY <1>1, <1>4, <1>5, <1>7, <1>9

-----------------------------------------------------------------------------
(* The steps.                                                              *)

(* Where Switch leads: the output is flushed before the engine returns,    *)
(* and success is that of the operation.                                   *)
Performed(e, o, c, r, d, w, b) ==
  /\ pos' = [pos EXCEPT ![e] = o.pos]
  /\ failed' = [failed EXCEPT ![e] = o.failed]
  /\ rbio' = [rbio EXCEPT ![e] = o.in]
  /\ errors' = [errors EXCEPT ![e] = 0]
  /\ pc' = [pc EXCEPT ![e] = c] /\ ret' = [ret EXCEPT ![e] = r]
  /\ code' = [code EXCEPT ![e] = d]
  /\ wbio' = [wbio EXCEPT ![e] = w] /\ buf' = [buf EXCEPT ![e] = b]
  /\ Len(b) <= Chunk /\ (b # <<>> => c = "send")
  /\ (r # "none" => c = "return") /\ (r = "ok" => o.pos = done[e])
  /\ (r # "none" => w = <<>>)
  /\ UNCHANGED <<done, wire, eof, app>>

LEMMA PerformIs ==
  ASSUME HandshakeInv, NEW e \in Endpoint, Perform(e)
  PROVE  \E o \in Operation(e) : \E c \in {"recv", "send", "return"},
            r \in {"none", "ok", "ssl_error"}, d \in 0..1,
            w \in Seq(Written(e, o.pos)), b \in Seq(Written(e, o.pos)) :
           Performed(e, o, c, r, d, w, b)
<1>1. PICK o \in Operation(e) :
        /\ pos' = [pos EXCEPT ![e] = o.pos]
        /\ failed' = [failed EXCEPT ![e] = o.failed]
        /\ rbio' = [rbio EXCEPT ![e] = o.in]
        /\ errors' = [errors EXCEPT ![e] = 0]
        /\ Switch(e, o, Status(e, o))
  BY DEF Perform, Drained
<1> DEFINE W == Written(e, o.pos)
           st == Status(e, o)
           ok(c, r, d, w, b) ==
             /\ pc' = [pc EXCEPT ![e] = c] /\ ret' = [ret EXCEPT ![e] = r]
             /\ code' = [code EXCEPT ![e] = d]
             /\ wbio' = [wbio EXCEPT ![e] = w] /\ buf' = [buf EXCEPT ![e] = b]
             /\ Len(b) <= Chunk /\ (b # <<>> => c = "send")
             /\ (r # "none" => c = "return") /\ (r = "ok" => o.pos = done[e])
             /\ (r # "none" => w = <<>>)
<1>2. UNCHANGED <<done, wire, eof, app>> /\ pc[e] = "perform"
  BY DEF Perform
<1>3. /\ ret[e] = "none" /\ buf[e] = <<>> /\ code[e] \in 0..1
      /\ ret = [ret EXCEPT ![e] = ret[e]] /\ buf = [buf EXCEPT ![e] = buf[e]]
      /\ code = [code EXCEPT ![e] = code[e]]
  <2>1. /\ ret[e] = "none" /\ buf[e] = <<>>
    <3>1. /\ buf[e] # <<>> => pc[e] = "send"
          /\ ret[e] # "none" => pc[e] = "return"
      BY DEF HandshakeInv, ReturnInv
    <3> QED
      BY <1>2, <3>1
  <2>2. code[e] \in 0..1 /\ ret = [ret EXCEPT ![e] = ret[e]]
        /\ code = [code EXCEPT ![e] = code[e]]
    BY DEF HandshakeInv, ControlTypes
  <2>3. buf = [buf EXCEPT ![e] = buf[e]]
    BY DEF HandshakeInv, PathInv
  <2> QED
    BY <2>1, <2>2, <2>3
<1>4. o.out \in Seq(W) /\ <<>> \in Seq(W) /\ Len(<<>>) <= Chunk
  <2>1. o.out \in Seq(W)
    BY OperationKeeps
  <2> QED
    BY <2>1, HandshakeAssumption
<1>5. \E c \in {"recv", "send", "return"}, r \in {"none", "ok", "ssl_error"},
         d \in 0..1, w \in Seq(W), b \in Seq(W) : ok(c, r, d, w, b)
  <2>1. CASE st = "ok" /\ Return(e, "ok") /\ UNCHANGED <<code, buf>>
             /\ wbio' = [wbio EXCEPT ![e] = o.out]
    <3>1. o.out = <<>> /\ o.pos = done[e]
      BY <2>1 DEF Status
    <3>2. ok("return", "ok", code[e], o.out, <<>>)
      BY <1>3, <1>4, <2>1, <3>1 DEF Return
    <3> HIDE DEF ok, W
    <3> QED
      BY <1>3, <1>4, <3>2
  <2>2. CASE /\ st = "error" /\ Return(e, "ssl_error") /\ UNCHANGED buf
             /\ code' = [code EXCEPT ![e] = IF errors'[e] = 0 THEN 0 ELSE 1]
             /\ wbio' = [wbio EXCEPT ![e] = o.out]
    <3>1. o.out = <<>>
      BY <2>2 DEF Status
    <3> DEFINE d == IF errors'[e] = 0 THEN 0 ELSE 1
    <3>2. ok("return", "ssl_error", d, o.out, <<>>)
      BY <1>3, <1>4, <2>2, <3>1 DEF Return
    <3>3. d \in 0..1
      OBVIOUS
    <3> HIDE DEF ok, W, d
    <3> QED
      BY <1>4, <3>2, <3>3
  <2>3. CASE /\ st = "want_read" /\ pc' = [pc EXCEPT ![e] = "recv"]
             /\ wbio' = [wbio EXCEPT ![e] = o.out]
             /\ UNCHANGED <<ret, code, buf>>
    <3>1. ok("recv", "none", code[e], o.out, <<>>)
      BY <1>3, <1>4, <2>3
    <3> HIDE DEF ok, W
    <3> QED
      BY <1>3, <1>4, <3>1
  <2>4. CASE /\ st = "want_write" /\ pc' = [pc EXCEPT ![e] = "send"]
             /\ buf' = [buf EXCEPT ![e] = Take(o.out, Chunk)]
             /\ wbio' = [wbio EXCEPT ![e] = Drop(o.out, Chunk)]
             /\ UNCHANGED <<ret, code>>
    <3>1. /\ Take(o.out, Chunk) \in Seq(W) /\ Len(Take(o.out, Chunk)) <= Chunk
          /\ Drop(o.out, Chunk) \in Seq(W)
      <4> HIDE DEF W
      <4>1. Chunk \in Nat
        BY HandshakeAssumption
      <4>2. Len(Take(o.out, Chunk)) = IF Chunk <= Len(o.out) THEN Chunk
                                      ELSE Len(o.out)
        BY <1>4, <4>1, TakeIs
      <4>3. Len(o.out) \in Nat
        BY <1>4
      <4>4. Len(Take(o.out, Chunk)) <= Chunk
        BY <4>1, <4>2, <4>3
      <4>5. Take(o.out, Chunk) \in Seq(W)
        BY <1>4, <4>1, TakeIs
      <4>6. Drop(o.out, Chunk) \in Seq(W)
        BY <1>4, <4>1, DropIs
      <4> QED
        BY <4>4, <4>5, <4>6
    <3>2. ok("send", "none", code[e], Drop(o.out, Chunk), Take(o.out, Chunk))
      BY <1>3, <2>4, <3>1
    <3> HIDE DEF ok, W
    <3> QED
      BY <1>3, <3>1, <3>2
  <2> QED
    BY <1>1, <2>1, <2>2, <2>3, <2>4 DEF Switch
<1>6. ASSUME NEW c, NEW r, NEW d, NEW w, NEW b, ok(c, r, d, w, b)
      PROVE  Performed(e, o, c, r, d, w, b)
  BY <1>1, <1>2, <1>6 DEF Performed
<1> HIDE DEF ok, st
<1> QED
  BY <1>5, <1>6

(* The positions an endpoint may have are numbers.                         *)
LEMMA PosIs ==
  ASSUME ControlTypes
  PROVE  \A e \in Endpoint :
           /\ pos[e] \in 0..Len(Script) /\ pos[e] \in Nat
           /\ done[e] \in 1..Len(Script) /\ done[e] \in Nat
<1>1. \A e \in Endpoint : pos[e] \in 0..Len(Script) /\ done[e] \in 1..Len(Script)
  BY HandshakeAssumption DEF ControlTypes
<1> QED
  BY <1>1, ScriptIs

LEMMA PerformStep ==
  ASSUME HandshakeInv, NEW e \in Endpoint, Perform(e)
  PROVE  HandshakeInv'
<1>1. PICK o \in Operation(e) : \E c \in {"recv", "send", "return"},
        r \in {"none", "ok", "ssl_error"}, d \in 0..1,
        w \in Seq(Written(e, o.pos)), b \in Seq(Written(e, o.pos)) :
          Performed(e, o, c, r, d, w, b)
  BY PerformIs
<1>2. PICK c \in {"recv", "send", "return"}, r \in {"none", "ok", "ssl_error"},
           d \in 0..1, w \in Seq(Written(e, o.pos)),
           b \in Seq(Written(e, o.pos)) :
             Performed(e, o, c, r, d, w, b)
  BY <1>1
<1> DEFINE p == Peer(e)
<1>3. /\ p \in Endpoint /\ p # e /\ Peer(p) = e
      /\ \A x \in Endpoint : x = e \/ x = p
  BY PeerIs
<1> HIDE DEF p
<1>4. /\ o.pos \in 0..Len(Script) /\ o.failed \in BOOLEAN
      /\ pos[e] <= o.pos /\ o.pos <= done[e]
      /\ o.pos <= pos[p] + 1
      /\ o.pos >= 1 /\ Script[o.pos] # e => o.pos <= pos[p]
      /\ o.in \in Seq(Written(p, pos[p]))
      /\ EndsWith(rbio[e], <<App, TRUE>>) => EndsWith(o.in, <<App, TRUE>>)
  BY OperationKeeps DEF p
<1>5. ControlTypes'
  BY <1>2, <1>4 DEF HandshakeInv, ControlTypes, Performed
<1>6. /\ pos[e] \in Nat /\ pos[p] \in Nat /\ o.pos \in Nat
      /\ pos'[e] = o.pos /\ pos'[p] = pos[p] /\ done' = done
  BY <1>2, <1>3, <1>4, PosIs DEF HandshakeInv, ControlTypes, Performed
<1>7. Seq(Written(e, pos[e])) \subseteq Seq(Written(e, o.pos))
      /\ Seq(Written(e, o.pos)) \subseteq Seq(Pieces)
      /\ Seq(Written(p, pos[p])) \subseteq Seq(Pieces)
  <2>1. Seq(Written(e, pos[e])) \subseteq Seq(Written(e, o.pos))
        /\ Seq(Written(e, o.pos)) \subseteq Seq(Pieces)
    BY <1>4, <1>6, WrittenGrows
  <2>2. pos[p] <= pos[p]
    BY <1>6
  <2>3. Seq(Written(p, pos[p])) \subseteq Seq(Pieces)
    BY <1>3, <1>6, <2>2, WrittenGrows
  <2> QED
    BY <2>1, <2>3
<1>8. /\ rbio'[e] = o.in /\ rbio'[p] = rbio[p] /\ wire' = wire
      /\ wbio'[e] = w /\ wbio'[p] = wbio[p]
      /\ buf'[e] = b /\ buf'[p] = buf[p]
      /\ rbio' \in [Endpoint -> Seq(Pieces)] /\ wbio' \in [Endpoint -> Seq(Pieces)]
      /\ buf' \in [Endpoint -> Seq(Pieces)]
  BY <1>2, <1>3, <1>4, <1>7 DEF HandshakeInv, PathInv, Performed
<1>9. PathInv'
  <2>1. /\ rbio[p] \in Seq(Written(e, pos[e])) /\ wire[p] \in Seq(Written(e, pos[e]))
        /\ wire[e] \in Seq(Written(p, pos[p]))
        /\ wbio[p] \in Seq(Written(p, pos[p])) /\ buf[p] \in Seq(Written(p, pos[p]))
        /\ wire \in [Endpoint -> Seq(Pieces)]
    BY <1>3 DEF HandshakeInv, PathInv, p
  <2>2. /\ rbio'[e] \in Seq(Written(p, pos'[p])) /\ wire'[e] \in Seq(Written(p, pos'[p]))
        /\ wbio'[e] \in Seq(Written(e, pos'[e])) /\ buf'[e] \in Seq(Written(e, pos'[e]))
    BY <1>4, <1>6, <1>8, <2>1
  <2>3. /\ rbio'[p] \in Seq(Written(e, pos'[e])) /\ wire'[p] \in Seq(Written(e, pos'[e]))
        /\ wbio'[p] \in Seq(Written(p, pos'[p])) /\ buf'[p] \in Seq(Written(p, pos'[p]))
    BY <1>6, <1>7, <1>8, <2>1
  <2>4. Peer(e) = p
    BY DEF p
  <2>5. wire' \in [Endpoint -> Seq(Pieces)]
    BY <1>8, <2>1
  <2>6. \A x \in Endpoint :
          /\ rbio'[x] \in Seq(Written(Peer(x), pos'[Peer(x)]))
          /\ wire'[x] \in Seq(Written(Peer(x), pos'[Peer(x)]))
          /\ wbio'[x] \in Seq(Written(x, pos'[x]))
          /\ buf'[x] \in Seq(Written(x, pos'[x]))
    BY <1>3, <2>2, <2>3, <2>4
  <2> QED
    BY <1>8, <2>5, <2>6 DEF PathInv
<1>10. PosInv'
  <2>1. /\ pos[p] <= done[p] /\ pos[p] <= pos[e] + 1
        /\ pos[p] >= 1 /\ Script[pos[p]] # p => pos[p] <= pos[e]
    BY <1>3 DEF HandshakeInv, PosInv
  <2>2. Peer(e) = p
    BY DEF p
  <2>3. ASSUME NEW x \in Endpoint
        PROVE  /\ pos'[x] <= done[x]
               /\ pos'[x] <= pos'[Peer(x)] + 1
               /\ pos'[x] >= 1 /\ Script[pos'[x]] # x => pos'[x] <= pos'[Peer(x)]
    <3>1. CASE x = e
      BY <1>4, <1>6, <2>2, <3>1
    <3>2. CASE x = p
      BY <1>3, <1>4, <1>6, <2>1, <3>2
    <3> QED
      BY <1>3, <3>1, <3>2
  <2> QED
    BY <1>6, <2>3 DEF PosInv
<1>11. ReturnInv'
  <2>1. /\ pc'[e] = c /\ pc'[p] = pc[p] /\ ret'[e] = r /\ ret'[p] = ret[p]
    BY <1>2, <1>3 DEF HandshakeInv, ControlTypes, Performed
  <2>2. /\ Len(b) <= Chunk /\ (b # <<>> => c = "send")
        /\ (r # "none" => c = "return") /\ (r = "ok" => o.pos = done[e])
        /\ (r # "none" => w = <<>>)
    BY <1>2 DEF Performed
  <2>3. /\ Len(buf[p]) <= Chunk /\ (buf[p] # <<>> => pc[p] = "send")
        /\ ret[p] # "none" => pc[p] = "return"
        /\ ret[p] = "ok" => pos[p] = done[p]
        /\ ret[p] \in {"ok", "ssl_error"} => wbio[p] = <<>>
    BY <1>3 DEF HandshakeInv, ReturnInv
  <2>4. ASSUME NEW x \in Endpoint
        PROVE  /\ Len(buf'[x]) <= Chunk
               /\ buf'[x] # <<>> => pc'[x] = "send"
               /\ ret'[x] # "none" => pc'[x] = "return"
               /\ ret'[x] = "ok" => pos'[x] = done'[x]
               /\ ret'[x] \in {"ok", "ssl_error"} => wbio'[x] = <<>>
    <3>1. CASE x = e
      BY <1>6, <1>8, <2>1, <2>2, <3>1
    <3>2. CASE x = p
      BY <1>6, <1>8, <2>1, <2>3, <3>2
    <3> QED
      BY <1>3, <3>1, <3>2
  <2> QED
    BY <2>4 DEF ReturnInv
<1>12. AppInv'
  <2>1. ret[e] = "none" /\ ~app[e]
    <3>1. pc[e] = "perform"
      BY DEF Perform
    <3>2. ret[e] = "none"
      BY <3>1 DEF HandshakeInv, ReturnInv
    <3> QED
      BY <1>3, <3>2 DEF HandshakeInv, AppInv
  <2>2. app' = app /\ ret'[p] = ret[p] /\ wire' = wire
    BY <1>2, <1>3 DEF HandshakeInv, ControlTypes, Performed
  <2>3. app[p] => /\ ret[p] = "ok"
                  /\ \/ EndsWith(wire[e], <<App, TRUE>>)
                     \/ wire[e] = <<>> /\ EndsWith(rbio[e], <<App, TRUE>>)
    BY DEF HandshakeInv, AppInv, p
  <2>4. Peer(e) = p
    BY DEF p
  <2> QED
    BY <1>3, <1>4, <1>8, <2>1, <2>2, <2>3, <2>4 DEF AppInv
<1> QED
  BY <1>5, <1>9, <1>10, <1>11, <1>12 DEF HandshakeInv

(* What a raw recv or send moves.                                          *)
LEMMA CutIs ==
  ASSUME NEW S, NEW s \in Seq(S), NEW n \in 1..Len(s)
  PROVE  /\ Take(s, n) \in Seq(S) /\ Drop(s, n) \in Seq(S)
         /\ Len(Drop(s, n)) <= Len(s)
         /\ n = Len(s) => Drop(s, n) = <<>> /\ Take(s, n) = s
         /\ n # Len(s) => \A q : EndsWith(s, q) => EndsWith(Drop(s, n), q)
<1>1. n \in Nat /\ Len(s) \in Nat /\ n <= Len(s)
  OBVIOUS
<1>2. Take(s, n) \in Seq(S) /\ (n = Len(s) => Take(s, n) = s)
  <2>1. Take(s, n) \in Seq(S) /\ (n >= Len(s) => Take(s, n) = s)
    BY <1>1, TakeIs
  <2> QED
    BY <1>1, <2>1
<1>3. Drop(s, n) \in Seq(S) /\ Len(Drop(s, n)) = Len(s) - n
  BY <1>1, DropIs
<1>4. n = Len(s) => Drop(s, n) = <<>>
  BY <1>1, <1>3
<1>5. ASSUME n # Len(s), NEW q, EndsWith(s, q) PROVE EndsWith(Drop(s, n), q)
  <2>1. n < Len(s)
    BY <1>1, <1>5
  <2> QED
    BY <1>1, <1>5, <2>1, DropIs
<1> QED
  BY <1>1, <1>2, <1>3, <1>4, <1>5

(* A raw recv moves the front of what is on the way into the BIO.          *)
LEMMA RawRecvStep ==
  ASSUME HandshakeInv, NEW e \in Endpoint, RawRecv(e)
  PROVE  HandshakeInv'
<1>1. PICK n \in 1..Min({Chunk, Len(wire[e])}) :
        /\ rbio' = [rbio EXCEPT ![e] = rbio[e] \o Take(wire[e], n)]
        /\ wire' = [wire EXCEPT ![e] = Drop(wire[e], n)]
  BY DEF RawRecv
<1>2. /\ pc[e] = "recv" /\ pc' = [pc EXCEPT ![e] = "perform"]
      /\ UNCHANGED <<done, pos, failed, errors, wbio, buf, ret, code, eof, app>>
  BY DEF RawRecv
<1> DEFINE p == Peer(e)
           S == Written(p, pos[p])
<1>3. /\ p \in Endpoint /\ p # e /\ Peer(p) = e
      /\ \A x \in Endpoint : x = e \/ x = p
  BY PeerIs
<1>4. rbio[e] \in Seq(S) /\ wire[e] \in Seq(S)
  BY DEF HandshakeInv, PathInv
<1>5. Seq(S) \subseteq Seq(Pieces)
  <2>1. pos[p] \in Nat /\ pos[p] <= pos[p]
    BY <1>3, PosIs DEF HandshakeInv
  <2> QED
    BY <1>3, <2>1, WrittenGrows
<1> HIDE DEF p, S
<1>6. n \in 1..Len(wire[e])
  <2>1. Chunk \in Nat /\ Len(wire[e]) \in Nat
    BY <1>4, HandshakeAssumption
  <2>2. Min({Chunk, Len(wire[e])}) = IF Chunk <= Len(wire[e]) THEN Chunk
                                     ELSE Len(wire[e])
    BY <2>1, MinOfTwo
  <2> QED
    BY <2>1, <2>2
<1> DEFINE t == Take(wire[e], n)
           u == Drop(wire[e], n)
<1>7. /\ t \in Seq(S) /\ u \in Seq(S)
      /\ n = Len(wire[e]) => u = <<>> /\ t = wire[e]
      /\ n # Len(wire[e]) => \A q : EndsWith(wire[e], q) => EndsWith(u, q)
  BY <1>4, <1>6, CutIs
<1> HIDE DEF t, u
<1>8. /\ rbio[e] \o t \in Seq(S)
      /\ \A q : EndsWith(t, q) => EndsWith(rbio[e] \o t, q)
  BY <1>4, <1>7, ConcatIs
<1>9. /\ rbio'[e] = rbio[e] \o t /\ rbio'[p] = rbio[p]
      /\ wire'[e] = u /\ wire'[p] = wire[p]
      /\ rbio' \in [Endpoint -> Seq(Pieces)] /\ wire' \in [Endpoint -> Seq(Pieces)]
  <2>1. /\ rbio \in [Endpoint -> Seq(Pieces)] /\ wire \in [Endpoint -> Seq(Pieces)]
    BY DEF HandshakeInv, PathInv
  <2>2. rbio' = [rbio EXCEPT ![e] = rbio[e] \o t] /\ wire' = [wire EXCEPT ![e] = u]
    BY <1>1 DEF t, u
  <2>3. rbio[e] \o t \in Seq(Pieces) /\ u \in Seq(Pieces)
    BY <1>5, <1>7, <1>8
  <2> QED
    BY <1>3, <2>1, <2>2, <2>3
<1>10. ControlTypes'
  BY <1>2 DEF HandshakeInv, ControlTypes
<1>11. PathInv'
  <2>1. Peer(e) = p
    BY DEF p
  <2>2. wbio' = wbio /\ buf' = buf /\ pos' = pos
    BY <1>2
  <2>3. ASSUME NEW x \in Endpoint
        PROVE  /\ rbio'[x] \in Seq(Written(Peer(x), pos[Peer(x)]))
               /\ wire'[x] \in Seq(Written(Peer(x), pos[Peer(x)]))
    <3>1. CASE x = e
      BY <1>7, <1>8, <1>9, <2>1, <3>1 DEF S
    <3>2. CASE x = p
      BY <1>9, <3>2 DEF HandshakeInv, PathInv
    <3> QED
      BY <1>3, <3>1, <3>2
  <2> QED
    BY <1>9, <2>2, <2>3 DEF HandshakeInv, PathInv
<1>12. PosInv'
  BY <1>2 DEF HandshakeInv, PosInv
<1>13. ReturnInv'
  <2>1. pc'[e] = "perform" /\ pc'[p] = pc[p]
    BY <1>2, <1>3 DEF HandshakeInv, ControlTypes
  <2>2. buf[e] = <<>> /\ ret[e] = "none"
    BY <1>2 DEF HandshakeInv, ReturnInv
  <2> QED
    BY <1>2, <1>3, <2>1, <2>2 DEF HandshakeInv, ReturnInv
<1>14. AppInv'
  <2>1. ASSUME app[p]
        PROVE  \/ EndsWith(wire'[e], <<App, TRUE>>)
               \/ wire'[e] = <<>> /\ EndsWith(rbio'[e], <<App, TRUE>>)
    <3>1. EndsWith(wire[e], <<App, TRUE>>)
      <4>1. wire[e] # <<>>
        BY <1>4, <1>6
      <4> QED
        BY <2>1, <4>1 DEF HandshakeInv, AppInv, p
    <3>2. CASE n = Len(wire[e])
      BY <1>7, <1>8, <1>9, <3>1, <3>2
    <3>3. CASE n # Len(wire[e])
      BY <1>7, <1>9, <3>1, <3>3
    <3> QED
      BY <3>2, <3>3
  <2>2. Peer(e) = p
    BY DEF p
  <2>3. rbio'[p] = rbio[p] /\ wire'[p] = wire[p] /\ app' = app /\ ret' = ret
    BY <1>2, <1>9
  <2>4. ASSUME NEW x \in Endpoint, app[Peer(x)]
        PROVE  /\ ret[Peer(x)] = "ok"
               /\ \/ EndsWith(wire'[x], <<App, TRUE>>)
                  \/ wire'[x] = <<>> /\ EndsWith(rbio'[x], <<App, TRUE>>)
    <3>1. ret[Peer(x)] = "ok"
      BY <2>4 DEF HandshakeInv, AppInv
    <3>2. CASE x = e
      BY <2>1, <2>2, <2>4, <3>1, <3>2
    <3>3. CASE x = p
      BY <2>3, <2>4, <3>3 DEF HandshakeInv, AppInv
    <3> QED
      BY <1>3, <3>2, <3>3
  <2> QED
    BY <2>3, <2>4 DEF AppInv
<1> QED
  BY <1>10, <1>11, <1>12, <1>13, <1>14 DEF HandshakeInv

(* handshake returns because the connection has ended or broken.           *)
LEMMA BreaksStep ==
  ASSUME HandshakeInv, NEW e \in Endpoint,
         RecvEof(e) \/ RecvFails(e) \/ SendFails(e)
  PROVE  HandshakeInv'
<1>1. PICK r \in {"eof", "sys_error"} :
        /\ ret' = [ret EXCEPT ![e] = r] /\ pc' = [pc EXCEPT ![e] = "return"]
  BY DEF RecvEof, RecvFails, SendFails, Return
<1>2. /\ UNCHANGED <<done, pos, failed, errors, rbio, wbio, code, wire, eof, app>>
      /\ pc[e] # "return"
      /\ buf' = buf \/ buf' = [buf EXCEPT ![e] = <<>>]
      /\ buf' = buf => pc[e] = "recv" \/ buf[e] = <<>>
  <2>1. buf \in [Endpoint -> Seq(Pieces)]
    BY DEF HandshakeInv, PathInv
  <2>2. buf' = [buf EXCEPT ![e] = <<>>] /\ buf' = buf => buf[e] = <<>>
    BY <2>1
  <2> QED
    BY <2>2 DEF RecvEof, RecvFails, SendFails
<1>3. ControlTypes'
  BY <1>1, <1>2 DEF HandshakeInv, ControlTypes
<1>4. /\ buf' \in [Endpoint -> Seq(Pieces)] /\ buf'[e] = <<>>
      /\ \A x \in Endpoint \ {e} : buf'[x] = buf[x]
  <2>1. buf \in [Endpoint -> Seq(Pieces)] /\ <<>> \in Seq(Pieces)
    BY DEF HandshakeInv, PathInv
  <2>2. pc[e] = "recv" => buf[e] = <<>>
    BY DEF HandshakeInv, ReturnInv
  <2> QED
    BY <1>2, <2>1, <2>2
<1>5. PathInv'
  <2>1. \A x \in Endpoint : buf'[x] \in Seq(Written(x, pos[x]))
    <3>1. \A x \in Endpoint : <<>> \in Seq(Written(x, pos[x]))
      OBVIOUS
    <3> QED
      BY <1>4, <3>1 DEF HandshakeInv, PathInv
  <2> QED
    BY <1>2, <1>4, <2>1 DEF HandshakeInv, PathInv
<1>6. PosInv'
  BY <1>2 DEF HandshakeInv, PosInv
<1>7. /\ pc'[e] = "return" /\ ret'[e] = r
      /\ \A x \in Endpoint \ {e} : pc'[x] = pc[x] /\ ret'[x] = ret[x]
  BY <1>1 DEF HandshakeInv, ControlTypes
<1>8. ReturnInv'
  <2>1. Len(<<>>) <= Chunk
    BY HandshakeAssumption
  <2> QED
    BY <1>2, <1>4, <1>7, <2>1 DEF HandshakeInv, ReturnInv
<1>9. AppInv'
  <2>1. ret[e] = "none"
    BY <1>2 DEF HandshakeInv, ReturnInv
  <2>2. \A x \in Endpoint : app[x] => ret'[x] = "ok"
    <3>1. \A x \in Endpoint : app[x] => ret[x] = "ok"
      BY PeerIs DEF HandshakeInv, AppInv
    <3> QED
      BY <1>7, <2>1, <3>1
  <2> QED
    BY <1>2, <2>2, PeerIs DEF HandshakeInv, AppInv
<1> QED
  BY <1>3, <1>5, <1>6, <1>8, <1>9 DEF HandshakeInv

(* Something is put behind what is on the way to the peer.                 *)
LEMMA WireGrows ==
  ASSUME HandshakeInv, NEW e \in Endpoint,
         NEW t \in Seq(Written(e, pos[e])),
         wire' = [wire EXCEPT ![Peer(e)] = wire[Peer(e)] \o t],
         UNCHANGED <<pos, rbio>>
  PROVE  /\ wire' \in [Endpoint -> Seq(Pieces)]
         /\ \A x \in Endpoint :
              wire'[x] \in Seq(Written(Peer(x), pos[Peer(x)]))
         /\ wire'[e] = wire[e] /\ wire'[Peer(e)] = wire[Peer(e)] \o t
         /\ \A q : EndsWith(t, q) => EndsWith(wire'[Peer(e)], q)
<1> DEFINE p == Peer(e)
           S == Written(e, pos[e])
<1>1. /\ p \in Endpoint /\ p # e /\ Peer(p) = e
      /\ \A x \in Endpoint : x = e \/ x = p
  BY PeerIs
<1>2. Seq(S) \subseteq Seq(Pieces)
  <2>1. pos[e] \in Nat /\ pos[e] <= pos[e]
    BY PosIs DEF HandshakeInv
  <2> QED
    BY <2>1, WrittenGrows
<1>3. wire[p] \in Seq(S) /\ wire \in [Endpoint -> Seq(Pieces)]
  BY <1>1 DEF HandshakeInv, PathInv
<1>4. wire' = [wire EXCEPT ![p] = wire[p] \o t]
  OBVIOUS
<1> HIDE DEF p, S
<1>5. t \in Seq(S)
  BY DEF S
<1>6. wire[p] \o t \in Seq(S)
      /\ \A q : EndsWith(t, q) => EndsWith(wire[p] \o t, q)
  BY <1>3, <1>5, ConcatIs
<1>7. wire[p] \o t \in Seq(Pieces)
  BY <1>2, <1>6
<1>8. /\ wire' \in [Endpoint -> Seq(Pieces)]
      /\ wire'[p] = wire[p] \o t /\ wire'[e] = wire[e]
  BY <1>1, <1>3, <1>4, <1>7
<1>9. ASSUME NEW x \in Endpoint
      PROVE  wire'[x] \in Seq(Written(Peer(x), pos[Peer(x)]))
  <2>1. CASE x = e
    BY <1>8, <2>1 DEF HandshakeInv, PathInv
  <2>2. CASE x = p
    BY <1>1, <1>6, <1>8, <2>2 DEF S
  <2> QED
    BY <1>1, <2>1, <2>2
<1> QED
  BY <1>6, <1>8, <1>9 DEF p

(* A raw send takes the front of buf.                                      *)
LEMMA RawSendStep ==
  ASSUME HandshakeInv, NEW e \in Endpoint, RawSend(e)
  PROVE  HandshakeInv'
<1> DEFINE S == Written(e, pos[e])
           p == Peer(e)
<1>1. PICK n \in 1..Len(buf[e]) :
        /\ wire' = [wire EXCEPT ![p] = wire[p] \o Take(buf[e], n)]
        /\ buf' = [buf EXCEPT ![e] = Drop(buf[e], n)]
        /\ pc' = [pc EXCEPT ![e] = IF n = Len(buf[e]) THEN "perform" ELSE "send"]
  BY DEF RawSend
<1>2. /\ pc[e] = "send"
      /\ UNCHANGED <<done, pos, failed, errors, rbio, wbio, ret, code, eof, app>>
  BY DEF RawSend
<1>3. /\ p \in Endpoint /\ p # e /\ Peer(p) = e
      /\ \A x \in Endpoint : x = e \/ x = p
  BY PeerIs
<1>4. buf[e] \in Seq(S) /\ buf \in [Endpoint -> Seq(Pieces)]
      /\ Len(buf[e]) <= Chunk
  BY DEF HandshakeInv, PathInv, ReturnInv
<1>5. Seq(S) \subseteq Seq(Pieces)
  <2>1. pos[e] \in Nat /\ pos[e] <= pos[e]
    BY PosIs DEF HandshakeInv
  <2> QED
    BY <2>1, WrittenGrows
<1> DEFINE t == Take(buf[e], n)
           u == Drop(buf[e], n)
<1>6. /\ t \in Seq(S) /\ u \in Seq(S) /\ Len(u) <= Len(buf[e])
      /\ n = Len(buf[e]) => u = <<>>
  <2> HIDE DEF S
  <2> QED
    BY <1>4, CutIs
<1>7. /\ wire' \in [Endpoint -> Seq(Pieces)]
      /\ \A x \in Endpoint : wire'[x] \in Seq(Written(Peer(x), pos[Peer(x)]))
      /\ wire'[e] = wire[e]
  BY <1>1, <1>2, <1>6, WireGrows
<1> HIDE DEF t, u, p, S
<1>8. Len(u) <= Chunk
  <2>1. Len(u) \in Nat /\ Len(buf[e]) \in Nat /\ Chunk \in Nat
    BY <1>4, <1>6, HandshakeAssumption
  <2> QED
    BY <1>4, <1>6, <2>1
<1>9. /\ buf'[e] = u /\ buf'[p] = buf[p] /\ buf' \in [Endpoint -> Seq(Pieces)]
  <2>1. buf' = [buf EXCEPT ![e] = u] /\ u \in Seq(Pieces)
    BY <1>1, <1>5, <1>6 DEF u
  <2> QED
    BY <1>3, <1>4, <2>1
<1>10. ControlTypes'
  BY <1>1, <1>2 DEF HandshakeInv, ControlTypes
<1>11. PathInv'
  <2>1. ASSUME NEW x \in Endpoint PROVE buf'[x] \in Seq(Written(x, pos[x]))
    <3>1. CASE x = e
      BY <1>6, <1>9, <3>1 DEF S
    <3>2. CASE x = p
      BY <1>9, <3>2 DEF HandshakeInv, PathInv
    <3> QED
      BY <1>3, <3>1, <3>2
  <2> QED
    BY <1>2, <1>7, <1>9, <2>1 DEF HandshakeInv, PathInv
<1>12. PosInv'
  BY <1>2 DEF HandshakeInv, PosInv
<1>13. ReturnInv'
  <2>1. /\ pc'[e] = (IF n = Len(buf[e]) THEN "perform" ELSE "send")
        /\ pc'[p] = pc[p]
    BY <1>1, <1>3 DEF HandshakeInv, ControlTypes
  <2>2. ret[e] = "none"
    BY <1>2 DEF HandshakeInv, ReturnInv
  <2>3. u # <<>> => pc'[e] = "send"
    BY <1>6, <2>1
  <2> QED
    BY <1>2, <1>3, <1>8, <1>9, <2>1, <2>2, <2>3 DEF HandshakeInv, ReturnInv
<1>14. AppInv'
  <2>1. ~app[e]
    <3>1. ret[e] = "none"
      BY <1>2 DEF HandshakeInv, ReturnInv
    <3> QED
      BY <1>3, <3>1 DEF HandshakeInv, AppInv
  <2>2. Peer(e) = p
    BY DEF p
  <2> QED
    BY <1>2, <1>3, <1>7, <2>1, <2>2 DEF HandshakeInv, AppInv
<1> QED
  BY <1>10, <1>11, <1>12, <1>13, <1>14 DEF HandshakeInv

(* The caller whose handshake has succeeded sends data.                    *)
LEMMA SendAppStep ==
  ASSUME HandshakeInv, NEW e \in Endpoint, SendApp(e)
  PROVE  HandshakeInv'
<1> DEFINE t == << <<App, TRUE>> >>
           p == Peer(e)
<1>1. /\ ret[e] = "ok" /\ app' = [app EXCEPT ![e] = TRUE]
      /\ wire' = [wire EXCEPT ![p] = Append(wire[p], <<App, TRUE>>)]
      /\ UNCHANGED <<done, pos, failed, errors, rbio, wbio, buf, pc, ret, code,
                     eof>>
  BY DEF SendApp
<1>2. /\ p \in Endpoint /\ p # e /\ Peer(p) = e
      /\ \A x \in Endpoint : x = e \/ x = p
  BY PeerIs
<1>3. t \in Seq(Written(e, pos[e])) /\ EndsWith(t, <<App, TRUE>>)
  <2>1. <<App, TRUE>> \in Written(e, pos[e])
    BY DEF Written
  <2>2. t \in Seq(Written(e, pos[e])) /\ Len(t) = 1 /\ t # <<>>
    BY <2>1
  <2>3. t[1] = <<App, TRUE>>
    OBVIOUS
  <2> HIDE DEF t
  <2> QED
    BY <2>2, <2>3 DEF EndsWith
<1>4. Append(wire[p], <<App, TRUE>>) = wire[p] \o t
  <2>1. wire[p] \in Seq(Pieces)
    BY <1>2 DEF HandshakeInv, PathInv
  <2>2. <<App, TRUE>> \in Pieces
    <3>1. App \in 0..App
      BY ScriptIs
    <3> QED
      BY <3>1 DEF Pieces
  <2> HIDE DEF p
  <2> QED
    BY <2>1, <2>2, AppendIsConcat
<1>5. /\ wire' \in [Endpoint -> Seq(Pieces)]
      /\ \A x \in Endpoint : wire'[x] \in Seq(Written(Peer(x), pos[Peer(x)]))
      /\ wire'[e] = wire[e] /\ EndsWith(wire'[p], <<App, TRUE>>)
  BY <1>1, <1>3, <1>4, WireGrows
<1> HIDE DEF t, p
<1>6. ControlTypes'
  BY <1>1 DEF HandshakeInv, ControlTypes
<1>7. PathInv'
  BY <1>1, <1>5 DEF HandshakeInv, PathInv
<1>8. PosInv' /\ ReturnInv'
  BY <1>1 DEF HandshakeInv, PosInv, ReturnInv
<1>9. AppInv'
  <2>1. app'[p] = app[p]
    BY <1>1, <1>2 DEF HandshakeInv, ControlTypes
  <2>2. Peer(e) = p
    BY DEF p
  <2> QED
    BY <1>1, <1>2, <1>5, <2>1, <2>2 DEF HandshakeInv, AppInv
<1> QED
  BY <1>6, <1>7, <1>8, <1>9 DEF HandshakeInv

-----------------------------------------------------------------------------
(* The invariant holds, and what follows from it.                          *)

LEMMA HandshakeStep ==
  ASSUME HandshakeInv, [Next]_vars PROVE HandshakeInv'
<1>1. ASSUME NEW e \in Endpoint, Close(e) PROVE HandshakeInv'
  BY <1>1, PeerIs DEF Close, HandshakeInv, ControlTypes, PathInv, PosInv, ReturnInv,
     AppInv
<1>2. CASE UNCHANGED vars
  BY <1>2 DEF vars, HandshakeInv, ControlTypes, PathInv, PosInv, ReturnInv, AppInv
<1> QED
  BY <1>1, <1>2, PerformStep, RawRecvStep, BreaksStep, RawSendStep, SendAppStep
     DEF Next

LEMMA HandshakeInit == Init => HandshakeInv
<1> SUFFICES ASSUME Init PROVE HandshakeInv
  OBVIOUS
<1>1. Len(Script) \in Nat /\ Chunk \in Nat \ {0}
  BY ScriptIs, HandshakeAssumption
<1>2. ControlTypes
  BY <1>1 DEF Init, ControlTypes
<1>3. PathInv
  BY PeerIs DEF Init, PathInv
<1>4. PosInv
  <2>1. \A e \in Endpoint : done[e] \in Nat /\ pos[e] = 0 /\ pos[Peer(e)] = 0
    BY <1>2, PosIs, PeerIs DEF Init
  <2> QED
    BY <2>1 DEF PosInv
<1>5. ReturnInv
  BY <1>1 DEF Init, ReturnInv
<1>6. AppInv
  BY PeerIs DEF Init, AppInv
<1> QED
  BY <1>2, <1>3, <1>4, <1>5, <1>6 DEF HandshakeInv

LEMMA HandshakeAlways == Spec => []HandshakeInv
BY HandshakeInit, HandshakeStep, PTL DEF Spec

(* TypeOK of SslHandshake: the positions stay within the script, buf is    *)
(* never longer than its size and is used by a send only.                  *)
THEOREM HandshakeTyped == Spec => []TypeOK
<1>1. HandshakeInv => TypeOK
  BY DEF HandshakeInv, ControlTypes, PathInv, ReturnInv, TypeOK
<1> QED
  BY <1>1, HandshakeAlways, PTL

(* ReturnedFlushed, for ssl_engine::perform and ssl_stream::handshake: the *)
(* engine returns success or an error only with its flights, or its alert, *)
(* handed to the transport, however long they are.                         *)
THEOREM HandshakeFlushes == Spec => []ReturnedFlushed
<1>1. HandshakeInv => ReturnedFlushed
  BY DEF HandshakeInv, ReturnInv, ReturnedFlushed
<1> QED
  BY <1>1, HandshakeAlways, PTL

(* SuccessIsShared, for ssl_stream::handshake: an endpoint that succeeds   *)
(* has a peer that has accepted everything up to the last flight.          *)
THEOREM HandshakeShared == Spec => []SuccessIsShared
<1>1. HandshakeInv => SuccessIsShared
  <2> SUFFICES ASSUME HandshakeInv, NEW e \in Endpoint, ret[e] = "ok"
               PROVE  pos[Peer(e)] >= done[e] - 1
    BY DEF SuccessIsShared
  <2>1. pos[e] = done[e] /\ pos[e] <= pos[Peer(e)] + 1
    BY DEF HandshakeInv, ReturnInv, PosInv
  <2>2. pos[Peer(e)] \in Nat /\ done[e] \in Nat
    BY PosIs, PeerIs DEF HandshakeInv
  <2> QED
    BY <2>1, <2>2
<1> QED
  BY <1>1, HandshakeAlways, PTL

(* AppDataKept, for ssl_stream::handshake: data that comes in behind the   *)
(* last flight of the peer is not lost with it, wherever the raw recvs cut *)
(* the ciphertext.                                                         *)
THEOREM HandshakeKeepsData == Spec => []AppDataKept
<1>1. HandshakeInv => AppDataKept
  <2> SUFFICES ASSUME HandshakeInv, NEW e \in Endpoint, app[Peer(e)]
               PROVE  <<App, TRUE>> \in ToSet(rbio[e]) \cup ToSet(wire[e])
    BY DEF AppDataKept
  <2>1. ASSUME NEW s \in Seq(Pieces), EndsWith(s, <<App, TRUE>>)
        PROVE  <<App, TRUE>> \in ToSet(s)
    <3>1. Len(s) \in DOMAIN s /\ s[Len(s)] = <<App, TRUE>>
      BY <2>1 DEF EndsWith
    <3> QED
      BY <3>1 DEF ToSet
  <2>2. rbio[e] \in Seq(Pieces) /\ wire[e] \in Seq(Pieces)
    BY DEF HandshakeInv, PathInv
  <2>3. EndsWith(wire[e], <<App, TRUE>>) \/ EndsWith(rbio[e], <<App, TRUE>>)
    BY DEF HandshakeInv, AppInv
  <2> QED
    BY <2>1, <2>2, <2>3
<1> QED
  BY <1>1, HandshakeAlways, PTL
=============================================================================
