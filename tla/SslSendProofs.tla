--------------------------- MODULE SslSendProofs ---------------------------
(***************************************************************************)
(* Theorems about SslSend, for every set of senders, every size of the     *)
(* chunk and of the records, and any number of calls and answers.          *)
(***************************************************************************)
EXTENDS SslSend, FiniteSetTheorems, SequenceTheorems, TLAPS

(* The pieces of ciphertext of TypeOK.                                     *)
Piece == ((1..MaxCalls) \X (1..MaxPieces)) \cup ({0} \X (1..MaxAnswers))

-----------------------------------------------------------------------------
(* Lemmas about the operators on sequences.                                *)

(* The lesser of two numbers.                                              *)
LEMMA MinOfTwo ==
  ASSUME NEW a \in Nat, NEW b \in Nat
  PROVE  Min({a, b}) = IF a <= b THEN a ELSE b
<1> DEFINE m == IF a <= b THEN a ELSE b
<1>1. m \in {a, b} /\ \A y \in {a, b} : m <= y
  OBVIOUS
<1>2. \A x \in {a, b} : (\A y \in {a, b} : x <= y) => x = m
  OBVIOUS
<1> QED
  BY <1>1, <1>2 DEF Min

(* Take and Drop cut a sequence in two.                                    *)
LEMMA Cut ==
  ASSUME NEW S, NEW s \in Seq(S), NEW n \in Nat
  PROVE  /\ Take(s, n) \in Seq(S)
         /\ Drop(s, n) \in Seq(S)
         /\ Len(Take(s, n)) = IF n <= Len(s) THEN n ELSE Len(s)
         /\ Len(Drop(s, n)) = IF n <= Len(s) THEN Len(s) - n ELSE 0
         /\ Take(s, n) \o Drop(s, n) = s
<1> DEFINE m == IF n <= Len(s) THEN n ELSE Len(s)
<1>1. m \in 0..Len(s) /\ Len(s) \in Nat
  OBVIOUS
<1>2. Take(s, n) = SubSeq(s, 1, m)
  BY MinOfTwo DEF Take
<1>3. /\ Take(s, n) \in Seq(S)
      /\ Len(Take(s, n)) = m
      /\ \A i \in 1..m : Take(s, n)[i] = s[i]
  BY <1>1, <1>2
<1>4. /\ Drop(s, n) \in Seq(S)
      /\ Len(Drop(s, n)) = Len(s) - m
      /\ \A i \in 1..(Len(s) - m) : Drop(s, n)[i] = s[m + i]
  <2>1. CASE n <= Len(s)
    BY <1>1, <2>1 DEF Drop
  <2>2. CASE n > Len(s)
    <3>1. Drop(s, n) = <<>>
      BY <1>1, <2>2, SubSeqEmpty DEF Drop
    <3> QED
      BY <1>1, <2>2, <3>1
  <2> QED
    BY <2>1, <2>2
<1> HIDE DEF m
<1>5. Take(s, n) \o Drop(s, n) = s
  <2>1. /\ Take(s, n) \o Drop(s, n) \in Seq(S)
        /\ Len(Take(s, n) \o Drop(s, n)) = Len(s)
    BY <1>1, <1>3, <1>4
  <2>2. ASSUME NEW i \in 1..Len(s)
        PROVE  (Take(s, n) \o Drop(s, n))[i] = s[i]
    <3>1. CASE i <= m
      BY <1>1, <1>3, <1>4, <3>1
    <3>2. CASE i > m
      <4>1. i - m \in 1..(Len(s) - m) /\ m + (i - m) = i
        BY <1>1, <3>2
      <4>2. Drop(s, n)[i - m] = s[i]
        BY <1>4, <4>1
      <4> QED
        BY <1>1, <1>3, <1>4, <3>2, <4>2
    <3>3. i <= m \/ i > m
      BY <1>1
    <3> QED
      BY <3>1, <3>2, <3>3
  <2> QED
    BY <2>1, <2>2, SeqEqual
<1> QED
  BY <1>1, <1>3, <1>4, <1>5 DEF m

(* No piece occurs twice.                                                  *)
Distinct(s) == \A i, j \in DOMAIN s : i # j => s[i] # s[j]

(* What a concatenation consists of.                                       *)
LEMMA ConcatParts ==
  ASSUME NEW S, NEW s \in Seq(S), NEW t \in Seq(S)
  PROVE  /\ ToSet(s \o t) = ToSet(s) \cup ToSet(t)
         /\ Distinct(s \o t) <=>
              Distinct(s) /\ Distinct(t) /\ ToSet(s) \cap ToSet(t) = {}
<1> DEFINE u == s \o t
<1>1. /\ u \in Seq(S) /\ Len(u) = Len(s) + Len(t)
      /\ \A i \in 1..Len(s) : u[i] = s[i]
      /\ \A i \in 1..Len(t) : u[Len(s) + i] = t[i]
      /\ DOMAIN s = 1..Len(s) /\ DOMAIN t = 1..Len(t)
      /\ DOMAIN u = 1..(Len(s) + Len(t))
  OBVIOUS
<1>2. \A i \in DOMAIN u :
        i \in DOMAIN s \/ \E j \in DOMAIN t : i = Len(s) + j
  <2> SUFFICES ASSUME NEW i \in DOMAIN u, i \notin DOMAIN s
               PROVE  i - Len(s) \in DOMAIN t /\ i = Len(s) + (i - Len(s))
    OBVIOUS
  <2> QED
    BY <1>1
<1>3. \A i \in DOMAIN s : i \in DOMAIN u
  BY <1>1
<1>4. \A j \in DOMAIN t : Len(s) + j \in DOMAIN u /\ Len(s) + j \notin DOMAIN s
  BY <1>1
<1> HIDE DEF u
<1>5. ToSet(u) = ToSet(s) \cup ToSet(t)
  <2>1. ToSet(u) \subseteq ToSet(s) \cup ToSet(t)
    BY <1>1, <1>2 DEF ToSet
  <2>2. ToSet(s) \subseteq ToSet(u)
    BY <1>1, <1>3 DEF ToSet
  <2>3. ToSet(t) \subseteq ToSet(u)
    <3> SUFFICES ASSUME NEW j \in DOMAIN t PROVE t[j] \in ToSet(u)
      BY DEF ToSet
    <3>1. u[Len(s) + j] = t[j] /\ Len(s) + j \in DOMAIN u
      BY <1>1, <1>4
    <3> QED
      BY <3>1 DEF ToSet
  <2> QED
    BY <2>1, <2>2, <2>3
<1>6. ASSUME Distinct(u)
      PROVE  Distinct(s) /\ Distinct(t) /\ ToSet(s) \cap ToSet(t) = {}
  <2>1. Distinct(s)
    BY <1>1, <1>3, <1>6 DEF Distinct
  <2>2. Distinct(t)
    <3> SUFFICES ASSUME NEW i \in DOMAIN t, NEW j \in DOMAIN t, i # j
                 PROVE  t[i] # t[j]
      BY DEF Distinct
    <3>1. Len(s) + i # Len(s) + j
      BY <1>1
    <3> QED
      BY <1>1, <1>4, <1>6, <3>1 DEF Distinct
  <2>3. ASSUME NEW i \in DOMAIN s, NEW j \in DOMAIN t PROVE s[i] # t[j]
    BY <1>1, <1>3, <1>4, <1>6 DEF Distinct
  <2> QED
    BY <2>1, <2>2, <2>3 DEF ToSet
<1>7. ASSUME Distinct(s), Distinct(t), ToSet(s) \cap ToSet(t) = {}
      PROVE  Distinct(u)
  <2>1. \A i \in DOMAIN s, j \in DOMAIN t : s[i] # t[j]
    BY <1>7 DEF ToSet
  <2> SUFFICES ASSUME NEW i \in DOMAIN u, NEW j \in DOMAIN u, i # j
               PROVE  u[i] # u[j]
    BY DEF Distinct
  <2> QED
    BY <1>1, <1>2, <1>7, <2>1 DEF Distinct
<1> QED
  BY <1>5, <1>6, <1>7 DEF u

(* A sequence without repetitions is as long as its set is large.          *)
LEMMA DistinctLength ==
  ASSUME NEW S, NEW s \in Seq(S), Distinct(s)
  PROVE  Cardinality(ToSet(s)) = Len(s)
<1>1. Len(s) \in Nat /\ DOMAIN s = 1..Len(s)
  OBVIOUS
<1>2. s \in Bijection(1..Len(s), ToSet(s))
  <2>1. s \in [1..Len(s) -> ToSet(s)]
    BY <1>1 DEF ToSet
  <2>2. \A y \in ToSet(s) : \E i \in 1..Len(s) : s[i] = y
    BY <1>1 DEF ToSet
  <2> QED
    BY <1>1, <2>1, <2>2 DEF Bijection, Injection, Surjection, IsInjective, Distinct
<1>3. ExistsBijection(1..Len(s), ToSet(s))
  BY <1>2 DEF ExistsBijection
<1> QED
  BY <1>1, <1>3, FS_CountingElements

-----------------------------------------------------------------------------
(* Types.                                                                  *)

(* TypeOK in terms of Piece.                                               *)
Types ==
  /\ calls \in 0..MaxCalls
  /\ answers \in 0..MaxAnswers
  /\ produced \in Seq(Piece) /\ bio \in Seq(Piece) /\ wire \in Seq(Piece)
  /\ chunk \in [Sender -> Seq(Piece)]
  /\ \A s \in Sender : Len(chunk[s]) <= Chunk
  /\ op \in [Sender -> {"none", "flight", "done"}]
  /\ cq \in Seq(Sender \X Int)
  /\ call \in [Sender -> 0..MaxCalls]
  /\ ret \in [Sender -> {"none", "busy", "ok", "failed"}]
  /\ breach \subseteq {"concurrent", "after_failure"}

LEMMA TypesAre == TypeOK <=> Types
BY DEF TypeOK, Types, Piece

(* ReadChunk puts the parts of a sequence of pieces where pieces belong.   *)
LEMMA ReadChunkType ==
  ASSUME Types, NEW s \in Sender, NEW output \in Seq(Piece),
         ReadChunk(s, output)
  PROVE  /\ chunk' \in [Sender -> Seq(Piece)]
         /\ \A z \in Sender : Len(chunk'[z]) <= Chunk
         /\ bio' \in Seq(Piece)
         /\ op' \in [Sender -> {"none", "flight", "done"}]
<1>1. /\ Take(output, Chunk) \in Seq(Piece)
      /\ Drop(output, Chunk) \in Seq(Piece)
      /\ Len(Take(output, Chunk)) <= Chunk
  BY Cut, SendAssumption
<1> QED
  BY <1>1 DEF ReadChunk, Types

(* Every step keeps the types.                                             *)
LEMMA TypeStep ==
  ASSUME Types, [Next]_vars PROVE Types'
<1> USE SendAssumption
<1>0. /\ calls \in 0..MaxCalls /\ answers \in 0..MaxAnswers
      /\ produced \in Seq(Piece) /\ bio \in Seq(Piece) /\ wire \in Seq(Piece)
      /\ chunk \in [Sender -> Seq(Piece)]
      /\ cq \in Seq(Sender \X Int)
  BY DEF Types
<1>1. CASE Answer
  <2>1. <<0, answers + 1>> \in Piece
    BY <1>0, <1>1 DEF Answer, Piece
  <2>2. answers' \in 0..MaxAnswers
    BY <1>0, <1>1 DEF Answer
  <2>3. produced' \in Seq(Piece) /\ bio' \in Seq(Piece)
    BY <1>0, <1>1, <2>1, AppendProperties DEF Answer
  <2> QED
    BY <1>1, <2>2, <2>3 DEF Types, Answer
<1>2. ASSUME NEW s \in Sender, NEW n \in 1..MaxPieces, Send(s, n)
      PROVE  Types'
  <2> DEFINE record == [i \in 1..n |-> <<calls + 1, i>>]
  <2>1. calls + 1 \in 1..MaxCalls
    BY <1>0, <1>2 DEF Send
  <2>2. \A i \in 1..n : <<calls + 1, i>> \in Piece
    BY <2>1 DEF Piece
  <2>3. record \in Seq(Piece)
    <3>1. record \in [1..n -> Piece]
      BY <2>2
    <3> HIDE DEF record
    <3> QED
      BY <3>1, SeqDef
  <2> HIDE DEF record
  <2>4. bio \o record \in Seq(Piece) /\ produced \o record \in Seq(Piece)
    BY <1>0, <2>3
  <2>5. produced' = produced \o record /\ ReadChunk(s, bio \o record)
    BY <1>2 DEF Send, record
  <2>6. /\ call' \in [Sender -> 0..MaxCalls]
        /\ ret' \in [Sender -> {"none", "busy", "ok", "failed"}]
        /\ breach' \subseteq {"concurrent", "after_failure"}
        /\ calls' \in 0..MaxCalls
    <3>1. CallBreach(s) \subseteq {"concurrent", "after_failure"}
      BY DEF CallBreach
    <3>2. breach' = breach \cup CallBreach(s)
      BY <1>2 DEF Send
    <3>3. calls' = calls + 1 /\ call' = [call EXCEPT ![s] = calls + 1]
            /\ ret' = [ret EXCEPT ![s] = "busy"]
      BY <1>2 DEF Send
    <3>4. breach' \subseteq {"concurrent", "after_failure"}
      BY <3>1, <3>2 DEF Types
    <3>5. calls + 1 \in 0..MaxCalls
      BY <2>1
    <3> QED
      BY <3>3, <3>4, <3>5 DEF Types
  <2> QED
    BY <1>0, <1>2, <2>4, <2>5, <2>6, ReadChunkType DEF Types, Send
<1>3. ASSUME NEW s \in Sender, NEW n \in 0..Chunk, Accept(s, n)
      PROVE  Types'
  <2>1. Take(chunk[s], n) \in Seq(Piece)
    BY <1>0, Cut
  <2>2. wire' \in Seq(Piece)
    BY <1>0, <1>3, <2>1 DEF Accept
  <2>3. cq' \in Seq(Sender \X Int)
    <3>1. <<s, IF n = 0 THEN -1 ELSE n>> \in Sender \X Int
      OBVIOUS
    <3> QED
      BY <1>0, <1>3, <3>1, AppendProperties DEF Accept
  <2> QED
    BY <1>3, <2>2, <2>3 DEF Types, Accept
<1>4. ASSUME NEW s \in Sender, Resume(s) PROVE Types'
  <2>1. cq # <<>> /\ cq' = Tail(cq) /\ Head(cq) \in Sender \X Int
    <3>1. cq # <<>> /\ cq' = Tail(cq)
      BY <1>4 DEF Resume, SendFails, SendRest, SendNext, Resumed
    <3> QED
      BY <1>0, <3>1
  <2>2. cq' \in Seq(Sender \X Int)
    BY <1>0, <2>1
  <2>3. CASE SendFails(s)
    BY <2>2, <2>3 DEF SendFails, Return, Types
  <2>4. CASE SendRest(s)
    <3> DEFINE rest == Rest(s, Head(cq)[2])
    <3>1. Head(cq)[2] \in Nat
      BY <2>1, <2>4 DEF SendRest
    <3>2. rest \in Seq(Piece) /\ Len(rest) <= Len(chunk[s])
      BY <1>0, <3>1, Cut DEF Rest
    <3>3. Len(chunk[s]) <= Chunk
      BY DEF Types
    <3>4. Len(rest) <= Chunk
      BY <1>0, <3>2, <3>3
    <3> HIDE DEF rest
    <3>5. chunk' = [chunk EXCEPT ![s] = rest]
      BY <2>4 DEF SendRest, rest
    <3>6. /\ chunk' \in [Sender -> Seq(Piece)]
          /\ \A z \in Sender : Len(chunk'[z]) <= Chunk
      BY <3>2, <3>4, <3>5 DEF Types
    <3> QED
      BY <2>2, <2>4, <3>6 DEF SendRest, Types
  <2>5. CASE SendNext(s)
    <3>1. CASE bio # <<>>
      BY <1>0, <2>2, <2>5, <3>1, ReadChunkType DEF SendNext, Types
    <3>2. CASE bio = <<>>
      <4>1. /\ chunk' = [chunk EXCEPT ![s] = <<>>]
            /\ ret' = [ret EXCEPT ![s] = "ok"]
            /\ op' = [op EXCEPT ![s] = "none"]
            /\ UNCHANGED <<calls, answers, produced, bio, wire, call, breach>>
        BY <2>5, <3>2 DEF SendNext, Return
      <4>2. /\ chunk' \in [Sender -> Seq(Piece)]
            /\ \A z \in Sender : Len(chunk'[z]) <= Chunk
        BY <4>1 DEF Types
      <4> QED
        BY <2>2, <4>1, <4>2 DEF Types
    <3> QED
      BY <3>1, <3>2
  <2> QED
    BY <1>4, <2>3, <2>4, <2>5 DEF Resume
<1>5. CASE UNCHANGED vars
  BY <1>5 DEF vars, Types
<1> QED
  BY <1>1, <1>2, <1>3, <1>4, <1>5 DEF Next

(* The initial state is well typed.                                        *)
LEMMA TypeInit == Init => Types
BY SendAssumption DEF Init, Types

(* TypeOK, for ssl_stream::send and the kernel behind it: pieces stay      *)
(* pieces, and write_buf is never filled beyond its size.                  *)
THEOREM SendTyped == Spec => []TypeOK
<1>1. Types /\ [Next]_vars => Types'
  BY TypeStep
<1> QED
  BY <1>1, TypeInit, TypesAre, PTL DEF Spec

-----------------------------------------------------------------------------
(* Raw sends and their completions.                                        *)

(* A sender has a raw send, and something in its chunk to send, exactly    *)
(* while its call lasts; a completion belongs to one such raw send, and    *)
(* says what it took of the chunk or that it failed.                       *)
QueueInv ==
  /\ \A s \in Sender : op[s] = "none" <=> ret[s] # "busy"
  /\ \A s \in Sender : op[s] = "none" <=> chunk[s] = <<>>
  /\ \A s \in Sender : op[s] = "done" <=> \E i \in DOMAIN cq : cq[i][1] = s
  /\ \A i, j \in DOMAIN cq : i # j => cq[i][1] # cq[j][1]
  /\ \A i \in DOMAIN cq : cq[i][2] = -1 \/ cq[i][2] \in 1..Len(chunk[cq[i][1]])

(* The loop takes the oldest completion.                                   *)
LEMMA Oldest ==
  ASSUME Types, NEW s \in Sender, Resumed(s)
  PROVE  /\ 1 \in DOMAIN cq /\ cq[1] = Head(cq) /\ cq[1][1] = s
         /\ \A i \in DOMAIN cq : cq[i] \in Sender \X Int
         /\ \A i \in DOMAIN cq' : i + 1 \in DOMAIN cq \ {1} /\ cq'[i] = cq[i + 1]
         /\ \A i \in DOMAIN cq \ {1} : i - 1 \in DOMAIN cq' /\ cq'[i - 1] = cq[i]
         /\ DOMAIN cq' \subseteq Int
<1> DEFINE n == Len(cq)
<1>1. cq \in Seq(Sender \X Int) /\ cq # <<>> /\ cq' = Tail(cq) /\ Head(cq)[1] = s
  BY DEF Types, Resumed
<1>2. n \in Nat \ {0} /\ DOMAIN cq = 1..n
  BY <1>1
<1>3. /\ DOMAIN cq' = 1..(n - 1)
      /\ \A i \in 1..(n - 1) : cq'[i] = cq[i + 1]
  BY <1>1, HeadTailProperties
<1>4. cq[1] = Head(cq) /\ \A i \in DOMAIN cq : cq[i] \in Sender \X Int
  BY <1>1
<1> HIDE DEF n
<1>5. \A i \in 2..n : i - 1 \in 1..(n - 1) /\ cq'[i - 1] = cq[i]
  BY <1>2, <1>3
<1> QED
  BY <1>1, <1>2, <1>3, <1>4, <1>5

(* Without the oldest completion of s, the others are as they were.        *)
LEMMA OthersStay ==
  ASSUME Types, QueueInv, NEW s \in Sender, Resumed(s)
  PROVE  /\ \A i \in DOMAIN cq' : cq'[i][1] \in Sender \ {s}
         /\ \A z \in Sender \ {s} :
              (\E i \in DOMAIN cq : cq[i][1] = z) <=>
                (\E i \in DOMAIN cq' : cq'[i][1] = z)
         /\ \A i, j \in DOMAIN cq' : i # j => cq'[i][1] # cq'[j][1]
         /\ \A i \in DOMAIN cq' : cq'[i][2] = -1
              \/ cq'[i][2] \in 1..Len(chunk[cq'[i][1]])
<1>1. /\ 1 \in DOMAIN cq /\ cq[1][1] = s
      /\ \A i \in DOMAIN cq : cq[i] \in Sender \X Int
      /\ \A i \in DOMAIN cq' : i + 1 \in DOMAIN cq \ {1} /\ cq'[i] = cq[i + 1]
      /\ \A i \in DOMAIN cq \ {1} : i - 1 \in DOMAIN cq' /\ cq'[i - 1] = cq[i]
      /\ DOMAIN cq' \subseteq Int
  BY Oldest
<1>2. \A i \in DOMAIN cq' : cq'[i][1] \in Sender \ {s}
  BY <1>1 DEF QueueInv
<1>3. ASSUME NEW z \in Sender \ {s}
      PROVE  (\E i \in DOMAIN cq : cq[i][1] = z) <=>
               (\E i \in DOMAIN cq' : cq'[i][1] = z)
  BY <1>1
<1>4. ASSUME NEW i \in DOMAIN cq', NEW j \in DOMAIN cq', i # j
      PROVE  cq'[i][1] # cq'[j][1]
  <2>1. i + 1 # j + 1
    BY <1>1, <1>4
  <2> QED
    BY <1>1, <2>1 DEF QueueInv
<1>5. \A i \in DOMAIN cq' : cq'[i][2] = -1
        \/ cq'[i][2] \in 1..Len(chunk[cq'[i][1]])
  BY <1>1 DEF QueueInv
<1> QED
  BY <1>2, <1>3, <1>4, <1>5

(* A chunk that is read from some output is not empty.                     *)
LEMMA ChunkNotEmpty ==
  ASSUME Types, NEW s \in Sender, NEW output \in Seq(Piece), output # <<>>,
         ReadChunk(s, output)
  PROVE  /\ chunk'[s] # <<>> /\ op'[s] = "flight"
         /\ \A z \in Sender \ {s} : chunk'[z] = chunk[z] /\ op'[z] = op[z]
         /\ chunk'[s] = Take(output, Chunk) /\ bio' = Drop(output, Chunk)
<1>1. Len(Take(output, Chunk)) > 0
  BY Cut, SendAssumption
<1>2. Take(output, Chunk) # <<>>
  BY <1>1
<1> QED
  BY <1>2 DEF ReadChunk, Types

(* The output of a call is not empty.                                      *)
LEMMA RecordType ==
  ASSUME Types, NEW s \in Sender, NEW n \in 1..MaxPieces, Send(s, n)
  PROVE  LET record == [i \in 1..n |-> <<calls + 1, i>>]
         IN  record \in Seq(Piece) /\ bio \o record # <<>>
<1> DEFINE record == [i \in 1..n |-> <<calls + 1, i>>]
<1>1. calls + 1 \in 1..MaxCalls
  BY SendAssumption DEF Send, Types
<1>2. record \in [1..n -> Piece]
  <2>1. \A i \in 1..n : <<calls + 1, i>> \in Piece
    BY <1>1, SendAssumption DEF Piece
  <2> QED
    BY <2>1
<1>3. DOMAIN record = 1..n /\ n \in Nat \ {0}
  BY SendAssumption
<1> HIDE DEF record
<1>4. record \in Seq(Piece) /\ Len(record) > 0
  BY <1>2, <1>3, SeqDef
<1>5. Len(bio \o record) > 0 /\ bio \o record \in Seq(Piece)
  BY <1>4 DEF Types
<1>6. bio \o record # <<>>
  BY <1>5
<1> QED
  BY <1>4, <1>6 DEF record

(* QueueInv is inductive.                                                  *)
LEMMA QueueStep ==
  ASSUME Types, QueueInv, [Next]_vars PROVE QueueInv'
<1>1. CASE Answer
  BY <1>1 DEF Answer, QueueInv
<1>2. ASSUME NEW s \in Sender, NEW n \in 1..MaxPieces, Send(s, n)
      PROVE  QueueInv'
  <2> DEFINE record == [i \in 1..n |-> <<calls + 1, i>>]
  <2>0. record \in Seq(Piece) /\ bio \o record # <<>>
    BY <1>2, RecordType
  <2> HIDE DEF record
  <2>1. bio \o record \in Seq(Piece)
    BY <2>0 DEF Types
  <2>2. ReadChunk(s, bio \o record)
    BY <1>2 DEF Send, record
  <2>3. /\ chunk'[s] # <<>> /\ op'[s] = "flight"
        /\ \A z \in Sender \ {s} : chunk'[z] = chunk[z] /\ op'[z] = op[z]
    BY <2>0, <2>1, <2>2, ChunkNotEmpty
  <2>4. /\ op[s] = "none" /\ ret'[s] = "busy" /\ cq' = cq
        /\ \A z \in Sender \ {s} : ret'[z] = ret[z]
    BY <1>2 DEF Send, QueueInv, Types
  <2>5. \A i \in DOMAIN cq : cq[i][1] \in Sender \ {s}
    <3>1. \A i \in DOMAIN cq : cq[i] \in Sender \X Int
      BY DEF Types
    <3> QED
      BY <2>4, <3>1 DEF QueueInv
  <2> QED
    BY <2>3, <2>4, <2>5 DEF QueueInv
<1>3. ASSUME NEW s \in Sender, NEW n \in 0..Chunk, Accept(s, n)
      PROVE  QueueInv'
  <2> DEFINE r == IF n = 0 THEN -1 ELSE n
             k == Len(cq) + 1
  <2>1. /\ op[s] = "flight" /\ op'[s] = "done" /\ UNCHANGED <<chunk, ret>>
        /\ \A z \in Sender \ {s} : op'[z] = op[z]
    BY <1>3 DEF Accept, Types
  <2>2. r = -1 \/ r \in 1..Len(chunk[s])
    BY <1>3 DEF Accept
  <2>3. /\ DOMAIN cq' = DOMAIN cq \cup {k} /\ k \notin DOMAIN cq
        /\ cq'[k] = <<s, r>>
        /\ \A i \in DOMAIN cq : cq'[i] = cq[i] /\ cq[i] \in Sender \X Int
    <3>1. cq \in Seq(Sender \X Int) /\ <<s, r>> \in Sender \X Int
      BY DEF Types
    <3>2. cq' = Append(cq, <<s, r>>)
      BY <1>3 DEF Accept
    <3> HIDE DEF r
    <3> QED
      BY <3>1, <3>2
  <2>4. \A i \in DOMAIN cq : cq[i][1] # s
    BY <2>1 DEF QueueInv
  <2> HIDE DEF r, k
  <2>5. \A z \in Sender : op'[z] = "done" <=> \E i \in DOMAIN cq' : cq'[i][1] = z
    <3>1. \E i \in DOMAIN cq' : cq'[i][1] = s
      BY <2>3
    <3>2. ASSUME NEW z \in Sender \ {s}
          PROVE  op'[z] = "done" <=> \E i \in DOMAIN cq' : cq'[i][1] = z
      BY <2>1, <2>3 DEF QueueInv
    <3> QED
      BY <2>1, <3>1, <3>2
  <2>6. \A i, j \in DOMAIN cq' : i # j => cq'[i][1] # cq'[j][1]
    BY <2>3, <2>4 DEF QueueInv
  <2>7. \A i \in DOMAIN cq' : cq'[i][2] = -1
          \/ cq'[i][2] \in 1..Len(chunk'[cq'[i][1]])
    BY <2>1, <2>2, <2>3 DEF QueueInv
  <2>8. \A z \in Sender : /\ op'[z] = "none" <=> ret'[z] # "busy"
                          /\ op'[z] = "none" <=> chunk'[z] = <<>>
    BY <2>1 DEF QueueInv
  <2> QED
    BY <2>5, <2>6, <2>7, <2>8 DEF QueueInv
<1>4. ASSUME NEW s \in Sender, Resumed(s),
             \A z \in Sender \ {s} :
               chunk'[z] = chunk[z] /\ op'[z] = op[z] /\ ret'[z] = ret[z],
             \/ op'[s] = "none" /\ chunk'[s] = <<>> /\ ret'[s] # "busy"
             \/ op'[s] = "flight" /\ chunk'[s] # <<>> /\ ret'[s] = "busy"
      PROVE  QueueInv'
  <2>1. /\ \A i \in DOMAIN cq' : cq'[i][1] \in Sender \ {s}
        /\ \A z \in Sender \ {s} :
             (\E i \in DOMAIN cq : cq[i][1] = z) <=>
               (\E i \in DOMAIN cq' : cq'[i][1] = z)
        /\ \A i, j \in DOMAIN cq' : i # j => cq'[i][1] # cq'[j][1]
        /\ \A i \in DOMAIN cq' : cq'[i][2] = -1
             \/ cq'[i][2] \in 1..Len(chunk[cq'[i][1]])
    BY <1>4, OthersStay
  <2>2. \A z \in Sender : op'[z] = "done" <=> \E i \in DOMAIN cq' : cq'[i][1] = z
    BY <1>4, <2>1 DEF QueueInv
  <2>3. \A i \in DOMAIN cq' : chunk'[cq'[i][1]] = chunk[cq'[i][1]]
    BY <1>4, <2>1
  <2> QED
    BY <1>4, <2>1, <2>2, <2>3 DEF QueueInv
<1>5. ASSUME NEW s \in Sender, Resume(s) PROVE QueueInv'
  <2>0. Resumed(s)
    BY <1>5 DEF Resume, SendFails, SendRest, SendNext
  <2>1. op[s] = "done" /\ ret[s] = "busy"
    BY <2>0, Oldest DEF QueueInv
  <2>2. CASE SendFails(s)
    BY <1>4, <2>0, <2>2 DEF SendFails, Return, Types
  <2>3. CASE SendRest(s)
    BY <1>4, <2>0, <2>1, <2>3 DEF SendRest, Types
  <2>4. CASE SendNext(s)
    <3>1. CASE bio # <<>>
      <4>1. ReadChunk(s, bio) /\ UNCHANGED ret
        BY <2>4, <3>1 DEF SendNext
      <4>2. /\ chunk'[s] # <<>> /\ op'[s] = "flight"
            /\ \A z \in Sender \ {s} : chunk'[z] = chunk[z] /\ op'[z] = op[z]
        BY <3>1, <4>1, ChunkNotEmpty DEF Types
      <4> QED
        BY <1>4, <2>0, <2>1, <4>1, <4>2
    <3>2. CASE bio = <<>>
      BY <1>4, <2>0, <2>4, <3>2 DEF SendNext, Return, Types
    <3> QED
      BY <3>1, <3>2
  <2> QED
    BY <1>5, <2>2, <2>3, <2>4 DEF Resume
<1>6. CASE UNCHANGED vars
  BY <1>6 DEF vars, QueueInv
<1> QED
  BY <1>1, <1>2, <1>3, <1>5, <1>6 DEF Next

(* The initial state.                                                      *)
LEMMA QueueInit == Init => QueueInv
BY DEF Init, QueueInv

-----------------------------------------------------------------------------
(* What is left of a chunk.                                                *)

(* How much of the chunk of s the transport has taken without the sender   *)
(* knowing it, and what the transport has not taken.                       *)
DoneAt(s) == CHOOSE i \in DOMAIN cq : cq[i][1] = s

Gone(s) ==
  IF op[s] = "done" /\ cq[DoneAt(s)][2] > 0 THEN cq[DoneAt(s)][2] ELSE 0

Left(s) == Drop(chunk[s], Gone(s))

(* Gone and Left by the completion of s.                                   *)
LEMMA LeftOfDone ==
  ASSUME Types, QueueInv, NEW i \in DOMAIN cq
  PROVE  LET s == cq[i][1] IN
           /\ s \in Sender
           /\ Gone(s) = IF cq[i][2] > 0 THEN cq[i][2] ELSE 0
           /\ Gone(s) \in 0..Len(chunk[s])
<1> DEFINE s == cq[i][1]
<1>1. cq[i] \in Sender \X Int
  BY DEF Types
<1>2. s \in Sender /\ op[s] = "done"
  BY <1>1 DEF QueueInv
<1>3. DoneAt(s) = i
  BY DEF QueueInv, DoneAt
<1>4. Gone(s) = IF cq[i][2] > 0 THEN cq[i][2] ELSE 0
  BY <1>2, <1>3 DEF Gone
<1>5. cq[i][2] = -1 \/ cq[i][2] \in 1..Len(chunk[s])
  BY DEF QueueInv
<1>6. Len(chunk[s]) \in Nat
  BY <1>2 DEF Types
<1> QED
  BY <1>2, <1>4, <1>5, <1>6

(* The type of what is left.                                               *)
LEMMA LeftType ==
  ASSUME Types, QueueInv, NEW s \in Sender
  PROVE  Gone(s) \in Nat /\ Left(s) \in Seq(Piece)
<1>1. Gone(s) \in Nat
  <2>1. CASE op[s] = "done"
    <3>1. PICK i \in DOMAIN cq : cq[i][1] = s
      BY <2>1 DEF QueueInv
    <3> QED
      BY <3>1, LeftOfDone
  <2>2. CASE op[s] # "done"
    BY <2>2 DEF Gone
  <2> QED
    BY <2>1, <2>2
<1>2. chunk[s] \in Seq(Piece)
  BY DEF Types
<1> QED
  BY <1>1, <1>2, Cut DEF Left

(* The whole chunk is left until the transport has taken some of it.       *)
LEMMA LeftInFlight ==
  ASSUME Types, NEW s \in Sender, op[s] # "done"
  PROVE  Left(s) = chunk[s]
<1>1. chunk[s] \in Seq(Piece) /\ Gone(s) = 0
  BY DEF Types, Gone
<1> QED
  BY <1>1 DEF Left, Drop

(* What is left to a sender whose raw send does not change.                *)
LEMMA LeftStays ==
  ASSUME Types, QueueInv, Types', QueueInv', NEW s \in Sender,
         chunk'[s] = chunk[s], op'[s] = op[s],
         \A i \in DOMAIN cq : cq[i][1] = s => \E j \in DOMAIN cq' : cq'[j] = cq[i]
  PROVE  Left(s)' = Left(s)
<1>1. CASE op[s] # "done"
  BY <1>1 DEF Left, Gone
<1>2. CASE op[s] = "done"
  <2>1. PICK i \in DOMAIN cq : cq[i][1] = s
    BY <1>2 DEF QueueInv
  <2>2. PICK j \in DOMAIN cq' : cq'[j] = cq[i]
    BY <2>1
  <2>3. DoneAt(s) = i
    BY <2>1 DEF QueueInv, DoneAt
  <2>4. DoneAt(s)' = j
    BY <2>1, <2>2 DEF QueueInv, DoneAt
  <2> QED
    <3>1. Gone(s) = IF cq[i][2] > 0 THEN cq[i][2] ELSE 0
      BY <1>2, <2>3 DEF Gone
    <3>2. op'[s] = "done"
      BY <1>2
    <3>3. Gone(s)' = IF cq'[j][2] > 0 THEN cq'[j][2] ELSE 0
      BY <2>4, <3>2 DEF Gone
    <3> QED
      BY <2>2, <3>1, <3>3 DEF Left
<1> QED
  BY <1>1, <1>2

(* What the steps do to what is left.                                      *)
LEMMA LeftAfterAnswer ==
  ASSUME Types, QueueInv, Types', QueueInv', Answer
  PROVE  \A z \in Sender : Left(z)' = Left(z)
BY DEF Answer, Left, Gone, DoneAt

(* ... a call begins with nothing left, and ends up with its first chunk.  *)
LEMMA LeftAfterSend ==
  ASSUME Types, QueueInv, Types', QueueInv', NEW s \in Sender,
         NEW n \in 1..MaxPieces, Send(s, n)
  PROVE  LET record == [i \in 1..n |-> <<calls + 1, i>>] IN
           /\ Left(s) = <<>>
           /\ Left(s)' = Take(bio \o record, Chunk)
           /\ bio' = Drop(bio \o record, Chunk)
           /\ \A z \in Sender \ {s} : Left(z)' = Left(z)
<1> DEFINE record == [i \in 1..n |-> <<calls + 1, i>>]
<1>1. record \in Seq(Piece) /\ bio \o record # <<>>
  BY RecordType
<1> HIDE DEF record
<1>2. bio \o record \in Seq(Piece)
  BY <1>1 DEF Types
<1>3. ReadChunk(s, bio \o record) /\ cq' = cq
  BY DEF Send, record
<1>4. /\ op'[s] = "flight"
      /\ \A z \in Sender \ {s} : chunk'[z] = chunk[z] /\ op'[z] = op[z]
      /\ chunk'[s] = Take(bio \o record, Chunk)
      /\ bio' = Drop(bio \o record, Chunk)
  BY <1>1, <1>2, <1>3, ChunkNotEmpty
<1>5. op[s] = "none" /\ chunk[s] = <<>>
  BY DEF Send, QueueInv
<1>6. Left(s) = <<>>
  BY <1>5, LeftInFlight
<1>7. Left(s)' = chunk'[s]
  <2>1. Gone(s)' = 0
    BY <1>4 DEF Gone
  <2>2. chunk'[s] \in Seq(Piece)
    BY DEF Types
  <2> QED
    BY <2>1, <2>2 DEF Left, Drop
<1>8. ASSUME NEW z \in Sender \ {s} PROVE Left(z)' = Left(z)
  BY <1>3, <1>4 DEF Left, Gone, DoneAt
<1> QED
  BY <1>4, <1>6, <1>7, <1>8 DEF record

(* ... the kernel takes the front of what is left.                         *)
LEMMA LeftAfterAccept ==
  ASSUME Types, QueueInv, Types', QueueInv', NEW s \in Sender,
         NEW n \in 0..Chunk, Accept(s, n)
  PROVE  /\ Left(s) = chunk[s]
         /\ Left(s)' = Drop(chunk[s], n)
         /\ \A z \in Sender \ {s} : Left(z)' = Left(z)
<1> DEFINE r == IF n = 0 THEN -1 ELSE n
           k == Len(cq) + 1
<1>1. /\ op[s] = "flight" /\ chunk' = chunk /\ n \in Nat
      /\ \A z \in Sender \ {s} : op'[z] = op[z]
  BY SendAssumption DEF Accept, Types
<1>2. /\ \A i \in DOMAIN cq : i \in DOMAIN cq' /\ cq'[i] = cq[i]
      /\ k \in DOMAIN cq' /\ cq'[k] = <<s, r>>
  <2>1. cq \in Seq(Sender \X Int) /\ <<s, r>> \in Sender \X Int
    BY SendAssumption DEF Types
  <2>2. cq' = Append(cq, <<s, r>>)
    BY DEF Accept
  <2> HIDE DEF r
  <2> QED
    BY <2>1, <2>2
<1>3. Left(s) = chunk[s]
  BY <1>1, LeftInFlight
<1>4. Gone(s)' = n
  <2>1. op'[s] = "done"
    BY DEF Accept, Types
  <2>2. DoneAt(s)' = k
    BY <1>2 DEF QueueInv, DoneAt
  <2>3. cq'[k][2] = r
    BY <1>2
  <2>4. (IF r > 0 THEN r ELSE 0) = n
    BY <1>1
  <2> HIDE DEF k, r
  <2> QED
    <3>1. Gone(s)' = IF cq'[k][2] > 0 THEN cq'[k][2] ELSE 0
      BY <2>1, <2>2 DEF Gone
    <3> QED
      BY <2>3, <2>4, <3>1
<1>5. ASSUME NEW z \in Sender \ {s} PROVE Left(z)' = Left(z)
  BY <1>1, <1>2, LeftStays
<1> QED
  BY <1>1, <1>3, <1>4, <1>5 DEF Left

(* A resumed sender knows what the transport has taken.                    *)
LEMMA LeftAtResume ==
  ASSUME Types, QueueInv, Types', QueueInv', NEW s \in Sender, Resumed(s),
         \A z \in Sender \ {s} : chunk'[z] = chunk[z] /\ op'[z] = op[z],
         op'[s] # "done"
  PROVE  /\ Head(cq)[2] \in Int
         /\ Head(cq)[2] > 0 => Left(s) = Rest(s, Head(cq)[2])
         /\ Head(cq)[2] <= 0 => Left(s) = chunk[s]
         /\ Left(s)' = chunk'[s]
         /\ \A z \in Sender \ {s} : Left(z)' = Left(z)
<1>1. /\ 1 \in DOMAIN cq /\ cq[1] = Head(cq) /\ cq[1][1] = s
      /\ \A i \in DOMAIN cq : cq[i] \in Sender \X Int
      /\ \A i \in DOMAIN cq \ {1} : i - 1 \in DOMAIN cq' /\ cq'[i - 1] = cq[i]
  BY Oldest
<1>2. Head(cq)[2] \in Int
  BY <1>1
<1>3. Gone(s) = IF Head(cq)[2] > 0 THEN Head(cq)[2] ELSE 0
  BY <1>1, LeftOfDone
<1>4. Head(cq)[2] > 0 => Left(s) = Rest(s, Head(cq)[2])
  BY <1>2, <1>3 DEF Left, Rest
<1>5. Head(cq)[2] <= 0 => Left(s) = chunk[s]
  <2>1. chunk[s] \in Seq(Piece)
    BY DEF Types
  <2> QED
    BY <1>2, <1>3, <2>1 DEF Left, Drop
<1>6. Left(s)' = chunk'[s]
  <2>1. Gone(s)' = 0
    BY DEF Gone
  <2>2. chunk'[s] \in Seq(Piece)
    BY DEF Types
  <2> QED
    BY <2>1, <2>2 DEF Left, Drop
<1>7. ASSUME NEW z \in Sender \ {s} PROVE Left(z)' = Left(z)
  <2>1. ASSUME NEW i \in DOMAIN cq, cq[i][1] = z
        PROVE  \E j \in DOMAIN cq' : cq'[j] = cq[i]
    BY <1>1, <2>1
  <2> QED
    BY <2>1, LeftStays
<1> QED
  BY <1>2, <1>4, <1>5, <1>6, <1>7

-----------------------------------------------------------------------------
(* The order of the ciphertext, for callers that keep the rules.           *)

(* A sequence begins with the front of a concatenation.                    *)
LEMMA FrontIsPrefix ==
  ASSUME NEW S, NEW s \in Seq(S), NEW t \in Seq(S)
  PROVE  IsPrefix(s, s \o t)
<1>1. Len(s) <= Len(s \o t)
  OBVIOUS
<1>2. SubSeq(s, 1, Len(s)) = SubSeq(s \o t, 1, Len(s))
  <2>1. /\ SubSeq(s, 1, Len(s)) \in Seq(S)
        /\ Len(SubSeq(s, 1, Len(s))) = Len(s)
        /\ \A i \in 1..Len(s) : SubSeq(s, 1, Len(s))[i] = s[i]
    OBVIOUS
  <2>2. /\ SubSeq(s \o t, 1, Len(s)) \in Seq(S)
        /\ Len(SubSeq(s \o t, 1, Len(s))) = Len(s)
        /\ \A i \in 1..Len(s) : SubSeq(s \o t, 1, Len(s))[i] = s[i]
    OBVIOUS
  <2> QED
    BY <2>1, <2>2, SeqEqual
<1> QED
  BY <1>1, <1>2 DEF IsPrefix

(* What grows at its end keeps its prefixes.                               *)
LEMMA PrefixOfLonger ==
  ASSUME NEW S, NEW s \in Seq(S), NEW t \in Seq(S), NEW u \in Seq(S),
         IsPrefix(s, t)
  PROVE  IsPrefix(s, t \o u)
<1>1. Len(s) <= Len(t) /\ SubSeq(s, 1, Len(s)) = SubSeq(t, 1, Len(s))
  BY DEF IsPrefix
<1>2. SubSeq(t \o u, 1, Len(s)) = SubSeq(t, 1, Len(s))
  <2> DEFINE n == Len(s)
             x == SubSeq(t, 1, n)
             y == SubSeq(t \o u, 1, n)
  <2>0. n \in Nat /\ n <= Len(t)
    BY <1>1
  <2> HIDE DEF n
  <2>1. x \in Seq(S) /\ Len(x) = n /\ \A i \in 1..n : x[i] = t[i]
    BY <2>0
  <2>2. y \in Seq(S) /\ Len(y) = n /\ \A i \in 1..n : y[i] = t[i]
    BY <2>0
  <2> HIDE DEF x, y
  <2>3. y = x
    BY <2>1, <2>2, SeqEqual
  <2> QED
    BY <2>3 DEF n, x, y
<1>3. Len(s) <= Len(t \o u)
  BY <1>1
<1> QED
  BY <1>1, <1>2, <1>3 DEF IsPrefix

(* Concatenation of pieces is associative.                                 *)
LEMMA Assoc ==
  \A a, b, c \in Seq(Piece) : (a \o b) \o c = a \o (b \o c)
BY ConcatAssociative

(* Cut, for pieces.                                                        *)
LEMMA CutPieces ==
  \A s \in Seq(Piece), n \in Nat :
    /\ Take(s, n) \in Seq(Piece) /\ Drop(s, n) \in Seq(Piece)
    /\ Take(s, n) \o Drop(s, n) = s
BY Cut

(* Every sender is without a call, or has had success.                     *)
Idle == \A s \in Sender : ret[s] \notin {"busy", "failed"}

(* One call at a time.  What has been produced is on the wire, left of the *)
(* chunk of the caller or in the BIO, in this order, as long as no send    *)
(* has failed.                                                             *)
OrderCore ==
  /\ \A s, z \in Sender : ret[s] = "busy" /\ ret[z] \in {"busy", "failed"} => s = z
  /\ Idle => produced = wire \o bio
  /\ \A s \in Sender : ret[s] = "busy" => produced = wire \o (Left(s) \o bio)
  /\ IsPrefix(wire, produced)

OrderInv == breach = {} => OrderCore

(* breach only grows.                                                      *)
LEMMA BreachStays ==
  ASSUME [Next]_vars, breach' = {} PROVE breach = {}
BY DEF Next, vars, Answer, Send, Accept, Resume, SendFails, SendRest, SendNext

(* A call of send.                                                         *)
LEMMA SendOrder ==
  ASSUME Types, QueueInv, Types', QueueInv', OrderCore, breach' = {},
         NEW s \in Sender, NEW n \in 1..MaxPieces, Send(s, n)
  PROVE  OrderCore'
<1> DEFINE record == [i \in 1..n |-> <<calls + 1, i>>]
<1>1. record \in Seq(Piece)
  BY RecordType
<1>2. CallBreach(s) = {}
  BY DEF Send
<1>3. \A z \in Sender \ {s} : ret[z] # "busy"
  BY <1>2 DEF CallBreach
<1>4. \A z \in Sender : ret[z] # "failed"
  BY <1>2 DEF CallBreach
<1>5. ret[s] # "busy" /\ wire' = wire /\ produced' = produced \o record
  BY DEF Send
<1>6. /\ Left(s)' = Take(bio \o record, Chunk)
      /\ bio' = Drop(bio \o record, Chunk)
  BY LeftAfterSend
<1> HIDE DEF record
<1>7. /\ wire \in Seq(Piece) /\ bio \in Seq(Piece) /\ bio \o record \in Seq(Piece)
  BY <1>1 DEF Types
<1>8. produced = wire \o bio
  BY <1>3, <1>4, <1>5 DEF OrderCore, Idle
<1>9. produced' = wire' \o (Left(s)' \o bio')
  <2>1. Left(s)' \o bio' = bio \o record
    BY <1>6, <1>7, CutPieces, SendAssumption
  <2>2. (wire \o bio) \o record = wire \o (bio \o record)
    BY <1>1, <1>7, Assoc
  <2> QED
    BY <1>5, <1>8, <2>1, <2>2
<1>10. \A z \in Sender : ret'[z] = IF z = s THEN "busy" ELSE ret[z]
  BY DEF Send, Types
<1>11. IsPrefix(wire', produced')
  <2>1. Left(s)' \o bio' \in Seq(Piece)
    BY <1>6, <1>7, CutPieces, SendAssumption
  <2> QED
    BY <1>5, <1>7, <1>9, <2>1, FrontIsPrefix
<1>12. ~Idle'
  BY <1>10 DEF Idle
<1> QED
  BY <1>3, <1>4, <1>9, <1>10, <1>11, <1>12 DEF OrderCore

(* An answer goes behind everything else.                                  *)
LEMMA AnswerOrder ==
  ASSUME Types, QueueInv, Types', QueueInv', OrderCore, Answer
  PROVE  OrderCore'
<1> DEFINE a == <<<<0, answers + 1>>>>
<1>1. a \in Seq(Piece)
  <2> DEFINE p == <<0, answers + 1>>
  <2>1. p \in Piece
    BY SendAssumption DEF Answer, Types, Piece
  <2> HIDE DEF p
  <2>2. <<p>> \in Seq(Piece)
    BY <2>1
  <2> QED
    BY <2>2 DEF p
<1>2. /\ wire \in Seq(Piece) /\ bio \in Seq(Piece) /\ produced \in Seq(Piece)
      /\ \A s \in Sender : Left(s) \in Seq(Piece)
  BY LeftType DEF Types
<1>3. produced' = produced \o a /\ bio' = bio \o a
  <2> DEFINE p == <<0, answers + 1>>
  <2>1. produced' = Append(produced, p) /\ bio' = Append(bio, p)
    BY DEF Answer
  <2>2. p \in Piece
    BY SendAssumption DEF Answer, Types, Piece
  <2> HIDE DEF p
  <2>3. \A x \in Seq(Piece) : Append(x, p) = x \o <<p>>
    BY <2>2
  <2> QED
    BY <1>2, <2>1, <2>3 DEF p
<1> HIDE DEF a
<1>4. UNCHANGED <<wire, ret>> /\ \A s \in Sender : Left(s)' = Left(s)
  BY LeftAfterAnswer DEF Answer
<1>5. Idle' => produced' = wire' \o bio'
  <2>1. (wire \o bio) \o a = wire \o (bio \o a)
    BY <1>1, <1>2, Assoc
  <2> QED
    BY <1>3, <1>4, <2>1 DEF OrderCore, Idle
<1>6. ASSUME NEW s \in Sender, ret'[s] = "busy"
      PROVE  produced' = wire' \o (Left(s)' \o bio')
  <2>1. produced = wire \o (Left(s) \o bio)
    BY <1>4, <1>6 DEF OrderCore
  <2>2. (wire \o (Left(s) \o bio)) \o a = wire \o ((Left(s) \o bio) \o a)
    <3> DEFINE behind == Left(s) \o bio
    <3>1. behind \in Seq(Piece) /\ wire \in Seq(Piece)
      BY <1>2
    <3> HIDE DEF behind
    <3>2. (wire \o behind) \o a = wire \o (behind \o a)
      BY <1>1, <3>1, Assoc
    <3> QED
      BY <3>2 DEF behind
  <2>3. (Left(s) \o bio) \o a = Left(s) \o (bio \o a)
    BY <1>1, <1>2, Assoc
  <2> QED
    BY <1>3, <1>4, <2>1, <2>2, <2>3
<1>7. IsPrefix(wire', produced')
  BY <1>1, <1>2, <1>3, <1>4, PrefixOfLonger DEF OrderCore
<1> QED
  BY <1>4, <1>5, <1>6, <1>7 DEF OrderCore

(* The kernel moves the front of what is left to the end of the wire.      *)
LEMMA AcceptOrder ==
  ASSUME Types, QueueInv, Types', QueueInv', OrderCore,
         NEW s \in Sender, NEW n \in 0..Chunk, Accept(s, n)
  PROVE  OrderCore'
<1> DEFINE front == Take(chunk[s], n)
           rest == Drop(chunk[s], n)
<1>1. /\ Left(s) = chunk[s] /\ Left(s)' = rest
      /\ UNCHANGED <<produced, bio, ret>> /\ wire' = wire \o front
      /\ op[s] = "flight"
  BY LeftAfterAccept DEF Accept
<1>2. /\ front \in Seq(Piece) /\ rest \in Seq(Piece)
      /\ front \o rest = chunk[s]
      /\ wire \in Seq(Piece) /\ bio \in Seq(Piece)
  <2>1. chunk[s] \in Seq(Piece) /\ n \in Nat
    BY SendAssumption DEF Types
  <2> QED
    BY <2>1, CutPieces DEF Types
<1> HIDE DEF front, rest
<1>3. ret[s] = "busy"
  BY <1>1 DEF QueueInv
<1>4. produced = (wire \o front) \o (rest \o bio)
  <2>1. produced = wire \o ((front \o rest) \o bio)
    BY <1>1, <1>2, <1>3 DEF OrderCore
  <2>2. (front \o rest) \o bio = front \o (rest \o bio)
    BY <1>2, Assoc
  <2>3. rest \o bio \in Seq(Piece)
    BY <1>2
  <2>4. wire \o (front \o (rest \o bio)) = (wire \o front) \o (rest \o bio)
    BY <1>2, <2>3, Assoc
  <2> QED
    BY <2>1, <2>2, <2>4
<1>5. IsPrefix(wire', produced')
  <2>1. wire \o front \in Seq(Piece) /\ rest \o bio \in Seq(Piece)
    BY <1>2
  <2> QED
    BY <1>1, <1>4, <2>1, FrontIsPrefix
<1>6. ~Idle'
  BY <1>1, <1>3 DEF Idle
<1>7. \A z \in Sender : ret[z] = "busy" => z = s
  BY <1>3 DEF OrderCore
<1> QED
  BY <1>1, <1>4, <1>5, <1>6, <1>7 DEF OrderCore

(* A sender takes its completion up.                                       *)
LEMMA ResumeOrder ==
  ASSUME Types, QueueInv, Types', QueueInv', OrderCore,
         NEW s \in Sender, Resume(s)
  PROVE  OrderCore'
<1>0. Resumed(s) /\ wire' = wire /\ produced' = produced
  BY DEF Resume, SendFails, SendRest, SendNext
<1>1. ret[s] = "busy"
  BY <1>0, Oldest DEF QueueInv
<1>2. \A z \in Sender \ {s} : ret[z] \notin {"busy", "failed"}
  BY <1>1 DEF OrderCore
<1>3. produced = wire \o (Left(s) \o bio)
  BY <1>1 DEF OrderCore
<1>4. wire \in Seq(Piece) /\ bio \in Seq(Piece)
  BY DEF Types
<1>5. CASE SendFails(s)
  <2>1. \A z \in Sender : ret'[z] = IF z = s THEN "failed" ELSE ret[z]
    BY <1>5 DEF SendFails, Return, Types
  <2>2. ~Idle'
    BY <2>1 DEF Idle
  <2> QED
    BY <1>0, <1>2, <2>1, <2>2 DEF OrderCore
<1>6. CASE SendRest(s)
  <2>1. /\ \A z \in Sender \ {s} : chunk'[z] = chunk[z] /\ op'[z] = op[z]
        /\ op'[s] = "flight" /\ chunk'[s] = Rest(s, Head(cq)[2])
        /\ UNCHANGED <<ret, bio>> /\ Head(cq)[2] > 0
    BY <1>6 DEF SendRest, Types
  <2>2. Left(s)' = Left(s)
    BY <1>0, <2>1, LeftAtResume
  <2> QED
    BY <1>0, <1>1, <1>2, <1>3, <2>1, <2>2 DEF OrderCore, Idle
<1>7. CASE SendNext(s)
  <2>1. Head(cq)[2] > 0 /\ Rest(s, Head(cq)[2]) = <<>>
    BY <1>7 DEF SendNext
  <2>2. CASE bio # <<>>
    <3>1. ReadChunk(s, bio) /\ UNCHANGED ret
      BY <1>7, <2>2 DEF SendNext
    <3>2. /\ op'[s] = "flight"
          /\ \A z \in Sender \ {s} : chunk'[z] = chunk[z] /\ op'[z] = op[z]
          /\ chunk'[s] = Take(bio, Chunk) /\ bio' = Drop(bio, Chunk)
      BY <1>4, <2>2, <3>1, ChunkNotEmpty
    <3>3. Left(s) = <<>> /\ Left(s)' = chunk'[s]
      BY <1>0, <2>1, <3>2, LeftAtResume
    <3>4. Left(s)' \o bio' = Left(s) \o bio
      <4>1. Take(bio, Chunk) \o Drop(bio, Chunk) = bio
        BY <1>4, CutPieces, SendAssumption
      <4>2. <<>> \o bio = bio
        BY <1>4, ConcatEmptySeq
      <4> QED
        BY <3>2, <3>3, <4>1, <4>2
    <3> QED
      BY <1>0, <1>1, <1>2, <1>3, <3>1, <3>4 DEF OrderCore, Idle
  <2>3. CASE bio = <<>>
    <3>1. /\ Return(s, "ok") /\ UNCHANGED bio
      BY <1>7, <2>3 DEF SendNext
    <3>2. /\ op'[s] = "none"
          /\ \A z \in Sender \ {s} : chunk'[z] = chunk[z] /\ op'[z] = op[z]
          /\ \A z \in Sender : ret'[z] = IF z = s THEN "ok" ELSE ret[z]
      BY <3>1 DEF Return, Types
    <3>3. Left(s) = <<>>
      BY <1>0, <2>1, <3>2, LeftAtResume
    <3>4. produced = wire \o bio
      BY <1>3, <1>4, <2>3, <3>3
    <3> QED
      BY <1>0, <1>2, <3>1, <3>2, <3>4 DEF OrderCore, Idle
  <2> QED
    BY <2>2, <2>3
<1> QED
  BY <1>5, <1>6, <1>7 DEF Resume

(* OrderInv is inductive.                                                  *)
LEMMA OrderStep ==
  ASSUME Types, QueueInv, Types', QueueInv', OrderInv, [Next]_vars
  PROVE  OrderInv'
<1> SUFFICES ASSUME breach' = {} PROVE OrderCore'
  BY DEF OrderInv
<1>1. OrderCore
  BY BreachStays DEF OrderInv
<1>2. CASE UNCHANGED vars
  <2>1. UNCHANGED <<produced, wire, bio, ret>>
    BY <1>2 DEF vars
  <2>2. \A s \in Sender : Left(s)' = Left(s)
    BY <1>2 DEF vars, Left, Gone, DoneAt
  <2> QED
    BY <1>1, <2>1, <2>2 DEF OrderCore, Idle
<1>3. CASE Next
  BY <1>1, <1>3, SendOrder, AnswerOrder, AcceptOrder, ResumeOrder DEF Next
<1> QED
  BY <1>2, <1>3

(* The initial state.                                                      *)
LEMMA OrderInit == Init => OrderInv
<1> SUFFICES ASSUME Init PROVE OrderCore
  BY DEF OrderInv
<1>1. /\ produced = <<>> /\ wire = <<>> /\ bio = <<>>
      /\ \A s \in Sender : ret[s] = "none"
  BY DEF Init
<1>2. <<>> \in Seq(Piece) /\ <<>> \o <<>> = <<>>
  BY ConcatEmptySeq, EmptySeq
<1>3. IsPrefix(wire, produced)
  BY <1>1, <1>2, FrontIsPrefix
<1> QED
  BY <1>1, <1>2, <1>3 DEF OrderCore, Idle

(* The three invariants hold together.                                     *)
LEMMA OrderAlways == Spec => [](Types /\ QueueInv /\ OrderInv)
<1>1. Init => Types /\ QueueInv /\ OrderInv
  BY TypeInit, QueueInit, OrderInit
<1>2. Types /\ QueueInv /\ OrderInv /\ [Next]_vars
        => (Types /\ QueueInv /\ OrderInv)'
  BY TypeStep, QueueStep, OrderStep
<1> QED
  BY <1>1, <1>2, PTL DEF Spec

(* WireIsPrefix, for the loops of ssl_stream::send: with one call at a     *)
(* time and none after a failure, what the transport has accepted is a     *)
(* prefix of the ciphertext.                                               *)
THEOREM SendsInOrder == Spec => []WireIsPrefix
<1>1. OrderInv => WireIsPrefix
  BY DEF OrderInv, OrderCore, WireIsPrefix
<1> QED
  BY <1>1, OrderAlways, PTL

-----------------------------------------------------------------------------
(* What a successful call has sent.                                        *)

(* What has been produced stays, and grows by answers or by the ciphertext *)
(* of a new call.                                                          *)
LEMMA ProducedGrows ==
  ASSUME Types, [Next]_vars
  PROVE  /\ calls' \in {calls, calls + 1}
         /\ \A k \in DOMAIN produced' :
              \/ k \in DOMAIN produced /\ produced'[k] = produced[k]
              \/ calls' = calls /\ produced'[k][1] = 0
              \/ calls' = calls + 1 /\ produced'[k][1] = calls'
<1>0. produced \in Seq(Piece) /\ calls \in Nat
  BY SendAssumption DEF Types
<1>1. CASE Answer
  <2> DEFINE p == <<0, answers + 1>>
  <2>1. p \in Piece
    BY <1>1, SendAssumption DEF Answer, Types, Piece
  <2>2. produced' = Append(produced, p) /\ calls' = calls /\ p[1] = 0
    BY <1>1 DEF Answer
  <2> HIDE DEF p
  <2> QED
    BY <1>0, <2>1, <2>2
<1>2. ASSUME NEW s \in Sender, NEW n \in 1..MaxPieces, Send(s, n)
      PROVE  /\ calls' = calls + 1
             /\ \A k \in DOMAIN produced' :
                  \/ k \in DOMAIN produced /\ produced'[k] = produced[k]
                  \/ produced'[k][1] = calls'
  <2> DEFINE record == [i \in 1..n |-> <<calls + 1, i>>]
  <2>1. record \in Seq(Piece)
    BY <1>2, RecordType
  <2>2. produced' = produced \o record /\ calls' = calls + 1
    BY <1>2 DEF Send
  <2>3. \A i \in DOMAIN record : record[i][1] = calls + 1
    OBVIOUS
  <2> HIDE DEF record
  <2>4. ASSUME NEW k \in DOMAIN produced', k \notin DOMAIN produced
        PROVE  k - Len(produced) \in DOMAIN record
                 /\ produced'[k] = record[k - Len(produced)]
    BY <1>0, <2>1, <2>2, <2>4
  <2>5. \A k \in DOMAIN produced : produced'[k] = produced[k]
    BY <1>0, <2>1, <2>2
  <2> QED
    BY <2>2, <2>3, <2>4, <2>5
<1>3. CASE UNCHANGED <<calls, produced>>
  BY <1>3
<1> QED
  BY <1>1, <1>2, <1>3
     DEF Next, vars, Accept, Resume, SendFails, SendRest, SendNext

(* The calls are numbered, and no ciphertext is of a call to come.  What   *)
(* the last call of a sender has produced is on the wire if it succeeded.  *)
SentInv ==
  /\ \A s \in Sender : ret[s] # "none" => call[s] \in 1..calls
  /\ \A k \in DOMAIN produced : produced[k][1] <= calls
  /\ breach = {} =>
       \A s \in Sender : ret[s] = "ok" =>
         \A k \in DOMAIN produced : produced[k][1] = call[s] => k <= Len(wire)

(* A call that returns success leaves nothing behind.                      *)
LEMMA SuccessEmpties ==
  ASSUME Types, QueueInv, OrderInv, [Next]_vars, breach' = {},
         NEW s \in Sender, ret'[s] = "ok", ret[s] # "ok"
  PROVE  produced' = wire'
<1>1. SendNext(s) /\ bio = <<>>
  BY DEF Next, vars, Answer, Send, Accept, Resume, SendFails, SendRest,
         SendNext, Return, Types
<1>2. /\ Resumed(s) /\ Head(cq)[2] > 0 /\ Rest(s, Head(cq)[2]) = <<>>
      /\ UNCHANGED <<produced, wire>>
  BY <1>1 DEF SendNext
<1>3. ret[s] = "busy"
  BY <1>2, Oldest DEF QueueInv
<1>4. Left(s) = <<>>
  <2>1. /\ 1 \in DOMAIN cq /\ cq[1] = Head(cq) /\ cq[1][1] = s
    BY <1>2, Oldest
  <2>2. Gone(s) = Head(cq)[2]
    BY <1>2, <2>1, LeftOfDone
  <2> QED
    BY <1>2, <2>2 DEF Left, Rest
<1>5. produced = wire \o (Left(s) \o bio)
  BY <1>3, BreachStays DEF OrderInv, OrderCore
<1>6. <<>> \o <<>> = <<>> /\ wire \o <<>> = wire
  BY ConcatEmptySeq DEF Types
<1> QED
  BY <1>1, <1>2, <1>4, <1>5, <1>6

(* SentInv is inductive.                                                   *)
LEMMA SentStep ==
  ASSUME Types, QueueInv, OrderInv, SentInv, Types', [Next]_vars
  PROVE  SentInv'
<1>0. /\ calls \in Nat /\ calls' \in {calls, calls + 1}
      /\ \A k \in DOMAIN produced' :
           \/ k \in DOMAIN produced /\ produced'[k] = produced[k]
           \/ calls' = calls /\ produced'[k][1] = 0
           \/ calls' = calls + 1 /\ produced'[k][1] = calls'
  BY ProducedGrows, SendAssumption DEF Types
<1>1. \A s \in Sender :
        \/ call'[s] = calls' /\ calls' = calls + 1 /\ ret'[s] = "busy"
        \/ call'[s] = call[s] /\ (ret'[s] = ret[s] \/ ret[s] = "busy")
  <2>1. ASSUME NEW s \in Sender, NEW n \in 1..MaxPieces, Send(s, n)
        PROVE  \A z \in Sender :
                 \/ call'[z] = calls' /\ calls' = calls + 1 /\ ret'[z] = "busy"
                 \/ call'[z] = call[z] /\ ret'[z] = ret[z]
    BY <2>1 DEF Send, Types
  <2>2. ASSUME NEW s \in Sender, Resume(s)
        PROVE  /\ call' = call
               /\ \A z \in Sender : ret'[z] = ret[z] \/ ret[z] = "busy"
    <3>1. Resumed(s) /\ call' = call
      BY <2>2 DEF Resume, SendFails, SendRest, SendNext
    <3>2. ret[s] = "busy"
      BY <3>1, Oldest DEF QueueInv
    <3>3. \A z \in Sender \ {s} : ret'[z] = ret[z]
      <4>1. \/ ret' = ret
            \/ ret' = [ret EXCEPT ![s] = "ok"]
            \/ ret' = [ret EXCEPT ![s] = "failed"]
        BY <2>2 DEF Resume, SendFails, SendRest, SendNext, Return
      <4> QED
        BY <4>1 DEF Types
    <3> QED
      BY <3>1, <3>2, <3>3
  <2>3. CASE UNCHANGED <<call, ret>>
    BY <2>3
  <2> QED
    BY <2>1, <2>2, <2>3 DEF Next, vars, Answer, Accept
<1>2. \A s \in Sender : ret'[s] # "none" => call'[s] \in 1..calls'
  <2>1. \A s \in Sender : call[s] \in Nat
    BY SendAssumption DEF Types
  <2> QED
    BY <1>0, <1>1, <2>1 DEF SentInv
<1>3. \A k \in DOMAIN produced' : produced'[k][1] <= calls'
  <2>1. \A k \in DOMAIN produced : produced[k][1] \in Nat
    <3>1. \A k \in DOMAIN produced : produced[k] \in Piece
      BY DEF Types
    <3>2. \A p \in Piece : p[1] \in Nat
      BY DEF Piece
    <3> QED
      BY <3>1, <3>2
  <2> QED
    BY <1>0, <2>1 DEF SentInv
<1>4. ASSUME breach' = {}, NEW s \in Sender, ret'[s] = "ok",
             NEW k \in DOMAIN produced', produced'[k][1] = call'[s]
      PROVE  k <= Len(wire')
  <2>1. CASE ret[s] = "ok"
    <3>1. call'[s] = call[s] /\ call[s] \in 1..calls
      BY <1>1, <1>4, <2>1 DEF SentInv
    <3>2. k \in DOMAIN produced /\ produced[k][1] = call[s]
      BY <1>0, <1>4, <3>1
    <3>3. k <= Len(wire)
      BY <1>4, <2>1, <3>2, BreachStays DEF SentInv
    <3>4. Len(wire) \in Nat /\ Len(wire') \in Nat /\ k \in Nat
      BY <3>2 DEF Types
    <3>5. Len(wire) <= Len(wire')
      <4>1. ASSUME NEW z \in Sender, NEW n \in 0..Chunk, Accept(z, n)
            PROVE  Len(wire) <= Len(wire')
        <5>1. chunk[z] \in Seq(Piece) /\ n \in Nat /\ wire \in Seq(Piece)
          BY SendAssumption DEF Types
        <5>2. Take(chunk[z], n) \in Seq(Piece)
          BY <5>1, CutPieces
        <5> QED
          BY <4>1, <5>1, <5>2 DEF Accept
      <4>2. CASE UNCHANGED wire
        BY <3>4, <4>2
      <4> QED
        BY <4>1, <4>2
           DEF Next, vars, Answer, Send, Resume, SendFails, SendRest, SendNext
    <3> QED
      BY <3>3, <3>4, <3>5
  <2>2. CASE ret[s] # "ok"
    <3>1. produced' = wire' /\ wire' \in Seq(Piece)
      BY <1>4, <2>2, SuccessEmpties DEF Types
    <3> QED
      BY <1>4, <3>1
  <2> QED
    BY <2>1, <2>2
<1> QED
  BY <1>2, <1>3, <1>4 DEF SentInv

(* The initial state.                                                      *)
LEMMA SentInit == Init => SentInv
BY DEF Init, SentInv

(* A prefix agrees with the whole.                                         *)
LEMMA PrefixElements ==
  ASSUME NEW S, NEW s \in Seq(S), NEW t \in Seq(S), IsPrefix(s, t)
  PROVE  \A i \in 1..Len(s) : s[i] = t[i]
<1> DEFINE n == Len(s)
           x == SubSeq(s, 1, n)
           y == SubSeq(t, 1, n)
<1>1. n \in Nat /\ n <= Len(t) /\ x = y
  BY DEF IsPrefix
<1>2. \A i \in 1..n : x[i] = s[i]
  OBVIOUS
<1>3. \A i \in 1..n : y[i] = t[i]
  BY <1>1
<1> HIDE DEF x, y
<1> QED
  BY <1>1, <1>2, <1>3

(* SuccessMeansSent, for ssl_stream::send: a call that returns success has *)
(* handed its ciphertext to the transport, and all that was waiting in the *)
(* BIO before it.                                                          *)
THEOREM SuccessIsSent == Spec => []SuccessMeansSent
<1> DEFINE I == Types /\ QueueInv /\ OrderInv
<1>1. ASSUME I, SentInv PROVE SuccessMeansSent
  <2> SUFFICES ASSUME breach = {}, NEW s \in Sender, ret[s] = "ok",
                      NEW i \in DOMAIN produced, NEW k \in DOMAIN produced,
                      i <= k, produced[k][1] = call[s]
               PROVE  \E j \in DOMAIN wire : wire[j] = produced[i]
    BY DEF SuccessMeansSent
  <2>1. wire \in Seq(Piece) /\ produced \in Seq(Piece) /\ IsPrefix(wire, produced)
    BY <1>1 DEF Types, OrderInv, OrderCore
  <2>2. k <= Len(wire)
    BY <1>1 DEF SentInv
  <2>3. i \in DOMAIN wire
    BY <2>1, <2>2
  <2>4. wire[i] = produced[i]
    BY <2>1, <2>3, PrefixElements
  <2> QED
    BY <2>3, <2>4
<1>2. I /\ SentInv /\ I' /\ [Next]_vars => SentInv'
  BY SentStep
<1>3. Spec => []I
  BY OrderAlways
<1> HIDE DEF I
<1> QED
  BY <1>1, <1>2, <1>3, SentInit, PTL DEF Spec

-----------------------------------------------------------------------------
(* Where the ciphertext is, whatever the callers do.                       *)

(* Take and Drop part the pieces of a sequence.                            *)
LEMMA CutParts ==
  ASSUME NEW s \in Seq(Piece), NEW n \in Nat
  PROVE  /\ ToSet(s) = ToSet(Take(s, n)) \cup ToSet(Drop(s, n))
         /\ Distinct(s) => /\ Distinct(Take(s, n)) /\ Distinct(Drop(s, n))
                           /\ ToSet(Take(s, n)) \cap ToSet(Drop(s, n)) = {}
<1> DEFINE a == Take(s, n)
           b == Drop(s, n)
<1>1. a \in Seq(Piece) /\ b \in Seq(Piece) /\ a \o b = s
  BY CutPieces
<1> HIDE DEF a, b
<1>2. /\ ToSet(a \o b) = ToSet(a) \cup ToSet(b)
      /\ Distinct(a \o b) =>
           Distinct(a) /\ Distinct(b) /\ ToSet(a) \cap ToSet(b) = {}
  BY <1>1, ConcatParts
<1> QED
  BY <1>1, <1>2 DEF a, b

(* No sequence without pieces has repetitions.                             *)
LEMMA EmptyParts == ToSet(<<>>) = {} /\ Distinct(<<>>)
BY DEF ToSet, Distinct

(* No piece is produced twice.                                             *)
FreshInv ==
  /\ Distinct(produced)
  /\ \A p \in ToSet(produced) : p[1] <= calls /\ (p[1] = 0 => p[2] <= answers)

(* No piece is in two places, and all were produced.                       *)
PlaceInv ==
  /\ Distinct(wire) /\ Distinct(bio) /\ ToSet(wire) \cap ToSet(bio) = {}
  /\ ToSet(wire) \cup ToSet(bio) \subseteq ToSet(produced)
  /\ \A s \in Sender :
       /\ Distinct(Left(s)) /\ ToSet(Left(s)) \subseteq ToSet(produced)
       /\ ToSet(Left(s)) \cap (ToSet(wire) \cup ToSet(bio)) = {}
  /\ \A s, z \in Sender : s # z => ToSet(Left(s)) \cap ToSet(Left(z)) = {}

(* No call has failed, and none was made after a failure.                  *)
Clean ==
  (\A s \in Sender : ret[s] # "failed") /\ "after_failure" \notin breach

(* Nothing is lost.                                                        *)
Covered ==
  \A p \in ToSet(produced) :
    p \in ToSet(wire) \cup ToSet(bio) \/ \E s \in Sender : p \in ToSet(Left(s))

(* Ciphertext of a call waits in the BIO only while somebody is going to   *)
(* send it.                                                                *)
Awaited ==
  (\E p \in ToSet(bio) : p[1] # 0) => \E s \in Sender : ret[s] = "busy"

PlacesInv == FreshInv /\ PlaceInv /\ (Clean => Covered /\ Awaited)

(* A step moves pieces out of the hands of s or into them, and may produce *)
(* new ones: the places stay apart.                                        *)
LEMMA Moves ==
  ASSUME PlaceInv, NEW s \in Sender, NEW N, N \cap ToSet(produced) = {},
         ToSet(produced') = ToSet(produced) \cup N,
         \A z \in Sender \ {s} : Left(z)' = Left(z),
         Distinct(wire'), Distinct(bio'), Distinct(Left(s)'),
         ToSet(wire') \cap ToSet(bio') = {},
         ToSet(Left(s)') \cap (ToSet(wire') \cup ToSet(bio')) = {},
         ToSet(wire') \cup ToSet(bio') \cup ToSet(Left(s)')
           \subseteq ToSet(wire) \cup ToSet(bio) \cup ToSet(Left(s)) \cup N
  PROVE  PlaceInv'
<1>1. ToSet(wire) \cup ToSet(bio) \cup ToSet(Left(s)) \subseteq ToSet(produced)
  BY DEF PlaceInv
<1>2. ASSUME NEW z \in Sender \ {s}
      PROVE  /\ Distinct(Left(z)') /\ ToSet(Left(z)') \subseteq ToSet(produced')
             /\ ToSet(Left(z)') \cap
                  (ToSet(wire') \cup ToSet(bio') \cup ToSet(Left(s)')) = {}
  <2>1. /\ Distinct(Left(z)) /\ ToSet(Left(z)) \subseteq ToSet(produced)
        /\ ToSet(Left(z)) \cap
             (ToSet(wire) \cup ToSet(bio) \cup ToSet(Left(s))) = {}
    BY DEF PlaceInv
  <2>2. Left(z)' = Left(z)
    OBVIOUS
  <2> QED
    BY <2>1, <2>2
<1>3. ASSUME NEW z \in Sender \ {s}, NEW y \in Sender \ {s}, z # y
      PROVE  ToSet(Left(z)') \cap ToSet(Left(y)') = {}
  BY <1>3 DEF PlaceInv
<1> QED
  BY <1>1, <1>2, <1>3 DEF PlaceInv

(* ... and nothing is lost, if s loses nothing.                            *)
LEMMA NothingLeft ==
  ASSUME Covered, NEW s \in Sender, NEW N,
         ToSet(produced') = ToSet(produced) \cup N,
         \A z \in Sender \ {s} : Left(z)' = Left(z),
         ToSet(wire) \cup ToSet(bio) \cup ToSet(Left(s)) \cup N
           \subseteq ToSet(wire') \cup ToSet(bio') \cup ToSet(Left(s)')
  PROVE  Covered'
<1> SUFFICES ASSUME NEW p \in ToSet(produced'),
                    p \notin ToSet(wire') \cup ToSet(bio') \cup ToSet(Left(s)')
             PROVE  \E z \in Sender : p \in ToSet(Left(z)')
  BY DEF Covered
<1>1. PICK z \in Sender : p \in ToSet(Left(z))
  BY DEF Covered
<1>2. z # s
  BY <1>1
<1> QED
  BY <1>1, <1>2

(* A call of send: its ciphertext goes behind what is in the BIO, and the  *)
(* front of both to its caller.                                            *)
LEMMA SendPlaces ==
  ASSUME Types, QueueInv, Types', QueueInv', PlacesInv, NEW s \in Sender,
         NEW n \in 1..MaxPieces, Send(s, n)
  PROVE  PlacesInv'
<1> DEFINE record == [i \in 1..n |-> <<calls + 1, i>>]
           N == ToSet(record)
           out == bio \o record
<1>1. record \in Seq(Piece)
  BY RecordType
<1>2. /\ Distinct(record)
      /\ \A p \in N : p[1] = calls + 1
  BY DEF Distinct, ToSet
<1>3. produced' = produced \o record /\ UNCHANGED <<wire, answers>>
  BY DEF Send
<1>18. calls' = calls + 1
  BY DEF Send
<1>16. ret'[s] = "busy"
  BY DEF Send, Types
<1>17. Clean' => Clean
  <2>1. "after_failure" \notin breach' =>
          "after_failure" \notin breach /\ \A z \in Sender : ret[z] # "failed"
    BY DEF Send, CallBreach
  <2> QED
    BY <2>1 DEF Clean
<1>4. /\ Left(s) = <<>>
      /\ Left(s)' = Take(out, Chunk)
      /\ bio' = Drop(out, Chunk)
      /\ \A z \in Sender \ {s} : Left(z)' = Left(z)
  BY LeftAfterSend
<1> HIDE DEF record, N, out
<1>5. calls \in Nat /\ bio \in Seq(Piece) /\ produced \in Seq(Piece)
        /\ Chunk \in Nat
  BY SendAssumption DEF Types
<1>6. N \cap ToSet(produced) = {}
  BY <1>2, <1>5 DEF PlacesInv, FreshInv
<1>7. /\ ToSet(produced') = ToSet(produced) \cup N
      /\ Distinct(produced')
  BY <1>1, <1>2, <1>3, <1>5, <1>6, ConcatParts DEF PlacesInv, FreshInv, N
<1>8. ToSet(bio) \subseteq ToSet(produced)
  BY DEF PlacesInv, PlaceInv
<1>9. out \in Seq(Piece) /\ ToSet(out) = ToSet(bio) \cup N /\ Distinct(out)
  BY <1>1, <1>2, <1>5, <1>6, <1>8, ConcatParts DEF PlacesInv, PlaceInv, N, out
<1>10. /\ ToSet(out) = ToSet(Left(s)') \cup ToSet(bio')
       /\ Distinct(Left(s)') /\ Distinct(bio')
       /\ ToSet(Left(s)') \cap ToSet(bio') = {}
  BY <1>4, <1>5, <1>9, CutParts
<1>11. FreshInv'
  <2>1. \A p \in ToSet(produced') :
          p[1] <= calls' /\ (p[1] = 0 => p[2] <= answers')
    <3>1. \A p \in Piece : p[1] \in Nat
      BY DEF Piece
    <3>2. \A p \in ToSet(produced) : p[1] \in Nat
      BY <1>5, <3>1 DEF ToSet
    <3>3. \A p \in ToSet(produced) :
            p[1] <= calls' /\ (p[1] = 0 => p[2] <= answers')
      BY <1>3, <1>5, <1>18, <3>2 DEF PlacesInv, FreshInv
    <3>4. \A p \in N : p[1] <= calls' /\ p[1] # 0
      BY <1>2, <1>5, <1>18
    <3> QED
      BY <1>7, <3>3, <3>4
  <2> QED
    BY <1>7, <2>1 DEF FreshInv
<1>12. PlaceInv'
  <2>1. /\ Distinct(wire') /\ ToSet(wire') \cap ToSet(bio') = {}
        /\ ToSet(Left(s)') \cap (ToSet(wire') \cup ToSet(bio')) = {}
    <3>1. ToSet(wire) \cap (ToSet(bio) \cup N) = {} /\ Distinct(wire)
      BY <1>6 DEF PlacesInv, PlaceInv
    <3> QED
      BY <1>3, <1>9, <1>10, <3>1
  <2>2. ToSet(wire') \cup ToSet(bio') \cup ToSet(Left(s)')
          \subseteq ToSet(wire) \cup ToSet(bio) \cup ToSet(Left(s)) \cup N
    BY <1>3, <1>9, <1>10
  <2> QED
    BY <1>4, <1>6, <1>7, <1>10, <2>1, <2>2, Moves DEF PlacesInv
<1>13. Clean' => Covered' /\ Awaited'
  <2>1. ToSet(wire) \cup ToSet(bio) \cup ToSet(Left(s)) \cup N
          \subseteq ToSet(wire') \cup ToSet(bio') \cup ToSet(Left(s)')
    BY <1>3, <1>4, <1>9, <1>10, EmptyParts
  <2>2. Covered => Covered'
    BY <1>4, <1>7, <2>1, NothingLeft
  <2>3. Awaited'
    BY <1>16 DEF Awaited
  <2> QED
    BY <1>17, <2>2, <2>3 DEF PlacesInv
<1> QED
  BY <1>11, <1>12, <1>13 DEF PlacesInv

(* An answer goes into the BIO.                                            *)
LEMMA AnswerPlaces ==
  ASSUME Types, QueueInv, Types', QueueInv', PlacesInv, Answer
  PROVE  PlacesInv'
<1> DEFINE p == <<0, answers + 1>>
           N == {p}
<1>1. p \in Piece /\ p[1] = 0 /\ p[2] = answers + 1
  BY SendAssumption DEF Answer, Types, Piece
<1>2. /\ produced' = Append(produced, p) /\ bio' = Append(bio, p)
      /\ answers' = answers + 1
      /\ UNCHANGED <<calls, wire, ret, breach>>
      /\ \A z \in Sender : Left(z)' = Left(z)
  BY LeftAfterAnswer DEF Answer
<1> HIDE DEF p
<1>3. /\ calls \in Nat /\ answers \in Nat
      /\ bio \in Seq(Piece) /\ produced \in Seq(Piece)
  BY SendAssumption DEF Types
<1>4. p \notin ToSet(produced)
  BY <1>1, <1>3 DEF PlacesInv, FreshInv
<1> DEFINE alone == <<p>>
<1>5. /\ alone \in Seq(Piece) /\ ToSet(alone) = {p} /\ Distinct(alone)
      /\ \A s \in Seq(Piece) : Append(s, p) = s \o alone
  BY <1>1 DEF ToSet, Distinct
<1> HIDE DEF alone
<1>6. ASSUME NEW s \in Seq(Piece), Distinct(s), p \notin ToSet(s)
      PROVE  ToSet(Append(s, p)) = ToSet(s) \cup {p} /\ Distinct(Append(s, p))
  <2>1. Append(s, p) = s \o alone
    BY <1>5
  <2>2. ToSet(s) \cap ToSet(alone) = {}
    BY <1>5, <1>6
  <2> QED
    BY <1>5, <1>6, <2>1, <2>2, ConcatParts
<1>7. ToSet(produced') = ToSet(produced) \cup N /\ Distinct(produced')
  BY <1>2, <1>3, <1>4, <1>6 DEF PlacesInv, FreshInv
<1>8. ToSet(bio') = ToSet(bio) \cup {p} /\ Distinct(bio')
  <2>1. Distinct(bio) /\ p \notin ToSet(bio)
    BY <1>4 DEF PlacesInv, PlaceInv
  <2> QED
    BY <1>2, <1>3, <1>6, <2>1
<1>9. FreshInv'
  <2>1. \A q \in ToSet(produced) : q[1] = 0 => q[2] \in Nat
    <3>1. \A q \in Piece : q[2] \in Nat
      BY DEF Piece
    <3> QED
      BY <1>3, <3>1 DEF ToSet
  <2>2. \A q \in ToSet(produced') :
          q[1] <= calls' /\ (q[1] = 0 => q[2] <= answers')
    BY <1>1, <1>2, <1>3, <1>7, <2>1 DEF PlacesInv, FreshInv
  <2> QED
    BY <1>7, <2>2 DEF FreshInv
<1>10. PlaceInv'
  <2>1. ToSet(wire) \cap {p} = {} /\ \A s \in Sender : p \notin ToSet(Left(s))
    BY <1>4 DEF PlacesInv, PlaceInv
  <2>2. ASSUME NEW s \in Sender
        PROVE  /\ Distinct(Left(s)') /\ ToSet(Left(s)') \subseteq ToSet(produced')
               /\ ToSet(Left(s)') \cap (ToSet(wire') \cup ToSet(bio')) = {}
               /\ \A z \in Sender : s # z => ToSet(Left(s)') \cap ToSet(Left(z)') = {}
    <3>1. /\ Distinct(Left(s)) /\ ToSet(Left(s)) \subseteq ToSet(produced)
          /\ ToSet(Left(s)) \cap (ToSet(wire) \cup ToSet(bio)) = {}
          /\ \A z \in Sender : s # z => ToSet(Left(s)) \cap ToSet(Left(z)) = {}
      BY DEF PlacesInv, PlaceInv
    <3> QED
      BY <1>2, <1>7, <1>8, <2>1, <3>1
  <2>3. /\ Distinct(wire') /\ ToSet(wire') \cap ToSet(bio') = {}
        /\ ToSet(wire') \cup ToSet(bio') \subseteq ToSet(produced')
    BY <1>2, <1>7, <1>8, <2>1 DEF PlacesInv, PlaceInv
  <2> QED
    BY <1>8, <2>2, <2>3 DEF PlaceInv
<1>11. Clean' => Covered' /\ Awaited'
  BY <1>1, <1>2, <1>7, <1>8 DEF PlacesInv, Clean, Covered, Awaited
<1> QED
  BY <1>9, <1>10, <1>11 DEF PlacesInv

(* The transport takes the front of what is left to s.                     *)
LEMMA AcceptPlaces ==
  ASSUME Types, QueueInv, Types', QueueInv', PlacesInv,
         NEW s \in Sender, NEW n \in 0..Chunk, Accept(s, n)
  PROVE  PlacesInv'
<1> DEFINE front == Take(chunk[s], n)
           rest == Drop(chunk[s], n)
<1>1. /\ Left(s) = chunk[s] /\ Left(s)' = rest
      /\ \A z \in Sender \ {s} : Left(z)' = Left(z)
  BY LeftAfterAccept
<1>2. /\ UNCHANGED <<calls, answers, produced, bio, ret, breach>>
      /\ wire' = wire \o front
  BY DEF Accept
<1>3. chunk[s] \in Seq(Piece) /\ n \in Nat /\ wire \in Seq(Piece)
  BY SendAssumption DEF Types
<1>4. front \in Seq(Piece)
  BY <1>3, CutPieces
<1>5. /\ ToSet(chunk[s]) = ToSet(front) \cup ToSet(rest)
      /\ Distinct(chunk[s]) => /\ Distinct(front) /\ Distinct(rest)
                               /\ ToSet(front) \cap ToSet(rest) = {}
  BY <1>3, CutParts
<1> HIDE DEF front, rest
<1>6. /\ Distinct(Left(s)) /\ Distinct(wire) /\ Distinct(bio)
      /\ ToSet(wire) \cap ToSet(bio) = {}
      /\ ToSet(Left(s)) \cap (ToSet(wire) \cup ToSet(bio)) = {}
  BY DEF PlacesInv, PlaceInv
<1>7. /\ Distinct(front) /\ Distinct(rest) /\ ToSet(front) \cap ToSet(rest) = {}
      /\ ToSet(Left(s)) = ToSet(front) \cup ToSet(rest)
  BY <1>1, <1>5, <1>6
<1>8. ToSet(wire') = ToSet(wire) \cup ToSet(front) /\ Distinct(wire')
  <2>1. ToSet(wire) \cap ToSet(front) = {}
    BY <1>6, <1>7
  <2> QED
    BY <1>2, <1>3, <1>4, <1>6, <1>7, <2>1, ConcatParts
<1>9. PlaceInv'
  <2>1. /\ ToSet(wire') \cap ToSet(bio') = {}
        /\ ToSet(Left(s)') \cap (ToSet(wire') \cup ToSet(bio')) = {}
        /\ ToSet(wire') \cup ToSet(bio') \cup ToSet(Left(s)')
             \subseteq ToSet(wire) \cup ToSet(bio) \cup ToSet(Left(s)) \cup {}
    BY <1>1, <1>2, <1>6, <1>7, <1>8
  <2>2. ToSet(produced') = ToSet(produced) \cup {}
    BY <1>2
  <2>3. Distinct(bio') /\ Distinct(Left(s)')
    BY <1>1, <1>2, <1>6, <1>7
  <2> QED
    BY <1>1, <1>8, <2>1, <2>2, <2>3, Moves DEF PlacesInv
<1>10. Covered => Covered'
  <2>1. ToSet(wire) \cup ToSet(bio) \cup ToSet(Left(s)) \cup {}
          \subseteq ToSet(wire') \cup ToSet(bio') \cup ToSet(Left(s)')
    BY <1>1, <1>2, <1>7, <1>8
  <2>2. ToSet(produced') = ToSet(produced) \cup {}
    BY <1>2
  <2> QED
    BY <1>1, <2>1, <2>2, NothingLeft
<1>11. FreshInv' /\ (Clean' => Clean) /\ (Awaited => Awaited')
  BY <1>2 DEF PlacesInv, FreshInv, Clean, Awaited
<1> QED
  BY <1>9, <1>10, <1>11 DEF PlacesInv

(* A sender takes its completion up: it goes on with what is left, takes   *)
(* the next chunk out of the BIO when nothing is, or returns when there is *)
(* nothing in the BIO either; if it fails, what is left is lost.           *)
LEMMA ResumePlaces ==
  ASSUME Types, QueueInv, Types', QueueInv', PlacesInv,
         NEW s \in Sender, Resume(s)
  PROVE  PlacesInv'
<1>1. /\ Resumed(s)
      /\ UNCHANGED <<calls, answers, produced, wire, call, breach>>
  BY DEF Resume, SendFails, SendRest, SendNext
<1>2. FreshInv' /\ ToSet(produced') = ToSet(produced) \cup {}
  BY <1>1 DEF PlacesInv, FreshInv
<1>3. /\ Distinct(Left(s)) /\ Distinct(wire) /\ Distinct(bio)
      /\ ToSet(wire) \cap ToSet(bio) = {}
      /\ ToSet(Left(s)) \cap (ToSet(wire) \cup ToSet(bio)) = {}
  BY DEF PlacesInv, PlaceInv
<1>4. bio \in Seq(Piece) /\ Chunk \in Nat
  BY SendAssumption DEF Types
<1>5. ASSUME \A z \in Sender \ {s} : Left(z)' = Left(z),
             \/ Left(s)' = <<>> /\ bio' = bio
             \/ Left(s)' = Left(s) /\ bio' = bio
             \/ Left(s)' = Take(bio, Chunk) /\ bio' = Drop(bio, Chunk)
      PROVE  PlaceInv'
  <2>1. /\ Distinct(bio') /\ Distinct(Left(s)')
        /\ ToSet(wire') \cap ToSet(bio') = {}
        /\ ToSet(Left(s)') \cap (ToSet(wire') \cup ToSet(bio')) = {}
        /\ ToSet(wire') \cup ToSet(bio') \cup ToSet(Left(s)')
             \subseteq ToSet(wire) \cup ToSet(bio) \cup ToSet(Left(s)) \cup {}
    <3>1. CASE Left(s)' = <<>> /\ bio' = bio
      BY <1>1, <1>3, <3>1, EmptyParts
    <3>2. CASE Left(s)' = Left(s) /\ bio' = bio
      BY <1>1, <1>3, <3>2
    <3>3. CASE Left(s)' = Take(bio, Chunk) /\ bio' = Drop(bio, Chunk)
      <4>1. /\ ToSet(bio) = ToSet(Left(s)') \cup ToSet(bio')
            /\ Distinct(Left(s)') /\ Distinct(bio')
            /\ ToSet(Left(s)') \cap ToSet(bio') = {}
        BY <1>3, <1>4, <3>3, CutParts
      <4> QED
        BY <1>1, <1>3, <4>1
    <3> QED
      BY <1>5, <3>1, <3>2, <3>3
  <2>2. Distinct(wire')
    BY <1>1, <1>3
  <2> QED
    BY <1>2, <1>5, <2>1, <2>2, Moves DEF PlacesInv
<1>6. ASSUME \A z \in Sender \ {s} : Left(z)' = Left(z),
             \/ Left(s)' = Left(s) /\ bio' = bio
             \/ /\ Left(s) = <<>>
                /\ Left(s)' = Take(bio, Chunk) /\ bio' = Drop(bio, Chunk)
      PROVE  Covered => Covered'
  <2>1. ToSet(wire) \cup ToSet(bio) \cup ToSet(Left(s)) \cup {}
          \subseteq ToSet(wire') \cup ToSet(bio') \cup ToSet(Left(s)')
    <3>1. CASE Left(s)' = Left(s) /\ bio' = bio
      BY <1>1, <3>1
    <3>2. CASE /\ Left(s) = <<>>
               /\ Left(s)' = Take(bio, Chunk) /\ bio' = Drop(bio, Chunk)
      <4>1. ToSet(bio) = ToSet(Left(s)') \cup ToSet(bio')
        BY <1>4, <3>2, CutParts
      <4> QED
        BY <1>1, <3>2, <4>1, EmptyParts
    <3> QED
      BY <1>6, <3>1, <3>2
  <2> QED
    BY <1>2, <1>6, <2>1, NothingLeft
<1>7. CASE SendFails(s)
  <2>1. /\ op'[s] = "none" /\ chunk'[s] = <<>> /\ ret'[s] = "failed"
        /\ \A z \in Sender \ {s} : chunk'[z] = chunk[z] /\ op'[z] = op[z]
        /\ bio' = bio
    BY <1>7 DEF SendFails, Return, Types
  <2>2. Left(s)' = <<>> /\ \A z \in Sender \ {s} : Left(z)' = Left(z)
    BY <1>1, <2>1, LeftAtResume
  <2>3. ~Clean'
    BY <2>1 DEF Clean
  <2> QED
    BY <1>2, <1>5, <2>1, <2>2, <2>3 DEF PlacesInv
<1>8. CASE SendRest(s)
  <2>1. /\ op'[s] = "flight" /\ chunk'[s] = Rest(s, Head(cq)[2])
        /\ \A z \in Sender \ {s} : chunk'[z] = chunk[z] /\ op'[z] = op[z]
        /\ bio' = bio /\ ret' = ret /\ Head(cq)[2] > 0
    BY <1>8 DEF SendRest, Types
  <2>2. Left(s)' = Left(s) /\ \A z \in Sender \ {s} : Left(z)' = Left(z)
    BY <1>1, <2>1, LeftAtResume
  <2>3. (Clean' => Clean) /\ (Awaited => Awaited')
    BY <1>1, <2>1 DEF Clean, Awaited
  <2> QED
    BY <1>2, <1>5, <1>6, <2>1, <2>2, <2>3 DEF PlacesInv
<1>9. CASE SendNext(s)
  <2>0. Head(cq)[2] > 0 /\ Rest(s, Head(cq)[2]) = <<>>
    BY <1>9 DEF SendNext
  <2>1. CASE bio # <<>>
    <3>1. ReadChunk(s, bio) /\ UNCHANGED ret
      BY <1>9, <2>1 DEF SendNext
    <3>2. /\ op'[s] = "flight"
          /\ \A z \in Sender \ {s} : chunk'[z] = chunk[z] /\ op'[z] = op[z]
          /\ chunk'[s] = Take(bio, Chunk) /\ bio' = Drop(bio, Chunk)
      BY <1>4, <2>1, <3>1, ChunkNotEmpty
    <3>3. /\ Left(s) = <<>> /\ Left(s)' = Take(bio, Chunk)
          /\ \A z \in Sender \ {s} : Left(z)' = Left(z)
      BY <1>1, <2>0, <3>2, LeftAtResume
    <3>4. ret[s] = "busy"
      BY <1>1, Oldest DEF QueueInv
    <3>5. (Clean' => Clean) /\ Awaited'
      BY <1>1, <3>1, <3>4 DEF Clean, Awaited
    <3> QED
      BY <1>2, <1>5, <1>6, <3>2, <3>3, <3>5 DEF PlacesInv
  <2>2. CASE bio = <<>>
    <3>1. Return(s, "ok") /\ bio' = bio
      BY <1>9, <2>2 DEF SendNext
    <3>2. /\ op'[s] = "none" /\ chunk'[s] = <<>>
          /\ \A z \in Sender \ {s} : chunk'[z] = chunk[z] /\ op'[z] = op[z]
          /\ \A z \in Sender : ret'[z] = IF z = s THEN "ok" ELSE ret[z]
      BY <3>1 DEF Return, Types
    <3>3. /\ Left(s) = <<>> /\ Left(s)' = <<>>
          /\ \A z \in Sender \ {s} : Left(z)' = Left(z)
      BY <1>1, <2>0, <3>2, LeftAtResume
    <3>4. ret[s] = "busy"
      BY <1>1, Oldest DEF QueueInv
    <3>5. Clean' => Clean
      BY <1>1, <3>2, <3>4 DEF Clean
    <3>6. Awaited'
      BY <2>2, <3>1, EmptyParts DEF Awaited
    <3> QED
      BY <1>2, <1>5, <1>6, <3>1, <3>3, <3>5, <3>6 DEF PlacesInv
  <2> QED
    BY <2>1, <2>2
<1> QED
  BY <1>7, <1>8, <1>9 DEF Resume

(* PlacesInv is inductive.                                                 *)
LEMMA PlacesStep ==
  ASSUME Types, QueueInv, Types', QueueInv', PlacesInv, [Next]_vars
  PROVE  PlacesInv'
<1>1. CASE UNCHANGED vars
  <2>1. UNCHANGED <<calls, answers, produced, wire, bio, ret, breach>>
    BY <1>1 DEF vars
  <2>2. \A s \in Sender : Left(s)' = Left(s)
    BY <1>1 DEF vars, Left, Gone, DoneAt
  <2>3. FreshInv' /\ (Clean' => Clean) /\ (Awaited => Awaited')
    BY <2>1 DEF PlacesInv, FreshInv, Clean, Awaited
  <2>4. PlaceInv'
    BY <2>1, <2>2 DEF PlacesInv, PlaceInv
  <2>5. Covered => Covered'
    BY <2>1, <2>2 DEF Covered
  <2> QED
    BY <2>3, <2>4, <2>5 DEF PlacesInv
<1>2. CASE Next
  BY <1>2, SendPlaces, AnswerPlaces, AcceptPlaces, ResumePlaces DEF Next
<1> QED
  BY <1>1, <1>2

(* The initial state.                                                      *)
LEMMA PlacesInit == Init => PlacesInv
<1> SUFFICES ASSUME Init PROVE PlacesInv
  OBVIOUS
<1>1. produced = <<>> /\ wire = <<>> /\ bio = <<>>
  BY DEF Init
<1>2. \A s \in Sender : Left(s) = <<>>
  <2>1. \A s \in Sender : op[s] # "done" /\ chunk[s] = <<>>
    BY DEF Init
  <2> QED
    BY <2>1, TypeInit, LeftInFlight
<1> QED
  BY <1>1, <1>2, EmptyParts
     DEF PlacesInv, FreshInv, PlaceInv, Covered, Awaited

(* QuietMeansSent, for ssl_stream::send called by any number of            *)
(* coroutines: when all calls have returned and none has failed, every     *)
(* piece was sent once, but for answers of recv that nobody has sent yet.  *)
THEOREM QuietIsSent == Spec => []QuietMeansSent
<1> DEFINE I == Types /\ QueueInv /\ PlacesInv
<1>1. ASSUME I PROVE QuietMeansSent
  <2> SUFFICES ASSUME \A s \in Sender : ret[s] \notin {"busy", "failed"},
                      "after_failure" \notin breach
               PROVE  /\ Len(wire) + Len(bio) = Len(produced)
                      /\ ToSet(wire \o bio) = ToSet(produced)
                      /\ ToSet(bio) \subseteq {0} \X (1..answers)
    BY DEF QuietMeansSent
  <2>0. /\ wire \in Seq(Piece) /\ bio \in Seq(Piece) /\ produced \in Seq(Piece)
        /\ answers \in Nat
    BY <1>1, SendAssumption DEF Types
  <2>1. Covered /\ Awaited
    BY <1>1 DEF PlacesInv, Clean
  <2>2. \A s \in Sender : Left(s) = <<>>
    <3>1. \A s \in Sender : op[s] = "none" /\ chunk[s] = <<>>
      BY <1>1 DEF QueueInv
    <3> QED
      BY <1>1, <3>1, LeftInFlight
  <2>3. ToSet(produced) = ToSet(wire) \cup ToSet(bio)
    BY <1>1, <2>1, <2>2, EmptyParts DEF PlacesInv, PlaceInv, Covered
  <2> DEFINE all == wire \o bio
  <2>4. all \in Seq(Piece) /\ Len(all) = Len(wire) + Len(bio)
    BY <2>0
  <2>5. ToSet(all) = ToSet(produced) /\ Distinct(all)
    BY <1>1, <2>0, <2>3, ConcatParts DEF PlacesInv, PlaceInv
  <2> HIDE DEF all
  <2>6. Len(all) = Len(produced)
    <3>1. Cardinality(ToSet(all)) = Len(all)
      BY <2>4, <2>5, DistinctLength
    <3>2. Cardinality(ToSet(produced)) = Len(produced)
      BY <1>1, <2>0, DistinctLength DEF PlacesInv, FreshInv
    <3> QED
      BY <2>5, <3>1, <3>2
  <2>7. ASSUME NEW p \in ToSet(bio) PROVE p \in {0} \X (1..answers)
    <3>1. p \in Piece
      BY <2>0 DEF ToSet
    <3>2. p[1] = 0
      BY <2>1 DEF Awaited
    <3>3. p \in {0} \X (1..MaxAnswers)
      BY <3>1, <3>2 DEF Piece
    <3>4. p[2] <= answers
      BY <1>1, <3>2 DEF PlacesInv, PlaceInv, FreshInv
    <3> QED
      BY <2>0, <3>3, <3>4
  <2> QED
    BY <2>4, <2>5, <2>6, <2>7 DEF all
<1>2. Init => I
  BY TypeInit, QueueInit, PlacesInit
<1>3. I /\ [Next]_vars => I'
  BY TypeStep, QueueStep, PlacesStep
<1> HIDE DEF I
<1> QED
  BY <1>1, <1>2, <1>3, PTL DEF Spec
=============================================================================
