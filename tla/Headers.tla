------------------------------ MODULE Headers ------------------------------
(***************************************************************************)
(* http::headers (kkp-http, http_common.hpp): a multimap of header values  *)
(* with add, set, get and copy.  The entries of one name keep the order in *)
(* which they were added, and no operation removes one before the object   *)
(* is destroyed.  The flag sensitive is left out: it is never read.  How   *)
(* long the view that get returns may be used is not modelled: that is up  *)
(* to the caller, who must not keep it across set or the destructor.       *)
(***************************************************************************)
EXTENDS Sequences, FiniteSetsExt

CONSTANTS
  Object,        \* storage for objects of class headers
  Name, Value,
  MaxEntries,    \* bound: entries of one object
  None           \* no such header: the view {}, without data

VARIABLES
  live,          \* objects that are constructed
  entries,       \* headers_, in the order of insertion
  told           \* history: the value a name was given, for its readers

vars == <<live, entries, told>>

Entry == [name : Name, value : Value]

NoEntry == [n \in Name |-> None]

TypeOK ==
  /\ live \subseteq Object
  /\ entries \in [Object -> Seq(Entry)]
  /\ \A h \in Object : Len(entries[h]) <= MaxEntries
  /\ told \in [Object -> [Name -> Value \cup {None}]]

Init ==
  /\ live = {}
  /\ entries = [h \in Object |-> <<>>]
  /\ told = [h \in Object |-> NoEntry]

-----------------------------------------------------------------------------
(* std::multimap: equal_range, emplace, the assignments in the loop of     *)
(* set, and what get reads.                                                *)
EqualRange(m, n) == {i \in DOMAIN m : m[i].name = n}

Node(n, v) == [name |-> n, value |-> v]

(* Variant with a bug: emplace_hint at the lower bound of the name.        *)
EmplaceFirst(m, n, v) == <<Node(n, v)>> \o m

Emplace(m, n, v) == Append(m, Node(n, v))

Assign(m, n, v) ==
  [i \in DOMAIN m |-> IF i \in EqualRange(m, n) THEN Node(n, v) ELSE m[i]]

Get(m, n) ==
  IF EqualRange(m, n) = {} THEN None ELSE m[Min(EqualRange(m, n))].value

(* The default constructor.  The other one, which takes a map, is used by  *)
(* copy() only.                                                            *)
Construct(h) ==
  /\ h \notin live
  /\ live' = live \cup {h}
  /\ UNCHANGED <<entries, told>>

(* copy(), from o to h.                                                    *)
Copy(h, o) ==
  /\ h \notin live /\ o \in live
  /\ live' = live \cup {h}
  /\ entries' = [entries EXCEPT ![h] = entries[o]]
  /\ told' = [told EXCEPT ![h] = told[o]]

Destroy(h) ==
  /\ h \in live
  /\ live' = live \ {h}
  /\ entries' = [entries EXCEPT ![h] = <<>>]
  /\ told' = [told EXCEPT ![h] = NoEntry]

Add(h, n, v) ==
  /\ h \in live /\ Len(entries[h]) < MaxEntries
  /\ entries' = [entries EXCEPT ![h] = Emplace(@, n, v)]
  /\ told' = [told EXCEPT ![h][n] = IF @ = None THEN v ELSE @]
  /\ UNCHANGED live

Set(h, n, v) ==
  /\ h \in live
  /\ \/ /\ EqualRange(entries[h], n) = {} /\ Len(entries[h]) < MaxEntries
        /\ entries' = [entries EXCEPT ![h] = Emplace(@, n, v)]
     \/ /\ EqualRange(entries[h], n) # {}
        /\ entries' = [entries EXCEPT ![h] = Assign(@, n, v)]
  /\ told' = [told EXCEPT ![h][n] = v]
  /\ UNCHANGED live

Next ==
  \E h \in Object :
    \/ Construct(h) \/ Destroy(h)
    \/ \E o \in Object : Copy(h, o)
    \/ \E n \in Name, v \in Value : Add(h, n, v) \/ Set(h, n, v)

Spec == Init /\ [][Next]_vars

-----------------------------------------------------------------------------
(* Whatever adds, sets and copies an object has gone through, and whatever *)
(* other names and repeated values lie between: get reads the value a name *)
(* was set to last, or, if it was never set, the one that was added first  *)
(* (http_common.hpp:30-52).                                                *)
GetIsSettled ==
  \A h \in live, n \in Name : Get(entries[h], n) = told[h][n]
=============================================================================
