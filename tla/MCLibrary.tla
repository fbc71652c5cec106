----------------------------- MODULE MCLibrary -----------------------------
(***************************************************************************)
(* The parts of the library that share no state, on small instances:       *)
(* Streams, Results, Endpoints and Headers.  What one of them does changes *)
(* nothing of the others, so that a behaviour is about one area.           *)
(***************************************************************************)
EXTENDS Streams, Integers, TLC

CONSTANTS
  \* Results
  Errno, MaxCount,
  \* Endpoints
  Sock, Host, V4, V6, HostIps, Port,
  dual, six, a4, b4, a6,
  \* Headers
  Object, Name, Value, MaxEntries

VARIABLES
  area,
  op, phase, made, res, got,
  hasV6, state, peer, asked, remote,
  live, entries, told

resultVars == <<op, phase, made, res, got>>
endpointVars == <<hasV6, state, peer, asked, remote>>
headerVars == <<live, entries, told>>

Area == {"streams", "results", "endpoints", "headers"}

R == INSTANCE Results

E == INSTANCE Endpoints

H == INSTANCE Headers

(* Error numbers are those a system call can return (MAX_ERRNO).           *)
ASSUME ResultsAssumption == Errno \subseteq 1..4095 /\ MaxCount \in Nat

ASSUME EndpointsAssumption ==
  /\ V4 \cap V6 = {}
  /\ \A h \in Host : HostIps[h] \subseteq V4 \cup V6
  /\ Port \subseteq E!Word

ASSUME HeadersAssumption == MaxEntries \in Nat /\ None \notin Value

(* None is neither an address nor a pair.                                  *)
ASSUME NoneAssumption ==
  /\ None \notin E!Ip
  /\ None \notin E!Ip \X E!Word
  /\ None \notin (Host \cup E!Ip) \X Port

(* A host of both families and one of IPv6 only; 80 and 443 change when    *)
(* their bytes are swapped, 257 does not.                                  *)
SmallHost == {dual, six}
SmallV4 == {a4, b4}
SmallV6 == {a6}
SmallHostIps == (dual :> {a4, a6}) @@ (six :> {a6})
SmallPort == {80, 443, 257}

(* No area tells objects, names and values of headers from one another.    *)
Symmetry == Permutations(Object) \cup Permutations(Name) \cup Permutations(Value)

LibraryInit ==
  /\ area \in Area
  /\ Init /\ R!Init /\ E!Init /\ H!Init
  /\ area # "endpoints" => hasV6

LibraryNext ==
  /\ area' = area
  /\ \/ /\ area = "streams" /\ Next
        /\ UNCHANGED <<resultVars, endpointVars, headerVars>>
     \/ /\ area = "results" /\ R!Next
        /\ UNCHANGED <<vars, endpointVars, headerVars>>
     \/ /\ area = "endpoints" /\ E!Next
        /\ UNCHANGED <<vars, resultVars, headerVars>>
     \/ /\ area = "headers" /\ H!Next
        /\ UNCHANGED <<vars, resultVars, endpointVars>>

libraryVars == <<area, vars, resultVars, endpointVars, headerVars>>

LibrarySpec == LibraryInit /\ [][LibraryNext]_libraryVars

-----------------------------------------------------------------------------
(* Every part keeps its types.                                            *)
LibraryTypeOK == TypeOK /\ R!TypeOK /\ E!TypeOK /\ H!TypeOK

(* Results: however an outcome is converted on its way, its caller has a   *)
(* success exactly if there was one, but for an accepted descriptor 0,     *)
(* knows a refusal, and gets the errno where the code passes it on.        *)
OutcomeIsTold == R!OutcomeIsTold

(* Endpoints: connect leads to the host and the port that were asked for,  *)
(* and a socket has the whole address of its peer.                         *)
ConnectedAsAsked == E!ConnectedAsAsked

(* Headers: get reads the value that was set last, or else added first.    *)
GetIsSettled == H!GetIsSettled
=============================================================================
