----------------------------- MODULE Endpoints -----------------------------
(***************************************************************************)
(* From a host name and a port to a connection, and from a connection to   *)
(* the address of its peer: address and endpoint (net/address.hpp,         *)
(* address.cpp, net/endpoint.hpp) with socket::open, connect and accept.   *)
(*                                                                         *)
(* An address is 16 bytes of ::sockaddr.  An IPv4 address fits; of an IPv6 *)
(* address 8 bytes do; the rest is written behind the object and is not    *)
(* copied with it, so that ip is None here.  What the write destroys is    *)
(* not modelled.  The port field holds network byte order, read and        *)
(* written as a uint16_t of a little-endian machine.                       *)
(***************************************************************************)
EXTENDS Integers

CONSTANTS
  Sock,          \* socket objects
  Host,          \* host names
  V4, V6,        \* IP addresses of the two families
  HostIps,       \* the addresses of each host name
  Port,          \* ports callers ask for, and peers come from
  None           \* no address, nothing asked for

VARIABLES
  hasV6,         \* does the machine have an IPv6 address?
  state,         \* "none", "open", "ok", "refused", "family" (EAFNOSUPPORT)
  peer,          \* peer_.address() of a socket object
  asked,         \* <<host or IP, port>> given to endpoint::from
  remote         \* the kernel's idea of the other end: <<IP, port>>

vars == <<hasV6, state, peer, asked, remote>>

Ip == V4 \cup V6

MaxWord == 65535   \* UINT16_MAX

Word == 0..MaxWord

Address == [family : {"unspec", "v4", "v6"}, ip : Ip \cup {None}, port : Word]

NoAddress == [family |-> "unspec", ip |-> None, port |-> 0]

TypeOK ==
  /\ hasV6 \in BOOLEAN
  /\ state \in [Sock -> {"none", "open", "ok", "refused", "family"}]
  /\ peer \in [Sock -> Address]
  /\ asked \in [Sock -> ((Host \cup Ip) \X Port) \cup {None}]
  /\ remote \in [Sock -> (Ip \X Word) \cup {None}]

Init ==
  /\ hasV6 \in BOOLEAN
  /\ state = [s \in Sock |-> "none"]
  /\ peer = [s \in Sock |-> NoAddress]
  /\ asked = [s \in Sock |-> None]
  /\ remote = [s \in Sock |-> None]

-----------------------------------------------------------------------------
(* htons and ntohs.                                                        *)
Swap(w) == (w % 256) * 256 + w \div 256

(* getaddrinfo with AI_ADDRCONFIG: the addresses of the families the       *)
(* machine has.  It may fail, and lists them in any order.                 *)
Resolved(h) == IF hasV6 THEN HostIps[h] ELSE HostIps[h] \cap V4

(* Variant with a bug: the port is not converted.                          *)
FilledHostOrder(ip, port) ==
  IF ip \in V4 THEN [family |-> "v4", ip |-> ip, port |-> port]
               ELSE [family |-> "v6", ip |-> None, port |-> port]

(* The address object after parse_from_ip or parse_from_domain.            *)
Filled(ip, port) ==
  IF ip \in V4 THEN [family |-> "v4", ip |-> ip, port |-> Swap(port)]
               ELSE [family |-> "v6", ip |-> None, port |-> Swap(port)]

(* address::from: an IP address as it is, else the first address the       *)
(* resolver lists.                                                         *)
Candidates(name) == IF name \in Ip THEN {name} ELSE Resolved(name)

(* endpoint::from and socket::open(endpoint).  Without a candidate from    *)
(* throws and there is no socket.                                          *)
OpenTo(s, name, port) ==
  /\ state[s] = "none"
  /\ \E ip \in Candidates(name) :
       peer' = [peer EXCEPT ![s] = Filled(ip, port)]
  /\ asked' = [asked EXCEPT ![s] = <<name, port>>]
  /\ state' = [state EXCEPT ![s] = "open"]
  /\ UNCHANGED <<hasV6, remote>>

(* socket::open() without an endpoint.                                     *)
OpenPlain(s) ==
  /\ state[s] = "none"
  /\ state' = [state EXCEPT ![s] = "open"]
  /\ UNCHANGED <<hasV6, peer, asked, remote>>

(* socket::connect passes 16 bytes to an AF_INET socket.  For the kernel   *)
(* AF_UNSPEC means to dissolve the association, which succeeds.            *)
Connect(s) ==
  /\ state[s] = "open"
  /\ LET a == peer[s] IN
       \/ /\ a.family = "v4"
          /\ \/ /\ state' = [state EXCEPT ![s] = "ok"]
                /\ remote' = [remote EXCEPT ![s] = <<a.ip, Swap(a.port)>>]
             \/ /\ state' = [state EXCEPT ![s] = "refused"]
                /\ UNCHANGED remote
       \/ /\ a.family # "v4"
          /\ state' = [state EXCEPT ![s] =
                         IF a.family = "v6" THEN "family" ELSE "ok"]
          /\ UNCHANGED remote
  /\ UNCHANGED <<hasV6, peer, asked>>

(* An accepted connection: await_resume copies the sockaddr of the kernel. *)
Accept(s, ip, port) ==
  /\ state[s] = "none" /\ ip \in V4
  /\ state' = [state EXCEPT ![s] = "ok"]
  /\ peer' = [peer EXCEPT ![s] =
                [family |-> "v4", ip |-> ip, port |-> Swap(port)]]
  /\ remote' = [remote EXCEPT ![s] = <<ip, port>>]
  /\ UNCHANGED <<hasV6, asked>>

(* The socket is destroyed.                                                *)
Drop(s) ==
  /\ state[s] # "none"
  /\ state' = [state EXCEPT ![s] = "none"]
  /\ peer' = [peer EXCEPT ![s] = NoAddress]
  /\ asked' = [asked EXCEPT ![s] = None]
  /\ remote' = [remote EXCEPT ![s] = None]
  /\ UNCHANGED <<hasV6>>

Next ==
  \E s \in Sock :
    \/ \E name \in Host \cup Ip, port \in Port : OpenTo(s, name, port)
    \/ \E ip \in V4, port \in Port : Accept(s, ip, port)
    \/ OpenPlain(s) \/ Connect(s) \/ Drop(s)

Spec == Init /\ [][Next]_vars

-----------------------------------------------------------------------------
(* address::ip_address(), as the callers print it.                         *)
ShownIp(s) == peer[s].ip

(* connect succeeds towards the host and the port that were asked for, and *)
(* towards nobody only for a socket opened without an endpoint; a socket   *)
(* with a peer, connected or accepted, has its whole address: one of which *)
(* half is missing, or of the other family, never gets past connect.       *)
ConnectedAsAsked ==
  \A s \in Sock :
    /\ state[s] = "ok" /\ asked[s] # None =>
         /\ remote[s] # None
         /\ remote[s][1] \in {asked[s][1]} \cup
              IF asked[s][1] \in Host THEN HostIps[asked[s][1]] ELSE {}
         /\ remote[s][2] = asked[s][2]
    /\ remote[s] # None => ShownIp(s) = remote[s][1]
=============================================================================
