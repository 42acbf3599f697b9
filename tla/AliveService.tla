---------------------------- MODULE AliveService ----------------------------
(***************************************************************************)
(* The relay's alive service (relay/alive_service.go): which hellos it     *)
(* publishes, and which address it takes for a private one.                *)
(*                                                                         *)
(* An IPv4 address is the sequence of its four numbers; <<>> is any        *)
(* address without one, and no address.  isInnerIp compares the second     *)
(* number with the bounds of 172.16.0.0/12 as text.                        *)
(*                                                                         *)
(* A definition that stands just before another one of the same shape is   *)
(* a variant with a defect, used only to show that the properties notice.  *)
(***************************************************************************)
EXTENDS Integers, Sequences

Digits(n) == IF n < 10 THEN <<n>>
             ELSE IF n < 100 THEN <<n \div 10, n % 10>>
             ELSE <<n \div 100, (n \div 10) % 10, n % 10>>

(* Go's <= on strings. *)
TextLeq(s, t) ==
  \/ s = t
  \/ \E i \in 1..Len(s) + 1 :
       /\ i <= Len(t)
       /\ \A j \in 1..i - 1 : s[j] = t[j]
       /\ i > Len(s) \/ s[i] < t[i]

(* The test for 172.16.0.0/12 that forgets the upper half of the range. *)
isInner172Low(b) == TextLeq(Digits(16), Digits(b)) /\ TextLeq(Digits(b), Digits(23))

isInner172(b) == TextLeq(Digits(16), Digits(b)) /\ TextLeq(Digits(b), Digits(31))

isInnerIp(addr) ==
  /\ addr # <<>>
  /\ \/ addr = <<127, 0, 0, 1>>
     \/ addr[1] = 10
     \/ addr[1] = 172 /\ isInner172(addr[2])
     \/ addr[1] = 169 /\ addr[2] = 254
     \/ addr[1] = 192 /\ addr[2] = 168

(* The address blocks that isInnerIp's comment names. *)
PrivateIp(addr) ==
  /\ addr # <<>>
  /\ \/ addr = <<127, 0, 0, 1>>
     \/ addr[1] = 10
     \/ addr[1] = 172 /\ addr[2] \in 16..31
     \/ addr[1] = 169 /\ addr[2] = 254
     \/ addr[1] = 192 /\ addr[2] = 168

(* Hello publishes the status of a node that others can reach. *)
Published(addr, hasRelay) == ~isInnerIp(addr) \/ hasRelay
=============================================================================
