------------------------------ MODULE Versions ------------------------------
(***************************************************************************)
(* How the agent compares versions: version.py for HACS repositories,      *)
(* service_policy.py for Core and the operating system.  A version is text *)
(* of which only the numbers count: "lead", the dotted numbers it begins   *)
(* with, and "rest", the ones after that, in a suffix ("1.2.3b4" has lead  *)
(* <<1, 2, 3>> and rest <<4>>, the commit "3fa9..." lead <<3>> and rest    *)
(* <<9>>).  NoVersion stands for Python's None.                            *)
(***************************************************************************)
EXTENDS Integers, Sequences

CONSTANTS Parts,      \* the numbers a version is made of
          MaxParts    \* bound: how many of them

ASSUME PartsAssumption == Parts \subseteq Nat /\ MaxParts \in Nat

Tuples == UNION {[1..n -> Parts] : n \in 0..MaxParts}
Texts == [lead : Tuples, rest : UNION {[1..n -> Parts] : n \in 0..1}]
NoVersion == [lead |-> <<>>, rest |-> <<>>]

(* The numbers a text begins with; <<>> is "does not parse".               *)
Parse(text) == text.lead
Parses(text) == Parse(text) # <<>>

(* A tuple with zeros after its end.                                       *)
At(t, i) == IF i \in DOMAIN t THEN t[i] ELSE 0
Longer(s, t) == IF Len(s) > Len(t) THEN Len(s) ELSE Len(t)

(* Mutant: Python's order of tuples, without the padding.                  *)
LessUnpadded(s, t) ==
  \/ \E i \in (DOMAIN s) \cap (DOMAIN t) :
       s[i] < t[i] /\ \A j \in 1..(i - 1) : s[j] = t[j]
  \/ Len(s) < Len(t) /\ \A i \in DOMAIN s : s[i] = t[i]

(* The order of two padded tuples.                                         *)
Less(s, t) ==
  \E i \in 1..Longer(s, t) :
    /\ At(s, i) < At(t, i)
    /\ \A j \in 1..(i - 1) : At(s, j) = At(t, j)

IsOlder(candidate, than) ==
  Parses(candidate) /\ Parses(than) /\ Less(Parse(candidate), Parse(than))

(* service_policy: every number of the text counts, suffix included.       *)
Numbers(text) == text.lead \o text.rest
VersionNewer(candidate, than) == Less(Numbers(than), Numbers(candidate))

(* "" when target may be installed over current, or why not.               *)
CheckUpgrade(current, target) ==
  IF Numbers(current) = <<>> THEN "unreadable"
  ELSE IF VersionNewer(target, current) THEN "" ELSE "not newer"

-----------------------------------------------------------------------------
(* What versions mean, without Python: "1.2" is "1.2.0", and a suffix      *)
(* makes an unfinished version of the one it follows.                      *)
Value(text) == [i \in 1..(MaxParts + 1) |-> At(text.lead, i)]
Finished(text) == text.rest = <<>>
Before(a, b) ==
  \/ \E i \in 1..(MaxParts + 1) :
       Value(a)[i] < Value(b)[i] /\ \A j \in 1..(i - 1) : Value(a)[j] = Value(b)[j]
  \/ Value(a) = Value(b) /\ ~Finished(a) /\ Finished(b)

(* version.py:31-33, service_policy.py:360-368.  What is called older is   *)
(* older, a strict order lets no version be older than itself in two       *)
(* steps, and check_upgrade never takes a finished target for an upgrade   *)
(* that is not one.  (The other way round it does not hold: from "1.2b3"   *)
(* to "1.2" is refused.)                                                   *)
ComparesTrue(a, b, c) ==
  /\ IsOlder(a, b) => Before(a, b)
  /\ Parses(a) /\ Parses(b) /\ Value(a) # Value(b) => IsOlder(a, b) \/ IsOlder(b, a)
  /\ IsOlder(a, b) /\ IsOlder(b, c) => IsOlder(a, c)
  /\ CheckUpgrade(a, b) = "" /\ Finished(b) => Before(a, b)
=============================================================================
