--------------------------- MODULE MCCallTracking ---------------------------
(* Instances of CallTracking for TLC. *)
EXTENDS CallTracking, TLC

CONSTANTS d1, d2, c1, c2

\* Extension d2 is numbered as the decimal code of the first character of d1's
\* number; no extension is numbered as the code of d2's.
CodeOf == [d \in Device |-> IF d = d1 THEN d2 ELSE NoDevice]
AllPlain == [d \in Device |-> NoDevice]

OnlyD1 == {d1}
Calls == Permutations(Call)

\* A state constraint that takes two slices of the space: only one extension has
\* calls, as many as it likes; or every extension takes part in the same call.
OnlyExtension(d) ==
  /\ \A e \in Device \ {d} : has[e] = {} /\ e \notin snapshots
  /\ \A i \in DOMAIN reports : reports[i].dev = d
Slice ==
  \/ \E d \in Device : OnlyExtension(d)
  \/ \E c \in Call : \A d \in Device : has[d] \subseteq {c}
=============================================================================
