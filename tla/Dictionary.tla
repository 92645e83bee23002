------------------------------ MODULE Dictionary ------------------------------
(***************************************************************************)
(* What a map of bounded size promises: a finite function from keys to     *)
(* values that only the operations change, each in the documented way.     *)
(* While there is Slack a new key is accepted; a map without any may also  *)
(* turn one down, and says so.                                             *)
(***************************************************************************)
EXTENDS Naturals, FiniteSets

CONSTANTS Keys, Values, Sizes

VARIABLES
  dict,       \* the function
  capacity,   \* the size of the table, 0 when there is none
  reply       \* what the last operation told its caller

dictVars == <<dict, capacity, reply>>

NoEntries == [k \in {} |-> 0]

Init == dict = NoEntries /\ capacity = 0 /\ reply = "none"

\* At most a quarter of the table is not available for a new key.
Slack == Cardinality(DOMAIN dict) < capacity - capacity \div 4

Put(k, v) ==
  /\ \/ /\ reply' = "updated"
        /\ k \in DOMAIN dict
        /\ dict' = [dict EXCEPT ![k] = v]
     \/ /\ reply' = "inserted"
        /\ k \notin DOMAIN dict
        /\ dict' = [x \in DOMAIN dict \cup {k} |-> IF x = k THEN v ELSE dict[x]]
     \/ /\ reply' = "refused"
        /\ k \notin DOMAIN dict /\ ~ Slack
        /\ UNCHANGED dict
  /\ UNCHANGED capacity

Remove(k) ==
  /\ reply' \in {"erased", "absent"}
  /\ reply' = "erased" <=> k \in DOMAIN dict
  /\ dict' = [x \in DOMAIN dict \ {k} |-> dict[x]]
  /\ UNCHANGED capacity

Empty == reply' = "none" /\ dict' = NoEntries /\ UNCHANGED capacity
Tidy  == reply' = "none" /\ UNCHANGED <<dict, capacity>>

\* The table comes, if there is memory for it, and goes.
Open(n) ==
  /\ capacity = 0
  /\ \/ capacity' = n /\ reply' = "none"
     \/ capacity' = 0 /\ reply' = "no memory"
  /\ UNCHANGED dict
Close == reply' = "none" /\ dict' = NoEntries /\ capacity' = 0

Next ==
  \/ \E k \in Keys, v \in Values : Put(k, v)
  \/ \E k \in Keys : Remove(k)
  \/ Empty \/ Tidy
  \/ \E n \in Sizes : Open(n)
  \/ Close

Spec == Init /\ [][Next]_dictVars

=============================================================================
