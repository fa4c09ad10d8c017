------------------------------ MODULE FlowMap ------------------------------
(***************************************************************************)
(* What a flow table is meant to be: a function from flow entries to       *)
(* actions, changed by an operation at the entries it names and nowhere    *)
(* else.  FlowTable implements this as long as its entries are of one      *)
(* protocol.                                                               *)
(***************************************************************************)
EXTENDS Functions

CONSTANTS Entries, DefaultEntry, Actions, DefaultAction, ReverseOf(_)

VARIABLES
  rules,  \* the function
  call    \* the last operation and its arguments

vars == <<rules, call>>

Init == rules = [e \in {} |-> DefaultAction] /\ call = <<>>

With(f, e, a) == [x \in DOMAIN f \cup {e} |-> IF x = e THEN a ELSE f[x]]

Default ==
  /\ rules' = With(rules, DefaultEntry, DefaultAction)
  /\ call' = <<"defaultInsert">>

Set(e, a) ==
  /\ rules' = With(rules, e, a)
  /\ call' = <<"insert", e, a>>

SetBoth(e, a, b) ==
  /\ rules' = With(With(rules, e, a), ReverseOf(e), b)
  /\ call' = <<"dbInsert", e, a, b>>

Clear(e) ==
  /\ rules' = Restrict(rules, DOMAIN rules \ {e})
  /\ call' = <<"remove", e>>

Next ==
  \/ Default
  \/ \E e \in Entries :
       \/ Clear(e)
       \/ \E a \in Actions : Set(e, a) \/ \E b \in Actions : SetBoth(e, a, b)

Spec == Init /\ [][Next]_vars
=============================================================================
