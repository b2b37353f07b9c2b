-------------------------- MODULE MCVariantRequests --------------------------
(* VariantSets on one instance: overlapping requests about one flag, or one *)
(* request at a time about two, between which an update may move a row.      *)
EXTENDS MCVariantSets

VARIABLE alone   \* requests come one at a time

FlagsInUse ==
  {variant[v].flag : v \in DOMAIN variant} \cup {rule[k].flag : k \in Rules}
    \cup {request[r].to.flag : r \in Requests}

Bound ==
  IF alone THEN \A r, q \in Requests : request[r] # Idle /\ request[q] # Idle => r = q
  ELSE FlagsInUse = {NoRow.flag}

MCInit == Init /\ alone \in BOOLEAN /\ Bound

MCSpec == MCInit /\ [][Next /\ UNCHANGED alone /\ Bound']_<<vars, alone>>
=============================================================================
