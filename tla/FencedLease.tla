---------------------------- MODULE FencedLease ----------------------------
(***************************************************************************)
(* What the job queue promises whoever works from it (ports.JobQueue): a   *)
(* lease on each resource that expires, and a fence, a number that grows   *)
(* with every grant and is carried by the holder. The lease alone excludes *)
(* nobody, since it may expire under a holder that goes on; the fence is   *)
(* what makes the late holder harmless: only the holder of the latest      *)
(* grant publishes.                                                        *)
(***************************************************************************)
EXTENDS Integers

CONSTANTS
  Resources,  \* what is leased: tracks
  Holders     \* who may hold a lease: workers

VARIABLES
  fence,      \* fence[r] : the number of the latest grant of r, or Gone
  live,       \* resources whose lease has not expired
  grant,      \* grant[h] : the resource h was granted, under which fence
  published   \* resources whose holder has published an outcome that stands

leaseVars == <<fence, live, grant, published>>

Gone    == -1
NoGrant == [resource |-> "none"]
Grant   == [resource : Resources, fence : Nat]

LeaseInit ==
  /\ fence = [r \in Resources |-> 0]
  /\ live = {}
  /\ grant = [h \in Holders |-> NoGrant]
  /\ published = {}

\* h carries the fence of the latest grant of r.
Current(h, r) == grant[h] # NoGrant /\ grant[h].resource = r /\ grant[h].fence = fence[r]

\* The lease of r is free or has expired: h gets it under a new fence.
Acquire(h, r) ==
  /\ grant[h] = NoGrant
  /\ fence[r] # Gone
  /\ r \notin live
  /\ fence' = [fence EXCEPT ![r] = @ + 1]
  /\ live' = live \cup {r}
  /\ grant' = [grant EXCEPT ![h] = [resource |-> r, fence |-> fence[r] + 1]]
  /\ UNCHANGED published

Expire(r) ==
  /\ live' = live \ {r}
  /\ UNCHANGED <<fence, grant, published>>

\* The current holder is fenced off, and the lease is free.
Revoke(r) ==
  /\ fence[r] # Gone
  /\ fence' = [fence EXCEPT ![r] = @ + 1]
  /\ live' = live \ {r}
  /\ UNCHANGED <<grant, published>>

\* h stops. Only the current holder frees the lease, and it need not.
Leave(h) ==
  /\ grant[h] # NoGrant
  /\ grant' = [grant EXCEPT ![h] = NoGrant]
  /\ \/ UNCHANGED live
     \/ Current(h, grant[h].resource) /\ live' = live \ {grant[h].resource}
  /\ UNCHANGED <<fence, published>>

\* Only the current holder publishes, whether its lease has expired or not.
Publish(h, r) ==
  /\ Current(h, r)
  /\ published' = published \cup {r}
  /\ UNCHANGED <<fence, live, grant>>

\* What was published may be taken back by anybody.
Withdraw(r) ==
  /\ published' = published \ {r}
  /\ UNCHANGED <<fence, live, grant>>

\* The resource ceases to exist: no fence is current ever after.
Retire(r) ==
  /\ fence' = [fence EXCEPT ![r] = Gone]
  /\ live' = live \ {r}
  /\ published' = published \ {r}
  /\ UNCHANGED grant

LeaseNext ==
  \/ \E h \in Holders : Leave(h)
  \/ \E h \in Holders, r \in Resources : Acquire(h, r) \/ Publish(h, r)
  \/ \E r \in Resources : Expire(r) \/ Revoke(r) \/ Withdraw(r) \/ Retire(r)

LeaseSpec == LeaseInit /\ [][LeaseNext]_leaseVars
=============================================================================
