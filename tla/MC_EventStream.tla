--------------------------- MODULE MC_EventStream ---------------------------
(***************************************************************************)
(* Finite instances of the two halves of the event stream: what it carries *)
(* from the bus to the caches of the client (EventStream), and when the    *)
(* client opens, watches and reopens it (StreamClient).  They share no     *)
(* state: a behaviour is one of a single half, and the other one stays as  *)
(* it begins, where every property of it holds.                            *)
(*                                                                         *)
(* A ring of two and a channel of one overflow after three events, and     *)
(* five are enough to do so, resume and do so again.  Three clients make   *)
(* two changes of user.                                                    *)
(***************************************************************************)
EXTENDS EventStream, StreamClient

CONSTANT u2  \* one of two users, who are interchangeable

VARIABLE half

\* Only the client starts in more than one state.
MCInit ==
  /\ half \in {"stream", "client"}
  /\ Init /\ ClientInit
  /\ session # u2
  /\ half = "stream" => session = Nobody /\ active /\ enabled

MCNext ==
  \/ half = "stream" /\ Next /\ UNCHANGED <<half, clientVars>>
  \/ half = "client" /\ ClientNext /\ UNCHANGED <<half, vars>>

\* The fairness of the modules, for the half that runs.
MCSpec ==
  /\ MCInit /\ [][MCNext]_<<half, vars, clientVars>>
  /\ WF_vars(half = "stream" /\ Connect)
  /\ WF_vars(half = "stream" /\ Receive)
  /\ WF_vars(half = "stream" /\ Ended)
  /\ WF_vars(half = "stream" /\ Handle)
  /\ SF_vars(half = "stream" /\ Deliver)
  /\ \A c \in ClientIds :
       /\ WF_clientVars(half = "client" /\ LookUp(c))
       /\ WF_clientVars(half = "client" /\ Open(c))
       /\ WF_clientVars(half = "client" /\ ReconnectTimer(c))
=============================================================================
