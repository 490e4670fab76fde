-------------------------- MODULE MC_PlaybackQueue --------------------------
(***************************************************************************)
(* Finite instances of the two sides of the playback queue: the client's   *)
(* queue, with what is saved and rebuilt of it (SavedQueue), and the row   *)
(* the server keeps (QueueStates); and of another row that the server's    *)
(* requests and jobs write side by side, an artist's unreleased songs.     *)
(* They share no state: a behaviour is one of a single side, and the       *)
(* others stay as they begin.                                              *)
(*                                                                         *)
(* Three entries of two library tracks and a preview contain duplicates,   *)
(* previews before and after the current entry, and more than is saved.    *)
(* Three operations are an erasure between two saves, or two erasures that *)
(* cross and a save; seven ticks are longer than a tombstone is kept.  A   *)
(* lookup's build and the sweep's are two of one artist.                   *)
(***************************************************************************)
EXTENDS QueueStates, SavedQueue, UnreleasedBuilds

\* Queues of a single track: a save replaces a queue whose track it does not name.
SingleTracks == {<<t>> : t \in Library}

VARIABLE side

MCInit ==
  /\ side \in {"client", "server", "lists"}
  /\ QueueInit /\ Init /\ BuildsInit
  /\ side # "lists" => \A artist \in Artists : ~ stored[artist].known

MCNext ==
  \/ side = "client" /\ Operate /\ UNCHANGED <<side, vars, buildVars>>
  \/ side = "server" /\ Next /\ UNCHANGED <<side, queue, buildVars>>
  \/ side = "lists" /\ BuildsNext /\ UNCHANGED <<side, queue, vars>>

MCSpec == MCInit /\ [][MCNext]_<<side, queue, vars, buildVars>>
=============================================================================
