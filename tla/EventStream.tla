---------------------------- MODULE EventStream ----------------------------
(***************************************************************************)
(* A user's server-sent events from end to end: the in-process bus with    *)
(* its replay ring, the handler of one event stream, the frames in flight  *)
(* and the client that resumes with Last-Event-ID after a cut.             *)
(*                                                                         *)
(* An event is its id.  What it is for is to bring the client's caches up  *)
(* to date, so the client is judged by the ids its caches reflect: the     *)
(* events it applied, and all that was published before a resync made it   *)
(* fetch everything anew.                                                  *)
(***************************************************************************)
EXTENDS Filtering, Naturals, Sequences

CONSTANTS
  RingCap,    \* events the bus keeps for replay (defaultRingSize)
  ChanCap,    \* events a subscriber may lag behind (subscriberChanSize)
  MaxId,      \* bound on the ids issued
  MaxFaults   \* bound on cuts, ended streams and restarts

\* What the constants have to be.
ASSUME StreamAssumption ==
  /\ RingCap \in Nat \ {0} /\ ChanCap \in Nat \ {0}
  /\ MaxId \in Nat /\ MaxFaults \in Nat

VARIABLES
  highest,    \* the highest id issued to anybody
  user,       \* the user's state in the bus: known or not, firstID, nextID
  ring,       \* the events kept for replay, oldest first
  handler,    \* the handler of the user's stream: where it is, and its ids
  chan,       \* the subscriber's channel
  wire,       \* frames written and not yet read by the client
  open,       \* the client has a stream
  last,       \* lastEventId; 0 is the empty one
  published,  \* history: the ids issued to this user
  covered,    \* history: those the client's caches reflect
  excused,    \* history: those published before the latest stream that was
              \*          opened without an id
  faults      \* cuts, ended streams and restarts so far

vars == <<highest, user, ring, handler, chan, wire, open, last,
          published, covered, excused, faults>>

bus    == <<highest, user, ring, published>>
server == <<handler, chan>>
client == <<open, last, covered, excused>>

Ids       == 1..MaxId
Resync    == [type |-> "resync", id |-> 0]
Evt(e)    == [type |-> "event", id |-> e]
NoUser    == [known |-> FALSE, first |-> 0, next |-> 0]
NoHandler == [pc |-> "none", after |-> 0, dedup |-> 0, through |-> 0,
              latest |-> 0, replayed |-> <<>>]

User    == [known : BOOLEAN, first : 0..MaxId, next : 0..MaxId]
Handler == [pc : {"none", "resume", "check", "start", "live", "beat"},
            after : 0..MaxId, dedup : 0..MaxId, through : 0..MaxId,
            latest : 0..MaxId, replayed : Seq(Ids)]
Frame   == {Resync} \cup {Evt(e) : e \in Ids}

TypeOK ==
  /\ highest \in 0..MaxId
  /\ user \in User
  /\ ring \in Seq(Ids) /\ Len(ring) <= RingCap
  /\ handler \in Handler
  /\ chan \in Seq(Ids) /\ Len(chan) <= ChanCap
  /\ wire \in Seq(Frame)
  /\ open \in BOOLEAN
  /\ last \in 0..MaxId
  /\ covered \subseteq published /\ excused \subseteq published
  /\ published \subseteq Ids
  /\ faults \in 0..MaxFaults

Init ==
  /\ highest = 0
  /\ user = NoUser
  /\ ring = <<>>
  /\ handler = NoHandler
  /\ chan = <<>>
  /\ wire = <<>>
  /\ open = FALSE
  /\ last = 0
  /\ published = {}
  /\ covered = {}
  /\ excused = {}
  /\ faults = 0

Fault == faults < MaxFaults /\ faults' = faults + 1

-----------------------------------------------------------------------------
(* The bus                                                                 *)

Subscribed == handler.pc # "none"

\* getOrCreateUser: a user the bus does not know starts at the highest id.
LiveUser == IF user.known THEN user
            ELSE [known |-> TRUE, first |-> highest, next |-> highest]

\* The ring keeps the latest events and overwrites the oldest.
Kept(s) == IF Len(s) > RingCap THEN Tail(s) ELSE s

\* A subscriber whose channel is full does not get the event.
Publish ==
  LET e == LiveUser.next + 1 IN
  /\ e <= MaxId
  /\ user' = [LiveUser EXCEPT !.next = e]
  /\ highest' = IF e > highest THEN e ELSE highest
  /\ ring' = Kept(Append(ring, e))
  /\ chan' = IF Subscribed /\ Len(chan) < ChanCap THEN Append(chan, e) ELSE chan
  /\ published' = published \cup {e}
  /\ UNCHANGED <<handler, wire, client, faults>>

\* An event of another user moves the highest id.
PublishToOther ==
  /\ highest < MaxId
  /\ highest' = highest + 1
  /\ UNCHANGED <<user, ring, published, server, wire, client, faults>>

\* A user without a stream who was idle for userIdleTTL is forgotten.
EvictIdleUser ==
  /\ user.known
  /\ ~ Subscribed
  /\ user' = NoUser
  /\ ring' = <<>>
  /\ UNCHANGED <<highest, published, server, wire, client, faults>>

\* A new process knows no user. It issues ids above the persisted ceiling,
\* which is above every id issued (idFloor).
Restart ==
  /\ Fault
  /\ highest < MaxId
  /\ highest' = highest + 1
  /\ user' = NoUser
  /\ ring' = <<>>
  /\ handler' = NoHandler
  /\ chan' = <<>>
  /\ UNCHANGED <<wire, published, client>>

\* Replay: what the ring holds after an id.
Replay(after) == Only(ring, (after + 1)..MaxId)

-----------------------------------------------------------------------------
(* The client opens a stream, and the handler subscribes before it looks   *)
(* at what was missed. A handler of an earlier stream is done with.        *)

Connect ==
  /\ ~ open
  /\ open' = TRUE
  /\ user' = LiveUser
  /\ handler' = [NoHandler EXCEPT !.pc = "resume", !.after = last]
  /\ chan' = <<>>
  /\ wire' = <<>>
  /\ excused' = IF last = 0 THEN published ELSE excused
  /\ UNCHANGED <<highest, ring, published, last, covered, faults>>

-----------------------------------------------------------------------------
(* The handler                                                             *)

Write(frames) == wire' = wire \o frames

\* replayHistory, up to and including what it reads from the ring. An id
\* nobody was issued yet, which takes a lost id floor, is answered by a resync.
Resume ==
  /\ handler.pc = "resume"
  /\ LET after == handler.after IN
     \/ /\ after = 0 \/ after > highest
        /\ handler' = [handler EXCEPT !.pc = "start"]
        /\ Write(IF after = 0 THEN <<>> ELSE <<Resync>>)
     \/ /\ after # 0 /\ after <= highest
        /\ handler' = [handler EXCEPT !.pc = "check", !.replayed = Replay(after)]
        /\ UNCHANGED wire
  /\ UNCHANGED <<bus, chan, client, faults>>

\* Slip: the ring is taken to hold all that was missed.
NeverGapped(after, replayed) == after < user.first

\* ResumeGapped, which looks at the bus again, or replayGapped.
Gapped(after, replayed) ==
  \/ after < user.first
  \/ replayed # <<>> /\ Head(replayed) > after + 1

LastOf(replayed, after) ==
  IF replayed = <<>> THEN after ELSE replayed[Len(replayed)]

\* The rest of replay: resync, or the events the client has not seen.
CheckReplay ==
  /\ handler.pc = "check"
  /\ LET after == handler.after
         replayed == handler.replayed
     IN
     IF Gapped(after, replayed)
     THEN /\ Write(<<Resync>>)
          /\ handler' = [handler EXCEPT !.pc = "start", !.dedup = after,
                                        !.replayed = <<>>]
     ELSE /\ Write([i \in 1..Len(replayed) |-> Evt(replayed[i])])
          /\ handler' = [handler EXCEPT !.pc = "start", !.replayed = <<>>,
                           !.dedup = LastOf(replayed, after),
                           !.through = LastOf(replayed, after)]
  /\ UNCHANGED <<bus, chan, client, faults>>

\* startingID: where the stream stands when it begins.
Start ==
  /\ handler.pc = "start"
  /\ handler' = [handler EXCEPT !.pc = "live",
                   !.through = IF @ = 0 THEN user.next ELSE @]
  /\ UNCHANGED <<bus, chan, wire, client, faults>>

\* Slip: the replayed events are written a second time.
DeliveredAlreadyNever(e) == FALSE

DeliveredAlready(e) == e <= handler.dedup

StreamGapped(e) == handler.through # 0 /\ e > handler.through + 1

\* deliverLive: an event after a gap is preceded by a resync.
Deliver ==
  /\ handler.pc = "live"
  /\ chan # <<>>
  /\ chan' = Tail(chan)
  /\ LET e == Head(chan) IN
     IF DeliveredAlready(e)
     THEN UNCHANGED <<handler, wire>>
     ELSE /\ Write((IF StreamGapped(e) THEN <<Resync>> ELSE <<>>) \o <<Evt(e)>>)
          /\ handler' = [handler EXCEPT !.through = e]
  /\ UNCHANGED <<bus, client, faults>>

\* writeHeartbeat reads the latest id and then whether the channel is empty.
BeatRead ==
  /\ handler.pc = "live"
  /\ handler' = [handler EXCEPT !.pc = "beat", !.latest = user.next]
  /\ UNCHANGED <<bus, chan, wire, client, faults>>

\* Slip: a heartbeat only pings.
BeatPings ==
  /\ handler.pc = "beat"
  /\ handler' = [handler EXCEPT !.pc = "live", !.latest = 0]
  /\ UNCHANGED <<bus, chan, wire, client, faults>>

BeatCheck ==
  /\ handler.pc = "beat"
  /\ IF chan = <<>> /\ handler.latest > handler.through
     THEN /\ Write(<<Resync>>)
          /\ handler' = [handler EXCEPT !.pc = "live", !.latest = 0,
                                        !.through = handler.latest]
     ELSE /\ handler' = [handler EXCEPT !.pc = "live", !.latest = 0]
          /\ UNCHANGED wire
  /\ UNCHANGED <<bus, chan, client, faults>>

\* The handler returns: its client is gone, or its token expired, or the
\* server shuts down.
EndStream ==
  /\ Subscribed
  /\ IF open THEN Fault ELSE UNCHANGED faults
  /\ handler' = NoHandler
  /\ chan' = <<>>
  /\ UNCHANGED <<bus, wire, client>>

-----------------------------------------------------------------------------
(* The client                                                              *)

\* applyChunk, a frame at a time: an event is applied and its id kept; a
\* resync has no id and makes every query fetch again.
Receive ==
  /\ open
  /\ wire # <<>>
  /\ wire' = Tail(wire)
  /\ IF Head(wire) = Resync
     THEN covered' = published /\ UNCHANGED last
     ELSE /\ covered' = covered \cup {Head(wire).id}
          /\ last' = Head(wire).id
  /\ UNCHANGED <<bus, server, open, excused, faults>>

\* The stream is cut: a network error, the watchdog, the response cap, the
\* app in the background. What was not read is lost.
Cut ==
  /\ open
  /\ Fault
  /\ open' = FALSE
  /\ wire' = <<>>
  /\ UNCHANGED <<bus, server, last, covered, excused>>

\* The stream ended, and the client has read it to its end.
Ended ==
  /\ open
  /\ ~ Subscribed
  /\ wire = <<>>
  /\ open' = FALSE
  /\ UNCHANGED <<bus, server, wire, last, covered, excused, faults>>

-----------------------------------------------------------------------------

Handle == Resume \/ CheckReplay \/ Start \/ BeatRead \/ BeatCheck

Next ==
  \/ Publish \/ PublishToOther \/ EvictIdleUser \/ Restart
  \/ Connect \/ Receive \/ Cut \/ Ended
  \/ Handle \/ Deliver \/ EndStream

Spec == Init /\ [][Next]_vars

\* The client reconnects as long as it wants events, and reads what arrives;
\* the handler's loop goes on. Its select takes a ready event or a heartbeat
\* at random, so an event that is ready again and again is taken: strong
\* fairness.
Fairness ==
  /\ WF_vars(Connect) /\ WF_vars(Receive) /\ WF_vars(Ended)
  /\ WF_vars(Handle) /\ SF_vars(Deliver)

FairSpec == Spec /\ Fairness

-----------------------------------------------------------------------------
(* Properties                                                              *)

\* The id a client resumes from never runs ahead of its caches: whatever was
\* issued up to it was applied or covered by a resync, through full channels,
\* overwritten rings, forgotten users, restarts and cuts at any moment.
ResumePointIsHonest ==
  \A e \in published \ excused : e <= last => e \in covered

\* The client applies events in the order of their ids, and none twice.
EventsInOrder == [][last' # last => last' > last]_last

\* No event is lost for good: once published it is, in the end, applied or
\* covered by a resync, unless a stream opened without an id came after it.
CatchesUp ==
  \A e \in Ids : e \in published ~> e \in covered \cup excused
=============================================================================
