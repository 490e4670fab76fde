---------------------------- MODULE StreamProofs ----------------------------
(***************************************************************************)
(* What TLAPS proves of the two halves of the event stream: EventStream,   *)
(* for rings and channels of every size and any number of ids and faults,  *)
(* and StreamClient, for any number of users, clients and faults.          *)
(*                                                                         *)
(* EventStream: what is on the wire or in the channel is in the order of   *)
(* its ids, and every event on the wire comes after all that was published *)
(* before it or after a resync.  That holds when the event is written,     *)
(* since an event that the handler will not deliver any more is one that   *)
(* its channel was too full for, and then the next one it delivers leaves  *)
(* a gap behind the last one.  What is replayed has no gap: the ring holds *)
(* the latest ids without one, and what is above an id is what is left of  *)
(* them.                                                                   *)
(*                                                                         *)
(* StreamClient: whoever disconnects a client also takes its stream, its   *)
(* watchdog and its timer away, so that nothing of a client goes on that   *)
(* was not requested, but for a lookup; and a lookup's answer is dropped   *)
(* if nothing is requested any more.  Only the current client is ever      *)
(* requested, and it is as old as the session, so its token is the user's. *)
(***************************************************************************)
EXTENDS EventStream, StreamClient, FilteringProofs, TLAPS

-----------------------------------------------------------------------------
(* What the stream carries: the invariant                                  *)

\* The ids of a user only grow, and the ring holds the last of them.
BusInv ==
  /\ \A e \in published : e <= highest /\ (user.known => e <= user.next)
  /\ user.known => user.next <= highest
  /\ \A i \in 1..Len(ring) : ring[i] \in published
  /\ \A i \in 1..(Len(ring) - 1) : ring[i + 1] = ring[i] + 1
  /\ ring # <<>> => user.known /\ ring[Len(ring)] = user.next

\* The channel holds events that were published after the stream was opened.
ChanInv ==
  /\ \A i \in 1..Len(chan) : chan[i] \in published /\ handler.after < chan[i]
  /\ \A i, j \in 1..Len(chan) : i < j => chan[i] < chan[j]

\* The ids that a handler goes by were issued. Of what it has replayed, only an
\* event that is not written twice can be in the channel.
HandlerInv ==
  /\ {last, handler.after, handler.dedup} \subseteq published \cup {0}
  /\ handler.pc \in {"none", "resume", "check"} => handler.through = 0 /\ handler.dedup = 0
  /\ handler.pc = "check" => handler.after # 0
  /\ \A i \in 1..Len(chan) : handler.dedup < chan[i] \/ handler.through = handler.dedup

\* What is replayed is all that was published between two ids.
ReplayInv ==
  handler.pc = "check" =>
    /\ \A i \in 1..Len(handler.replayed) :
         handler.replayed[i] \in published /\ handler.after < handler.replayed[i]
    /\ \A i \in 1..(Len(handler.replayed) - 1) :
         handler.replayed[i + 1] = handler.replayed[i] + 1

Reached(e) == e \in covered \/ e \in excused

Carries(f) == \E i \in 1..Len(wire) : wire[i] = f

\* The event is reached, or will be when the client has read the wire.
Comes(e) == Reached(e) \/ Carries(Evt(e)) \/ Carries(Resync)

IsEvent(i) == wire[i] # Resync

\* The frames on the wire: events in the order of their ids, each after all that
\* was published before it.
WireInv ==
  /\ \A i \in 1..Len(wire) :
       wire[i] # Resync => wire[i].id \in published /\ wire[i] = Evt(wire[i].id)
  /\ open =>
       /\ \A i \in 1..Len(wire) : IsEvent(i) => last < wire[i].id
       /\ \A i, j \in 1..Len(wire) :
            i < j /\ IsEvent(i) /\ IsEvent(j) => wire[i].id < wire[j].id
       /\ \A i \in 1..Len(wire), e \in published :
            IsEvent(i) /\ e <= wire[i].id =>
              Reached(e) \/ \E j \in 1..i : wire[j] = Evt(e) \/ wire[j] = Resync

\* What the channel holds comes after what was read and written, but for what is
\* not written twice.
OrderInv ==
  open => \A i \in 1..Len(chan) : handler.dedup < chan[i] =>
    /\ last < chan[i]
    /\ \A j \in 1..Len(wire) : IsEvent(j) => wire[j].id < chan[i]

\* The event will be taken from the channel, or missed by it.
Ahead(e) == chan # <<>> /\ Head(chan) <= e

\* An event that does not come is still ahead, or far enough for its gap to be
\* found.
GapInv ==
  /\ open /\ handler.pc \in {"resume", "check"} => wire = <<>> /\ last = handler.after
  /\ open /\ handler.pc = "resume" /\ handler.after = 0 =>
       \A e \in published : e \in excused \/ Ahead(e)
  /\ open /\ handler.pc \in {"start", "live", "beat"} =>
       \A e \in published :
         /\ Comes(e) \/ Ahead(e) \/ (handler.through # 0 /\ handler.through < e)
         /\ e <= handler.dedup => Comes(e)

StreamInv ==
  /\ TypeOK /\ BusInv /\ ChanInv /\ HandlerInv /\ ReplayInv
  /\ WireInv /\ OrderInv /\ GapInv /\ ResumePointIsHonest

-----------------------------------------------------------------------------
(* What the prover is told of ids, frames and sequences                    *)

LEMMA FrameFacts ==
  /\ Resync \in Frame
  /\ \A e \in Ids : Evt(e) \in Frame
  /\ \A e : Evt(e).id = e /\ Evt(e) # Resync
  /\ \A d, e : Evt(d) = Evt(e) => d = e
<1>1. Resync.type = "resync"
  BY DEF Resync
<1>2. \A e : Evt(e).type = "event" /\ Evt(e).id = e
  BY DEF Evt
<1> QED BY <1>1, <1>2 DEF Frame

LEMMA IdFacts ==
  ASSUME TypeOK
  PROVE  /\ MaxId \in Nat /\ MaxFaults \in Nat /\ Ids \subseteq Nat /\ 0 \notin Ids
         /\ published \subseteq Nat
         /\ highest \in Nat /\ highest <= MaxId /\ last \in Nat
         /\ user.known \in BOOLEAN /\ user.next \in 0..MaxId /\ user.next \in Nat
         /\ handler.after \in Nat /\ handler.dedup \in Nat /\ handler.through \in Nat
         /\ handler.latest \in Nat /\ handler.replayed \in Seq(Ids)
         /\ faults \in Nat /\ faults <= MaxFaults
         /\ user \in User /\ handler \in Handler
         /\ chan \in Seq(Ids) /\ ring \in Seq(Ids) /\ wire \in Seq(Frame)
<1>1. user \in [known : BOOLEAN, first : 0..MaxId, next : 0..MaxId]
  BY DEF TypeOK, User
<1>2. /\ handler.after \in 0..MaxId /\ handler.dedup \in 0..MaxId /\ handler.through \in 0..MaxId
      /\ handler.latest \in 0..MaxId /\ handler.replayed \in Seq(Ids)
  BY DEF TypeOK, Handler
<1>3. MaxId \in Nat /\ MaxFaults \in Nat /\ Ids \subseteq Nat /\ 0 \notin Ids
  BY StreamAssumption DEF Ids
<1>4. highest \in 0..MaxId /\ last \in 0..MaxId /\ published \subseteq Ids /\ faults \in 0..MaxFaults
  BY DEF TypeOK
<1>5. \A x \in 0..MaxId : x \in Nat /\ x <= MaxId
  BY <1>3
<1>6. user.known \in BOOLEAN /\ user.next \in 0..MaxId
  BY <1>1
<1>7. faults \in Nat /\ faults <= MaxFaults
  BY <1>3, <1>4
<1>8. /\ user \in User /\ handler \in Handler
      /\ chan \in Seq(Ids) /\ ring \in Seq(Ids) /\ wire \in Seq(Frame)
  BY DEF TypeOK
<1> QED BY <1>2, <1>3, <1>4, <1>5, <1>6, <1>7, <1>8

\* The elements of a sequence of numbers that grow by one.
LEMMA Contiguous ==
  ASSUME NEW s \in Seq(Nat), \A i \in 1..(Len(s) - 1) : s[i + 1] = s[i] + 1
  PROVE  \A i \in 1..Len(s) : s[i] = s[1] + (i - 1)
<1>1. PICK N \in Nat : N = Len(s)
  OBVIOUS
<1>2. PICK T : T = {n \in 0..N : n = 0 \/ s[n] = s[1] + (n - 1)}
  OBVIOUS
<1>3. 0 \in T
  BY <1>2
<1>4. ASSUME NEW n \in T, n \in 0..(N - 1) PROVE n + 1 \in T
  <2>1. CASE n = 0
    <3>1. s[1] \in Nat
      BY <1>1, <1>4, <2>1
    <3> QED BY <1>2, <1>4, <2>1, <3>1
  <2>2. CASE n # 0
    <3>1. n \in 1..(N - 1) /\ n + 1 \in 0..N
      BY <1>4, <2>2
    <3>2. s[n] = s[1] + (n - 1) /\ s[n + 1] = s[n] + 1 /\ s[1] \in Nat
      BY <1>1, <1>2, <2>2, <3>1
    <3>3. s[n + 1] = s[1] + ((n + 1) - 1)
      BY <3>1, <3>2
    <3> QED BY <1>2, <3>1, <3>3
  <2> QED BY <2>1, <2>2
<1>5. 0..N \subseteq T
  BY <1>3, <1>4, UpTo
<1>6. ASSUME NEW i \in 1..N PROVE s[i] = s[1] + (i - 1)
  BY <1>2, <1>5
<1> QED BY <1>1, <1>6

\* What the ring holds after an id is all of it, in order.
LEMMA ReplayFacts ==
  ASSUME TypeOK, BusInv, NEW after \in Nat
  PROVE  /\ Replay(after) \in Seq(Ids)
         /\ \A i \in 1..Len(Replay(after)) :
              Replay(after)[i] \in published /\ after < Replay(after)[i]
         /\ \A i \in 1..(Len(Replay(after)) - 1) :
              Replay(after)[i + 1] = Replay(after)[i] + 1
<1>1. PICK S : S = (after + 1)..MaxId
  OBVIOUS
<1>2. PICK r : r = Only(ring, S)
  OBVIOUS
<1>3. Replay(after) = r
  BY <1>1, <1>2 DEF Replay
<1>4. r \in Seq(Ids) /\ Filters(ring, S, Len(ring), r)
  BY <1>2, IdFacts, OnlyKeeps
<1>5. PICK N \in Nat : N = Len(ring)
  BY IdFacts
<1>6. \A k \in 1..N : ring[k] \in Nat /\ ring[k] \in Ids /\ ring[k] = ring[1] + (k - 1)
  <2>1. ring \in Seq(Nat)
    BY IdFacts
  <2>2. \A k \in 1..N : ring[k] = ring[1] + (k - 1)
    BY <1>5, <2>1, Contiguous DEF BusInv
  <2>3. \A k \in 1..N : ring[k] \in Ids
    BY <1>5, IdFacts
  <2> QED BY <2>2, <2>3, IdFacts
<1>7. \A i \in 1..Len(r) : r[i] \in S /\ \E k \in 1..N : ring[k] = r[i]
  BY <1>4, <1>5 DEF Filters
<1>8. ASSUME NEW i \in 1..Len(r), NEW j \in 1..Len(r), i < j PROVE r[i] < r[j]
  <2>1. PICK k \in 1..N, l \in 1..N : k < l /\ ring[k] = r[i] /\ ring[l] = r[j]
    BY <1>4, <1>5, <1>8 DEF Filters
  <2>2. 1 \in 1..N /\ k \in Nat /\ l \in Nat
    BY <2>1
  <2>3. ring[1] \in Nat /\ ring[k] = ring[1] + (k - 1) /\ ring[l] = ring[1] + (l - 1)
    BY <1>6, <2>1, <2>2
  <2>4. ring[k] < ring[l]
    BY <2>1, <2>2, <2>3
  <2> QED BY <2>1, <2>4
<1>9. ASSUME NEW i \in 1..(Len(r) - 1) PROVE r[i + 1] = r[i] + 1
  <2>0. i \in 1..Len(r) /\ i + 1 \in 1..Len(r) /\ i < i + 1 /\ i \in Nat /\ Len(r) \in Nat
    BY <1>4
  <2>1. PICK k \in 1..N, l \in 1..N : k < l /\ ring[k] = r[i] /\ ring[l] = r[i + 1]
    BY <1>4, <1>5, <2>0 DEF Filters
  <2>2. k + 1 \in 1..N /\ 1 \in 1..N
    BY <2>1
  <2>3. ring[k + 1] = ring[k] + 1 /\ ring[k + 1] <= ring[l]
    <3>1. k \in Nat /\ l \in Nat /\ ring[1] \in Nat /\ (k + 1) - 1 = k
      BY <1>6, <2>1, <2>2
    <3>2. /\ ring[k] = ring[1] + (k - 1) /\ ring[l] = ring[1] + (l - 1)
          /\ ring[k + 1] = ring[1] + k
      BY <1>6, <2>1, <2>2, <3>1
    <3> QED BY <2>1, <3>1, <3>2
  <2>4. ring[k + 1] \in S
    <3>1. ring[k] \in S
      BY <1>7, <2>0, <2>1
    <3>2. ring[k + 1] \in Ids
      BY <1>6, <2>2
    <3>3. ring[k] \in Nat /\ after + 1 <= ring[k] /\ ring[k + 1] \in 1..MaxId
      BY <1>1, <1>6, <2>1, <3>1, <3>2 DEF Ids
    <3>4. MaxId \in Nat
      BY IdFacts
    <3> QED BY <1>1, <2>3, <3>3, <3>4
  <2>5. PICK m \in 1..Len(r) : r[m] = ring[k + 1]
    BY <1>4, <1>5, <2>2, <2>4 DEF Filters
  <2>6. r[m] = r[i] + 1 /\ r[m] <= r[i + 1] /\ r[i] \in Nat
    BY <1>6, <2>1, <2>3, <2>5
  <2>7. r[m] \in Nat /\ r[i + 1] \in Nat
    BY <1>6, <2>1, <2>6
  <2>8. m = i + 1
    <3>1. CASE m <= i
      <4>1. m = i \/ r[m] < r[i]
        BY <1>8, <2>0, <3>1
      <4> QED BY <2>6, <2>7, <4>1
    <3>2. CASE m > i + 1
      <4>1. r[i + 1] < r[m]
        BY <1>8, <2>0, <3>2
      <4> QED BY <2>6, <2>7, <4>1
    <3> QED BY <2>0, <3>1, <3>2
  <2> QED BY <2>6, <2>8
<1>10. ASSUME NEW i \in 1..Len(r) PROVE r[i] \in published /\ after < r[i]
  <2>1. PICK k \in 1..N : ring[k] = r[i]
    BY <1>7
  <2>2. ring[k] \in published
    BY <1>5 DEF BusInv
  <2>3. r[i] \in S
    BY <1>7
  <2>4. after < r[i]
    BY <1>1, <2>3, StreamAssumption
  <2> QED BY <2>1, <2>2, <2>4
<1> QED BY <1>3, <1>4, <1>9, <1>10

-----------------------------------------------------------------------------
(* Steps of the bus                                                        *)

\* Who is known, or starts at the highest id.
LEMMA LiveUserFacts ==
  ASSUME TypeOK, BusInv
  PROVE  /\ LiveUser \in User
         /\ LiveUser.known /\ LiveUser.next \in Nat /\ LiveUser.next <= highest
         /\ \A x \in published \cup {0} : x \in Nat /\ x <= LiveUser.next
         /\ ring # <<>> => LiveUser = user
<1>1. highest \in 0..MaxId /\ \A x \in published : x \in Nat
  BY IdFacts DEF TypeOK
<1>2. user \in User
  BY DEF TypeOK
<1>3. CASE user.known
  BY <1>1, <1>2, <1>3 DEF LiveUser, BusInv, User
<1>4. CASE ~ user.known
  <2>1. LiveUser.next = highest /\ LiveUser.known
    BY <1>4 DEF LiveUser
  <2>2. LiveUser \in User
    BY <1>1, <1>4 DEF LiveUser, User
  <2> QED BY <1>1, <1>4, <2>1, <2>2 DEF BusInv
<1> QED BY <1>3, <1>4

\* The ring after an event: the event follows the last one that is kept.
LEMMA RingGrows ==
  ASSUME TypeOK, BusInv, NEW e \in Ids, e = LiveUser.next + 1
  PROVE  /\ Kept(Append(ring, e)) \in Seq(Ids) /\ Len(Kept(Append(ring, e))) <= RingCap
         /\ \A i \in 1..Len(Kept(Append(ring, e))) :
              Kept(Append(ring, e))[i] \in published \cup {e}
         /\ \A i \in 1..(Len(Kept(Append(ring, e))) - 1) :
              Kept(Append(ring, e))[i + 1] = Kept(Append(ring, e))[i] + 1
         /\ Kept(Append(ring, e))[Len(Kept(Append(ring, e)))] = e
<1>1. ring \in Seq(Ids) /\ Len(ring) <= RingCap /\ RingCap \in Nat /\ RingCap # 0
  BY StreamAssumption DEF TypeOK
<1>2. PICK N \in Nat : N = Len(ring)
  BY <1>1
<1>3. Append(ring, e) \in Seq(Ids)
  BY <1>1
<1>4. PICK s \in Seq(Ids) : s = Append(ring, e)
  BY <1>3, Zenon
<1>5. Len(s) = N + 1 /\ s[N + 1] = e /\ \A i \in 1..N : s[i] = ring[i]
  BY <1>1, <1>2, <1>4
<1>6. \A i \in 1..(N + 1) : s[i] \in published \cup {e}
  <2>1. \A i \in 1..N : s[i] \in published
    BY <1>2, <1>5 DEF BusInv
  <2> QED BY <1>5, <2>1
<1>7. ASSUME NEW i \in 1..N PROVE s[i + 1] = s[i] + 1
  <2>1. CASE i = N
    <3>1. ring # <<>> /\ LiveUser = user /\ ring[N] = user.next
      BY <1>1, <1>2, <2>1, LiveUserFacts DEF BusInv
    <3> QED BY <1>5, <2>1, <3>1
  <2>2. CASE i # N
    <3>1. i \in 1..(N - 1) /\ i + 1 \in 1..N
      BY <2>2
    <3>2. ring[i + 1] = ring[i] + 1
      BY <1>2, <3>1 DEF BusInv
    <3> QED BY <1>5, <3>1, <3>2
  <2> QED BY <2>1, <2>2
<1>8. CASE Len(s) > RingCap
  <2>0. s # <<>> /\ Tail(s) \in Seq(Ids)
    BY <1>5
  <2>1. PICK t \in Seq(Ids) : t = Tail(s)
    BY <2>0, Zenon
  <2>2. Kept(Append(ring, e)) = t
    BY <1>4, <1>8, <2>1 DEF Kept
  <2>3. Len(t) = N /\ \A i \in 1..N : t[i] = s[i + 1]
    BY <1>5, <2>1
  <2>4. N \in 1..N /\ N <= RingCap
    BY <1>1, <1>2, <1>5, <1>8
  <2>5. \A i \in 1..N : i + 1 \in 1..(N + 1)
    OBVIOUS
  <2>6. \A i \in 1..N : t[i] \in published \cup {e}
    BY <1>6, <2>3, <2>5
  <2>7. \A i \in 1..(N - 1) : i \in 1..N /\ i + 1 \in 1..N
    OBVIOUS
  <2>8. \A i \in 1..(N - 1) : t[i + 1] = t[i] + 1
    BY <1>7, <2>3, <2>7
  <2> QED BY <1>5, <2>2, <2>3, <2>4, <2>6, <2>8
<1>9. CASE Len(s) <= RingCap
  <2>1. Kept(Append(ring, e)) = s
    BY <1>1, <1>4, <1>5, <1>9 DEF Kept
  <2> QED BY <1>5, <1>6, <1>7, <1>9, <2>1
<1> QED BY <1>1, <1>5, <1>8, <1>9

\* The channel after an event: whoever has a stream has something ahead.
LEMMA ChanGrows ==
  ASSUME TypeOK, NEW e \in Ids,
         chan' = IF Subscribed /\ Len(chan) < ChanCap THEN Append(chan, e) ELSE chan
  PROVE  /\ chan' \in Seq(Ids) /\ Len(chan') <= ChanCap
         /\ chan # <<>> => chan' # <<>> /\ Head(chan') = Head(chan)
         /\ Subscribed => chan' # <<>> /\ (Head(chan') = e \/ chan # <<>>)
         /\ \A i \in 1..Len(chan') : (i \in 1..Len(chan) /\ chan'[i] = chan[i])
                                     \/ (i = Len(chan) + 1 /\ chan'[i] = e)
<1>1. chan \in Seq(Ids) /\ Len(chan) <= ChanCap /\ ChanCap \in Nat /\ ChanCap # 0
  BY StreamAssumption DEF TypeOK
<1>2. CASE Subscribed /\ Len(chan) < ChanCap
  <2>1. Append(chan, e) \in Seq(Ids)
    BY <1>1
  <2>2. PICK s \in Seq(Ids) : s = Append(chan, e)
    BY <2>1, Zenon
  <2>3. chan' = s
    BY <1>2, <2>2
  <2>4. PICK N \in Nat : N = Len(chan)
    BY <1>1
  <2>5. Len(s) = N + 1 /\ s[N + 1] = e /\ \A i \in 1..N : s[i] = chan[i]
    BY <1>1, <2>2, <2>4
  <2>6. s # <<>> /\ Head(s) = s[1]
    BY <2>5
  <2>7. chan # <<>> => Head(chan) = chan[1] /\ 1 \in 1..N
    BY <1>1, <2>4
  <2>8. chan = <<>> => N = 0
    BY <2>4
  <2>9. \A i \in 1..(N + 1) : i \in 1..N \/ i = N + 1
    OBVIOUS
  <2>10. N + 1 <= ChanCap
    BY <1>1, <1>2, <2>4
  <2>11. chan' # <<>> /\ (Head(chan') = e \/ chan # <<>>)
    BY <2>3, <2>5, <2>6, <2>8
  <2>12. chan # <<>> => Head(chan') = Head(chan)
    BY <2>3, <2>5, <2>6, <2>7
  <2>13. \A i \in 1..Len(chan') : (i \in 1..Len(chan) /\ chan'[i] = chan[i])
                                  \/ (i = Len(chan) + 1 /\ chan'[i] = e)
    BY <2>3, <2>4, <2>5, <2>9
  <2> QED BY <2>3, <2>5, <2>10, <2>11, <2>12, <2>13
<1>3. CASE ~ (Subscribed /\ Len(chan) < ChanCap)
  <2>1. chan' = chan
    BY <1>3
  <2>2. Subscribed => chan # <<>>
    BY <1>1, <1>3
  <2> QED BY <1>1, <2>1, <2>2
<1> QED BY <1>2, <1>3

LEMMA PublishKeepsInv ==
  ASSUME StreamInv, Publish
  PROVE  StreamInv'
<1> USE DEF StreamInv
<1>1. PICK e : e = LiveUser.next + 1
  OBVIOUS
<1>2. /\ e <= MaxId
      /\ user' = [LiveUser EXCEPT !.next = e]
      /\ highest' = IF e > highest THEN e ELSE highest
      /\ ring' = Kept(Append(ring, e))
      /\ chan' = IF Subscribed /\ Len(chan) < ChanCap THEN Append(chan, e) ELSE chan
      /\ published' = published \cup {e}
      /\ UNCHANGED <<handler, wire, open, last, covered, excused, faults>>
  BY <1>1 DEF Publish, client
<1>3. e \in Ids /\ e \in Nat /\ \A x \in published \cup {0} : x \in Nat /\ x < e
  <2>1. e \in Nat /\ e > 0 /\ \A x \in published \cup {0} : x \in Nat /\ x < e
    BY <1>1, LiveUserFacts
  <2> QED BY <1>2, <2>1, IdFacts DEF Ids
<1>4. /\ chan' \in Seq(Ids) /\ Len(chan') <= ChanCap
      /\ chan # <<>> => chan' # <<>> /\ Head(chan') = Head(chan)
      /\ Subscribed => chan' # <<>> /\ (Head(chan') = e \/ chan # <<>>)
      /\ \A i \in 1..Len(chan') : (i \in 1..Len(chan) /\ chan'[i] = chan[i])
                                  \/ (i = Len(chan) + 1 /\ chan'[i] = e)
  BY <1>2, <1>3, ChanGrows
<1>5. /\ ring' \in Seq(Ids) /\ Len(ring') <= RingCap
      /\ \A i \in 1..Len(ring') : ring'[i] \in published \cup {e}
      /\ \A i \in 1..(Len(ring') - 1) : ring'[i + 1] = ring'[i] + 1
      /\ ring'[Len(ring')] = e
  BY <1>1, <1>2, <1>3, RingGrows
<1>6. highest' \in 0..MaxId /\ e <= highest' /\ highest <= highest'
  <2>1. /\ MaxId \in Nat /\ highest \in Nat /\ highest <= MaxId
        /\ e \in Nat /\ e <= MaxId
    BY <1>2, <1>3, IdFacts
  <2>2. (highest' = e /\ highest < e) \/ (highest' = highest /\ e <= highest)
    BY <1>2, <2>1
  <2> QED BY <2>1, <2>2
<1>7. user' \in User
      /\ user'.known /\ user'.next = e
  <2>1. PICK u \in User :
          u = LiveUser /\ u.known
    BY LiveUserFacts
  <2>2. user' = [u EXCEPT !.next = e] /\ e \in 0..MaxId
    BY <1>2, <1>3, <2>1 DEF Ids
  <2> QED BY <2>1, <2>2 DEF User
<1>8. last \in published \cup {0} /\ handler.after \in published \cup {0}
      /\ handler.dedup \in published \cup {0}
  BY DEF HandlerInv
<1>9. TypeOK'
  BY <1>2, <1>3, <1>4, <1>5, <1>6, <1>7 DEF TypeOK
<1>10. BusInv'
  <2>1. \A x \in published' : x <= highest' /\ x <= e
    BY <1>2, <1>3, <1>6, IdFacts DEF BusInv
  <2> QED BY <1>2, <1>5, <1>6, <1>7, <2>1 DEF BusInv
<1>11. ASSUME NEW i \in 1..Len(chan')
       PROVE  /\ chan'[i] \in published' /\ handler.after < chan'[i]
              /\ handler.dedup < chan'[i] \/ handler.through = handler.dedup
  <2>1. CASE chan'[i] = e
    BY <1>2, <1>3, <1>8, <2>1
  <2>2. CASE i \in 1..Len(chan) /\ chan'[i] = chan[i]
    BY <1>2, <2>2 DEF ChanInv, HandlerInv
  <2> QED BY <1>4, <2>1, <2>2
<1>12. ASSUME NEW i \in 1..Len(chan'), NEW j \in 1..Len(chan'), i < j
       PROVE  chan'[i] < chan'[j]
  <2>1. Len(chan) \in Nat
    BY IdFacts
  <2>2. i \in 1..Len(chan) /\ chan'[i] = chan[i]
    BY <1>4, <1>12, <2>1
  <2>3. CASE chan'[j] = e
    BY <1>3, <2>2, <2>3 DEF ChanInv
  <2>4. CASE j \in 1..Len(chan) /\ chan'[j] = chan[j]
    BY <1>12, <2>2, <2>4 DEF ChanInv
  <2> QED BY <1>4, <2>3, <2>4
<1>13. ChanInv'
  BY <1>2, <1>11, <1>12 DEF ChanInv
<1>14. HandlerInv'
  BY <1>2, <1>11 DEF HandlerInv
<1>15. ReplayInv'
  BY <1>2 DEF ReplayInv
<1>16. \A i \in 1..Len(wire) : IsEvent(i) => wire[i].id < e
  BY <1>3 DEF WireInv, IsEvent
<1>17. WireInv'
  <2>1. \A i \in 1..Len(wire) : wire[i] # Resync => wire[i].id \in published' /\ wire[i] = Evt(wire[i].id)
    BY <1>2 DEF WireInv
  <2>2. ASSUME NEW i \in 1..Len(wire), NEW x \in published', open, IsEvent(i), x <= wire[i].id
        PROVE  Reached(x) \/ \E j \in 1..i : wire[j] = Evt(x) \/ wire[j] = Resync
    <3>1. wire[i].id \in published /\ wire[i].id < e
      BY <1>16, <2>2 DEF WireInv, IsEvent
    <3>2. x # e
      BY <1>3, <2>2, <3>1
    <3>3. x \in published
      BY <1>2, <3>2
    <3> QED BY <2>2, <3>3 DEF WireInv
  <2> QED BY <1>2, <2>1, <2>2 DEF WireInv, IsEvent, Reached
<1>18. OrderInv'
  <2>1. ASSUME open, NEW i \in 1..Len(chan'), handler.dedup < chan'[i]
        PROVE  last < chan'[i] /\ \A j \in 1..Len(wire) : IsEvent(j) => wire[j].id < chan'[i]
    <3>1. CASE chan'[i] = e
      BY <1>3, <1>8, <1>16, <3>1
    <3>2. CASE i \in 1..Len(chan) /\ chan'[i] = chan[i]
      BY <2>1, <3>2 DEF OrderInv
    <3> QED BY <1>4, <3>1, <3>2
  <2> QED BY <1>2, <2>1 DEF OrderInv, IsEvent
<1>19. ASSUME Subscribed
       PROVE  chan' # <<>> /\ Head(chan') <= e
              /\ \A x : Ahead(x) => Head(chan') <= x
  <2>1. chan # <<>> => Head(chan) = chan[1] /\ 1 \in 1..Len(chan)
    BY IdFacts
  <2>2. chan # <<>> => Head(chan) <= e
    BY <1>3, <2>1 DEF ChanInv
  <2> QED BY <1>3, <1>4, <1>19, <2>2 DEF Ahead
<1>20. GapInv'
  <2>1. ASSUME open, handler.pc = "resume", handler.after = 0, NEW x \in published'
        PROVE  x \in excused \/ Ahead(x)'
    <3>1. Subscribed
      BY <2>1 DEF Subscribed
    <3> QED BY <1>2, <1>19, <2>1, <3>1 DEF GapInv, Ahead
  <2>2. ASSUME open, handler.pc \in {"start", "live", "beat"}, NEW x \in published'
        PROVE  /\ Comes(x) \/ Ahead(x)' \/ (handler.through # 0 /\ handler.through < x)
               /\ x <= handler.dedup => Comes(x)
    <3>1. Subscribed
      BY <2>2 DEF Subscribed
    <3>2. CASE x = e
      <4>1. ~ (x <= handler.dedup)
        BY <1>3, <1>8, <3>2
      <4>2. Ahead(x)'
        BY <1>19, <3>1, <3>2 DEF Ahead
      <4> QED BY <4>1, <4>2
    <3>3. CASE x # e
      <4>1. x \in published
        BY <1>2, <3>3
      <4>2. Ahead(x) => Ahead(x)'
        BY <1>19, <3>1 DEF Ahead
      <4> QED BY <2>2, <4>1, <4>2 DEF GapInv
    <3> QED BY <3>2, <3>3
  <2>3. \A x : Comes(x)' <=> Comes(x)
    BY <1>2 DEF Comes, Carries, Reached
  <2>4. open' = open /\ handler' = handler /\ wire' = wire /\ last' = last /\ excused' = excused
    BY <1>2
  <2>5. open /\ handler.pc \in {"resume", "check"} => wire = <<>> /\ last = handler.after
    BY DEF GapInv
  <2> QED BY <2>1, <2>2, <2>3, <2>4, <2>5 DEF GapInv
<1>21. ResumePointIsHonest'
  <2>1. ~ (e <= last)
    BY <1>3, <1>8
  <2> QED BY <1>2, <2>1 DEF ResumePointIsHonest
<1> QED BY <1>9, <1>10, <1>13, <1>14, <1>15, <1>17, <1>18, <1>20, <1>21

\* Steps that only touch what the bus knows.
LEMMA BusAloneKeepsInv ==
  ASSUME StreamInv, UNCHANGED <<handler, chan, wire, open, last, published, covered, excused>>,
         highest' \in 0..MaxId, highest <= highest', faults' \in 0..MaxFaults,
         \/ UNCHANGED <<user, ring>>
         \/ user' = NoUser /\ ring' = <<>>
  PROVE  StreamInv'
<1> USE DEF StreamInv
<1>1. user' \in User /\ (user'.known => user' = user)
      /\ ring' \in Seq(Ids) /\ Len(ring') <= RingCap /\ (ring' # <<>> => user' = user)
      /\ (Len(ring') = 0 \/ ring' = ring)
  <2>1. /\ user \in User
        /\ ring \in Seq(Ids) /\ Len(ring) <= RingCap /\ RingCap \in Nat /\ MaxId \in Nat
    BY StreamAssumption DEF TypeOK
  <2>2. NoUser \in User /\ ~ NoUser.known
    BY <2>1 DEF NoUser, User
  <2>3. <<>> \in Seq(Ids) /\ Len(<<>>) = 0
    OBVIOUS
  <2>4. CASE UNCHANGED <<user, ring>>
    BY <2>1, <2>4
  <2>5. CASE user' = NoUser /\ ring' = <<>>
    BY <2>1, <2>2, <2>3, <2>5
  <2> QED BY <2>4, <2>5
<1>2. highest \in Nat /\ highest' \in Nat /\ published \subseteq Nat
  BY StreamAssumption, IdFacts
<1>3. TypeOK'
  <2>1. /\ handler \in Handler /\ chan \in Seq(Ids) /\ Len(chan) <= ChanCap
        /\ wire \in Seq(Frame) /\ open \in BOOLEAN /\ last \in 0..MaxId
        /\ covered \subseteq published /\ excused \subseteq published /\ published \subseteq Ids
    BY DEF TypeOK
  <2>2. user' \in User /\ ring' \in Seq(Ids) /\ Len(ring') <= RingCap
    BY <1>1
  <2> QED BY <2>1, <2>2 DEF TypeOK
<1>4. BusInv'
  <2>1. \A x \in published : x <= highest /\ x <= highest' /\ (user.known => x <= user.next)
    BY <1>2 DEF BusInv
  <2>2. user'.known => user'.next <= highest'
    <3>1. user.known => user.next \in Nat /\ user.next <= highest
      BY IdFacts DEF BusInv
    <3>2. user.known => user.next <= highest'
      BY <1>2, <3>1
    <3>3. user'.known => user.known /\ user'.next = user.next
      BY <1>1
    <3> QED BY <3>2, <3>3
  <2>6. \A x \in published : user'.known => x <= user'.next
    <3>1. user'.known => user.known /\ user'.next = user.next
      BY <1>1
    <3> QED BY <2>1, <3>1
  <2>3. \A i \in 1..Len(ring') : ring'[i] \in published
    BY <1>1 DEF BusInv
  <2>4. \A i \in 1..(Len(ring') - 1) : ring'[i + 1] = ring'[i] + 1
    BY <1>1 DEF BusInv
  <2>5. ring' # <<>> => user'.known /\ ring'[Len(ring')] = user'.next
    BY <1>1 DEF BusInv
  <2> QED BY <2>1, <2>2, <2>3, <2>4, <2>5, <2>6 DEF BusInv
<1>5. ChanInv' /\ HandlerInv' /\ ReplayInv' /\ ResumePointIsHonest'
  BY DEF ChanInv, HandlerInv, ReplayInv, ResumePointIsHonest
<1>6. WireInv' /\ OrderInv' /\ GapInv'
  BY DEF WireInv, OrderInv, GapInv, Comes, Carries, Reached, Ahead, IsEvent
<1> QED BY <1>3, <1>4, <1>5, <1>6

\* Steps after which nobody handles the stream.
LEMMA NoHandlerKeepsInv ==
  ASSUME StreamInv, handler' = NoHandler, chan' = <<>>,
         UNCHANGED <<wire, open, last, published, covered, excused>>,
         TypeOK', BusInv'
  PROVE  StreamInv'
<1> USE DEF StreamInv
<1>1. /\ handler'.pc = "none" /\ handler'.after = 0 /\ handler'.dedup = 0
      /\ handler'.through = 0 /\ Len(chan') = 0
  BY DEF NoHandler
<1>2. ChanInv' /\ ReplayInv' /\ ResumePointIsHonest'
  BY <1>1 DEF ChanInv, ReplayInv, ResumePointIsHonest
<1>3. HandlerInv'
  BY <1>1 DEF HandlerInv
<1>4. WireInv' /\ OrderInv'
  BY <1>1 DEF WireInv, OrderInv, Reached, IsEvent
<1>5. GapInv'
  BY <1>1 DEF GapInv
<1> QED BY <1>2, <1>3, <1>4, <1>5

\* A fault is counted.
LEMMA StreamFaultIsTyped ==
  ASSUME TypeOK, Fault
  PROVE  faults' \in 0..MaxFaults
BY StreamAssumption DEF TypeOK, Fault

LEMMA NoHandlerIsTyped ==
  NoHandler \in Handler /\ <<>> \in Seq(Ids)
<1>1. 0 \in 0..MaxId /\ <<>> \in Seq(Ids)
  BY StreamAssumption
<1> QED BY <1>1 DEF NoHandler, Handler

LEMMA RestartKeepsInv ==
  ASSUME StreamInv, Restart
  PROVE  StreamInv'
<1> USE DEF StreamInv
<1>1. faults' \in 0..MaxFaults /\ highest' \in 0..MaxId
  <2>1. highest' \in 0..MaxId
    <3>1. highest \in Nat /\ MaxId \in Nat /\ highest < MaxId /\ highest' = highest + 1
      BY IdFacts DEF Restart
    <3> QED BY <3>1
  <2>2. faults' \in 0..MaxFaults
    BY StreamFaultIsTyped DEF Restart
  <2> QED BY <2>1, <2>2
<1>2. user' = NoUser /\ ring' = <<>> /\ handler' = NoHandler /\ chan' = <<>>
      /\ UNCHANGED <<wire, open, last, published, covered, excused>>
  BY DEF Restart, client
<1>3. NoUser \in User /\ ~ NoUser.known
  BY StreamAssumption DEF NoUser, User
<1>4. TypeOK'
  <2>1. Len(<<>>) <= RingCap /\ Len(<<>>) <= ChanCap /\ <<>> \in Seq(Ids)
    BY StreamAssumption
  <2>2. TypeOK
    OBVIOUS
  <2> QED BY <1>1, <1>2, <1>3, <2>1, <2>2, NoHandlerIsTyped DEF TypeOK
<1>5. BusInv'
  <2>1. \A x \in published : x <= highest'
    BY IdFacts DEF BusInv, Restart
  <2> QED BY <1>2, <1>3, <2>1 DEF BusInv
<1> QED BY <1>2, <1>4, <1>5, NoHandlerKeepsInv

LEMMA EndStreamKeepsInv ==
  ASSUME StreamInv, EndStream
  PROVE  StreamInv'
<1> USE DEF StreamInv
<1>1. faults' \in 0..MaxFaults
  BY StreamFaultIsTyped DEF EndStream, TypeOK
<1>2. handler' = NoHandler /\ chan' = <<>>
      /\ UNCHANGED <<highest, user, ring, published, wire, open, last, covered, excused>>
  BY DEF EndStream, client, bus
<1>3. TypeOK'
  <2>1. Len(<<>>) <= ChanCap /\ <<>> \in Seq(Ids)
    BY StreamAssumption
  <2>2. TypeOK
    OBVIOUS
  <2> QED BY <1>1, <1>2, <2>1, <2>2, NoHandlerIsTyped DEF TypeOK
<1>4. BusInv'
  BY <1>2 DEF BusInv
<1> QED BY <1>2, <1>3, <1>4, NoHandlerKeepsInv

LEMMA BusKeepsInv ==
  ASSUME StreamInv, PublishToOther \/ EvictIdleUser
  PROVE  StreamInv'
<1> USE DEF StreamInv
<1>1. highest' \in 0..MaxId /\ highest <= highest'
  <2>1. highest \in Nat /\ MaxId \in Nat /\ highest <= MaxId
    BY IdFacts
  <2>2. highest' = highest \/ (highest < MaxId /\ highest' = highest + 1)
    BY DEF PublishToOther, EvictIdleUser
  <2> QED BY <2>1, <2>2
<1>2. UNCHANGED <<handler, chan, wire, open, last, published, covered, excused>>
      /\ faults' \in 0..MaxFaults
  BY DEF PublishToOther, EvictIdleUser, client, server, TypeOK
<1> QED BY <1>1, <1>2, BusAloneKeepsInv DEF PublishToOther, EvictIdleUser

-----------------------------------------------------------------------------
(* Steps of the client                                                     *)

LEMMA ConnectKeepsInv ==
  ASSUME StreamInv, Connect
  PROVE  StreamInv'
<1> USE DEF StreamInv
<1>1. /\ open' = TRUE /\ user' = LiveUser /\ chan' = <<>> /\ wire' = <<>>
      /\ excused' = IF last = 0 THEN published ELSE excused
      /\ UNCHANGED <<highest, ring, published, last, covered, faults>>
  BY DEF Connect
<1>2. /\ handler' \in Handler /\ handler'.pc = "resume" /\ handler'.after = last
      /\ handler'.dedup = 0 /\ handler'.through = 0
  <2>1. last \in 0..MaxId /\ handler' = [NoHandler EXCEPT !.pc = "resume", !.after = last]
    BY DEF Connect, TypeOK
  <2> QED BY <2>1, NoHandlerIsTyped DEF Handler, NoHandler
<1>3. Len(chan') = 0 /\ Len(wire') = 0 /\ chan' \in Seq(Ids) /\ wire' \in Seq(Frame)
  BY <1>1
<1>4. /\ user' \in User /\ user'.known /\ user'.next <= highest
      /\ \A x \in published : x <= user'.next
      /\ ring # <<>> => user' = user
  BY <1>1, LiveUserFacts
<1>5. TypeOK'
  <2>1. 0 <= ChanCap
    BY StreamAssumption
  <2> QED BY <1>1, <1>2, <1>3, <1>4, <2>1 DEF TypeOK
<1>6. BusInv'
  BY <1>1, <1>4 DEF BusInv
<1>7. ChanInv' /\ ReplayInv' /\ OrderInv'
  BY <1>1, <1>2, <1>3 DEF ChanInv, ReplayInv, OrderInv
<1>8. HandlerInv'
  BY <1>1, <1>2, <1>3 DEF HandlerInv
<1>9. WireInv'
  BY <1>1, <1>3 DEF WireInv
<1>10. GapInv'
  BY <1>1, <1>2 DEF GapInv
<1>11. ResumePointIsHonest'
  BY <1>1 DEF ResumePointIsHonest
<1> QED BY <1>5, <1>6, <1>7, <1>8, <1>9, <1>10, <1>11

\* A client without a stream has nothing on the wire.
LEMMA CloseKeepsInv ==
  ASSUME StreamInv, Cut \/ Ended
  PROVE  StreamInv'
<1> USE DEF StreamInv
<1>1. open' = FALSE /\ wire' = <<>> /\ faults' \in 0..MaxFaults
      /\ UNCHANGED <<highest, user, ring, handler, chan, last, published, covered, excused>>
  BY StreamFaultIsTyped DEF Cut, Ended, bus, server, TypeOK
<1>2. Len(wire') = 0 /\ wire' \in Seq(Frame)
  BY <1>1
<1>3. TypeOK'
  BY <1>1, <1>2 DEF TypeOK
<1>4. BusInv' /\ ChanInv' /\ HandlerInv' /\ ReplayInv' /\ ResumePointIsHonest'
  BY <1>1 DEF BusInv, ChanInv, HandlerInv, ReplayInv, ResumePointIsHonest
<1>5. WireInv' /\ OrderInv' /\ GapInv'
  BY <1>1, <1>2 DEF WireInv, OrderInv, GapInv
<1> QED BY <1>3, <1>4, <1>5

\* The frames after the first.
LEMMA WireShrinks ==
  ASSUME TypeOK, wire # <<>>, wire' = Tail(wire)
  PROVE  /\ wire' \in Seq(Frame) /\ Head(wire) = wire[1] /\ Head(wire) \in Frame
         /\ 1 \in 1..Len(wire)
         /\ \A i \in 1..Len(wire') : i + 1 \in 1..Len(wire) /\ wire'[i] = wire[i + 1] /\ 1 < i + 1
         /\ \A i \in 1..Len(wire) : i = 1 \/ (i - 1 \in 1..Len(wire') /\ wire'[i - 1] = wire[i])
<1>1. wire \in Seq(Frame)
  BY DEF TypeOK
<1>2. PICK N \in Nat : N = Len(wire)
  BY <1>1
<1>3. N # 0 /\ wire' \in Seq(Frame) /\ Head(wire) = wire[1] /\ Head(wire) \in Frame
  BY <1>1, <1>2
<1>4. Len(wire') = N - 1 /\ \A i \in 1..(N - 1) : wire'[i] = wire[i + 1]
  BY <1>1, <1>2
<1>5. \A i \in 1..N : i = 1 \/ (i - 1 \in 1..(N - 1) /\ (i - 1) + 1 = i)
  BY <1>3
<1>6. 1 \in 1..N /\ \A i \in 1..(N - 1) : i + 1 \in 1..N /\ 1 < i + 1
  BY <1>3
<1>7. ASSUME NEW i \in 1..N, i # 1 PROVE i - 1 \in 1..(N - 1) /\ wire'[i - 1] = wire[i]
  BY <1>4, <1>5, <1>7
<1> QED BY <1>2, <1>3, <1>4, <1>6, <1>7

\* A resync: the caches are as new.
LEMMA ResyncKeepsInv ==
  ASSUME StreamInv, Receive, Head(wire) = Resync
  PROVE  StreamInv'
<1> USE DEF StreamInv
<1>1. /\ open /\ wire # <<>> /\ wire' = Tail(wire) /\ covered' = published
      /\ UNCHANGED <<highest, user, ring, published, handler, chan, open, last, excused, faults>>
  BY DEF Receive, bus, server
<1>2. /\ wire' \in Seq(Frame)
      /\ \A i \in 1..Len(wire') : i + 1 \in 1..Len(wire) /\ wire'[i] = wire[i + 1]
  BY <1>1, WireShrinks
<1>3. TypeOK'
  BY <1>1, <1>2 DEF TypeOK
<1>4. BusInv' /\ ChanInv' /\ HandlerInv' /\ ReplayInv' /\ ResumePointIsHonest'
  BY <1>1 DEF BusInv, ChanInv, HandlerInv, ReplayInv, ResumePointIsHonest
<1>5. \A x \in published : Reached(x)'
  BY <1>1 DEF Reached
<1>6. WireInv'
  <2>1. \A i, j \in 1..Len(wire') : i < j => i + 1 < j + 1
    OBVIOUS
  <2> QED BY <1>1, <1>2, <1>5, <2>1 DEF WireInv, IsEvent
<1>7. OrderInv'
  BY <1>1, <1>2 DEF OrderInv, IsEvent
<1>8. handler.pc \notin {"resume", "check"}
  BY <1>1 DEF GapInv
<1>9. GapInv'
  BY <1>1, <1>5, <1>8 DEF GapInv, Comes
<1> QED BY <1>3, <1>4, <1>6, <1>7, <1>9

\* An event: its id is kept, and all up to it is reached.
LEMMA EventKeepsInv ==
  ASSUME StreamInv, Receive, Head(wire) # Resync
  PROVE  StreamInv' /\ last < last'
<1> USE DEF StreamInv
<1>1. PICK d : d = Head(wire).id
  OBVIOUS
<1>2. /\ open /\ wire # <<>> /\ wire' = Tail(wire) /\ covered' = covered \cup {d} /\ last' = d
      /\ UNCHANGED <<highest, user, ring, published, handler, chan, open, excused, faults>>
  BY <1>1 DEF Receive, bus, server
<1>3. /\ wire' \in Seq(Frame) /\ Head(wire) = wire[1] /\ 1 \in 1..Len(wire)
      /\ \A i \in 1..Len(wire') : i + 1 \in 1..Len(wire) /\ wire'[i] = wire[i + 1] /\ 1 < i + 1
      /\ \A i \in 1..Len(wire) : i = 1 \/ (i - 1 \in 1..Len(wire') /\ wire'[i - 1] = wire[i])
  BY <1>2, WireShrinks
<1>4. d \in published /\ wire[1] = Evt(d) /\ IsEvent(1) /\ last < d /\ wire[1].id = d
  BY <1>1, <1>2, <1>3 DEF WireInv, IsEvent
<1>5. d \in Ids /\ d \in 0..MaxId /\ d \in Nat
  BY <1>4, IdFacts DEF TypeOK, Ids
<1>6. TypeOK'
  BY <1>2, <1>3, <1>4, <1>5 DEF TypeOK
<1>7. BusInv' /\ ChanInv' /\ ReplayInv'
  BY <1>2 DEF BusInv, ChanInv, ReplayInv
<1>8. HandlerInv'
  BY <1>2, <1>4 DEF HandlerInv
<1>9. \A x : (Reached(x) \/ wire[1] = Evt(x)) => Reached(x)'
  BY <1>2, <1>4, FrameFacts DEF Reached
<1>10. \A x \in published : x <= d => Reached(x)'
  BY <1>2, <1>3, <1>4, <1>9, FrameFacts DEF WireInv
<1>11. WireInv'
  <2>1. \A i \in 1..Len(wire') : wire'[i] # Resync =>
          wire'[i].id \in published' /\ wire'[i] = Evt(wire'[i].id)
    BY <1>2, <1>3 DEF WireInv
  <2>2. \A i \in 1..Len(wire') : wire'[i] # Resync => d < wire'[i].id
    BY <1>2, <1>3, <1>4 DEF WireInv, IsEvent
  <2>3. \A i, j \in 1..Len(wire') : i < j => i + 1 < j + 1
    OBVIOUS
  <2>4. \A i, j \in 1..Len(wire') :
          i < j /\ wire'[i] # Resync /\ wire'[j] # Resync => wire'[i].id < wire'[j].id
    BY <1>2, <1>3, <2>3 DEF WireInv, IsEvent
  <2>5. ASSUME NEW i \in 1..Len(wire'), NEW x \in published, wire'[i] # Resync, x <= wire'[i].id
        PROVE  Reached(x)' \/ \E j \in 1..i : wire'[j] = Evt(x) \/ wire'[j] = Resync
    <3>1. Reached(x) \/ \E j \in 1..(i + 1) : wire[j] = Evt(x) \/ wire[j] = Resync
      BY <1>2, <1>3, <2>5 DEF WireInv, IsEvent
    <3>2. ASSUME NEW j \in 1..(i + 1), wire[j] = Evt(x) \/ wire[j] = Resync
          PROVE  Reached(x)' \/ \E k \in 1..i : wire'[k] = Evt(x) \/ wire'[k] = Resync
      <4>1. CASE j = 1
        BY <1>4, <1>9, <3>2, <4>1, FrameFacts
      <4>2. CASE j # 1
        <5>1. j \in 1..Len(wire) /\ j - 1 \in 1..i
          BY <1>3, <3>2, <4>2, IdFacts
        <5>2. wire'[j - 1] = wire[j]
          BY <1>3, <4>2, <5>1
        <5> QED BY <3>2, <5>1, <5>2
      <4> QED BY <4>1, <4>2
    <3> QED BY <1>9, <3>1, <3>2
  <2> QED BY <1>2, <2>1, <2>2, <2>4, <2>5 DEF WireInv, IsEvent
<1>12. OrderInv'
  <2>1. ASSUME NEW i \in 1..Len(chan), handler.dedup < chan[i]
        PROVE  d < chan[i] /\ \A j \in 1..Len(wire') : wire'[j] # Resync => wire'[j].id < chan[i]
    BY <1>2, <1>3, <1>4, <2>1 DEF OrderInv, IsEvent
  <2> QED BY <1>2, <2>1 DEF OrderInv, IsEvent
<1>13. handler.pc \notin {"resume", "check"}
  BY <1>2 DEF GapInv
<1>14. \A x : Comes(x) => Comes(x)'
  <2>1. ASSUME NEW f, Carries(f), f # wire[1] PROVE Carries(f)'
    <3>1. PICK i \in 1..Len(wire) : wire[i] = f
      BY <2>1 DEF Carries
    <3>2. i - 1 \in 1..Len(wire') /\ wire'[i - 1] = f
      BY <1>3, <2>1, <3>1
    <3> QED BY <3>2 DEF Carries
  <2>2. Carries(Resync) => Carries(Resync)'
    BY <1>4, <2>1, FrameFacts
  <2>3. \A x : Carries(Evt(x)) => Carries(Evt(x))' \/ Reached(x)'
    BY <1>9, <2>1
  <2> QED BY <1>9, <2>2, <2>3 DEF Comes
<1>15. GapInv'
  <2>1. \A x \in published : (handler.pc \in {"start", "live", "beat"}) =>
          /\ Comes(x)' \/ Ahead(x) \/ (handler.through # 0 /\ handler.through < x)
          /\ x <= handler.dedup => Comes(x)'
    BY <1>2, <1>14 DEF GapInv
  <2>2. \A x : Ahead(x)' <=> Ahead(x)
    BY <1>2 DEF Ahead
  <2> QED BY <1>2, <1>13, <2>1, <2>2 DEF GapInv
<1>16. ResumePointIsHonest'
  BY <1>2, <1>10 DEF ResumePointIsHonest, Reached
<1> QED BY <1>2, <1>4, <1>6, <1>7, <1>8, <1>11, <1>12, <1>15, <1>16

-----------------------------------------------------------------------------
(* Steps of the handler                                                    *)

\* Writing frames: what was on the wire stays, and the frames follow.
LEMMA WireGrows ==
  ASSUME TypeOK, NEW frames \in Seq(Frame), Write(frames), UNCHANGED <<covered, excused>>
  PROVE  /\ wire' \in Seq(Frame) /\ Len(wire) \in Nat
         /\ \A i \in 1..Len(wire) : i \in 1..Len(wire') /\ wire'[i] = wire[i]
         /\ \A k \in 1..Len(frames) :
              Len(wire) + k \in 1..Len(wire') /\ wire'[Len(wire) + k] = frames[k]
              /\ \A i \in 1..Len(wire) : i \in 1..(Len(wire) + k)
         /\ \A i \in 1..Len(wire') :
              \/ i \in 1..Len(wire)
              \/ \E k \in 1..Len(frames) : i = Len(wire) + k
         /\ \A x : Comes(x) => Comes(x)'
         /\ \A f : Carries(f) => Carries(f)'
         /\ \A k \in 1..Len(frames) : Carries(frames[k])'
<1>1. wire \in Seq(Frame) /\ wire' = wire \o frames
  BY DEF TypeOK, Write
<1>2. PICK N \in Nat : N = Len(wire)
  BY <1>1
<1>3. PICK M \in Nat : M = Len(frames)
  OBVIOUS
<1>4. /\ wire' \in Seq(Frame) /\ Len(wire') = N + M
      /\ \A i \in 1..N : wire'[i] = wire[i]
  BY <1>1, <1>2, <1>3
<1>5. ASSUME NEW k \in 1..M PROVE wire'[N + k] = frames[k]
  BY <1>1, <1>2, <1>3, <1>5
<1>6. /\ \A i \in 1..N : i \in 1..(N + M)
      /\ \A k \in 1..M : N + k \in 1..(N + M) /\ \A i \in 1..N : i \in 1..(N + k)
      /\ \A i \in 1..(N + M) : i \in 1..N \/ (i - N \in 1..M /\ i = N + (i - N))
  OBVIOUS
<1>7. \A i \in 1..(N + M) : i \in 1..N \/ \E k \in 1..M : i = N + k
  BY <1>6
<1>8. \A f : Carries(f) => Carries(f)'
  BY <1>2, <1>4, <1>6 DEF Carries
<1>9. \A k \in 1..M : Carries(frames[k])'
  BY <1>4, <1>5, <1>6 DEF Carries
<1>10. \A x : Comes(x) => Comes(x)'
  BY <1>8 DEF Comes, Reached
<1> QED BY <1>2, <1>3, <1>4, <1>5, <1>6, <1>7, <1>8, <1>9, <1>10

\* What a handler that writes nothing leaves alone.
LEMMA SilentKeepsInv ==
  ASSUME StreamInv, UNCHANGED <<highest, user, ring, published, chan, wire,
                                open, last, covered, excused, faults>>,
         handler' \in Handler, handler'.after = handler.after, handler'.dedup = handler.dedup
  PROVE  /\ TypeOK' /\ BusInv' /\ ChanInv' /\ WireInv' /\ OrderInv' /\ ResumePointIsHonest'
         /\ \A x : (Comes(x)' <=> Comes(x)) /\ (Ahead(x)' <=> Ahead(x))
<1> USE DEF StreamInv
<1>1. TypeOK'
  BY DEF TypeOK
<1>2. BusInv' /\ ChanInv' /\ OrderInv' /\ ResumePointIsHonest'
  BY DEF BusInv, ChanInv, OrderInv, IsEvent, ResumePointIsHonest
<1>3. WireInv'
  BY DEF WireInv, IsEvent, Reached
<1>4. \A x : (Comes(x)' <=> Comes(x)) /\ (Ahead(x)' <=> Ahead(x))
  BY DEF Comes, Carries, Reached, Ahead
<1> QED BY <1>1, <1>2, <1>3, <1>4

\* Nobody can resume from an id that was not issued.
LEMMA ResumeKeepsInv ==
  ASSUME StreamInv, Resume
  PROVE  StreamInv'
<1> USE DEF StreamInv
<1>1. handler.pc = "resume" /\ handler.through = 0 /\ handler.dedup = 0 /\ handler \in Handler
  BY IdFacts DEF Resume, HandlerInv
<1>2. UNCHANGED <<highest, user, ring, published, chan, open, last, covered, excused, faults>>
  BY DEF Resume, bus, client
<1>3. ~ (handler.after > highest)
  <2>1. PICK a \in Nat, h \in Nat : a = handler.after /\ h = highest
    BY IdFacts
  <2>2. a \in published \/ a = 0
    BY <2>1 DEF HandlerInv
  <2>3. a <= h
    BY <2>1, <2>2 DEF BusInv
  <2> QED BY <2>1, <2>3
<1>4. CASE handler.after = 0
  <2>1. Write(<<>>) /\ handler' = [handler EXCEPT !.pc = "start"]
    BY <1>4 DEF Resume
  <2>2. wire' = wire
    <3>1. wire \in Seq(Frame)
      BY IdFacts
    <3> QED BY <2>1, <3>1 DEF Write
  <2>3. /\ handler' \in Handler /\ handler'.after = handler.after /\ handler'.pc = "start"
        /\ handler'.dedup = 0 /\ handler'.through = 0
    BY <1>1, <2>1 DEF Handler
  <2>4. /\ TypeOK' /\ BusInv' /\ ChanInv' /\ WireInv' /\ OrderInv' /\ ResumePointIsHonest'
        /\ \A x : (Comes(x)' <=> Comes(x)) /\ (Ahead(x)' <=> Ahead(x))
    BY <1>1, <1>2, <2>2, <2>3, SilentKeepsInv
  <2>5. HandlerInv' /\ ReplayInv'
    BY <1>1, <1>2, <2>3 DEF HandlerInv, ReplayInv
  <2>6. GapInv'
    <3>1. \A x \in published : ~ (x <= 0)
      BY IdFacts DEF TypeOK, Ids
    <3>2. \A x \in published : open => Comes(x) \/ Ahead(x)
      BY <1>1, <1>4 DEF GapInv, Comes, Reached
    <3> QED BY <1>2, <2>3, <2>4, <3>1, <3>2 DEF GapInv
  <2> QED BY <2>4, <2>5, <2>6
<1>5. CASE handler.after # 0
  <2>1. handler' = [handler EXCEPT !.pc = "check", !.replayed = Replay(handler.after)]
        /\ wire' = wire
    BY <1>3, <1>5 DEF Resume
  <2>2. PICK r \in Seq(Ids) :
          /\ r = Replay(handler.after)
          /\ \A i \in 1..Len(r) : r[i] \in published /\ handler.after < r[i]
          /\ \A i \in 1..(Len(r) - 1) : r[i + 1] = r[i] + 1
    BY IdFacts, ReplayFacts
  <2>3. /\ handler' \in Handler /\ handler'.after = handler.after /\ handler'.pc = "check"
        /\ handler'.dedup = 0 /\ handler'.through = 0 /\ handler'.replayed = r
    BY <1>1, <2>1, <2>2 DEF Handler
  <2>4. /\ TypeOK' /\ BusInv' /\ ChanInv' /\ WireInv' /\ OrderInv' /\ ResumePointIsHonest'
    BY <1>1, <1>2, <2>1, <2>3, SilentKeepsInv
  <2>5. HandlerInv' /\ ReplayInv'
    BY <1>1, <1>2, <1>5, <2>2, <2>3 DEF HandlerInv, ReplayInv
  <2>6. GapInv'
    BY <1>1, <1>2, <2>1, <2>3 DEF GapInv
  <2> QED BY <2>4, <2>5, <2>6
<1> QED BY <1>4, <1>5

LEMMA StartKeepsInv ==
  ASSUME StreamInv, Start
  PROVE  StreamInv'
<1> USE DEF StreamInv
<1>1. handler.pc = "start" /\ handler \in Handler
      /\ handler' = [handler EXCEPT !.pc = "live", !.through = IF @ = 0 THEN user.next ELSE @]
      /\ UNCHANGED <<highest, user, ring, published, chan, wire, open, last,
                     covered, excused, faults>>
  BY IdFacts DEF Start, bus, client
<1>2. user.next \in 0..MaxId
  BY IdFacts
<1>3. /\ handler' \in Handler /\ handler'.after = handler.after /\ handler'.pc = "live"
      /\ handler'.dedup = handler.dedup
      /\ handler.through # 0 => handler'.through = handler.through
  BY <1>1, <1>2 DEF Handler
<1>4. /\ TypeOK' /\ BusInv' /\ ChanInv' /\ WireInv' /\ OrderInv' /\ ResumePointIsHonest'
      /\ \A x : (Comes(x)' <=> Comes(x)) /\ (Ahead(x)' <=> Ahead(x))
  BY <1>1, <1>3, SilentKeepsInv
<1>5. HandlerInv'
  <2>1. \A i \in 1..Len(chan) : 0 < chan[i]
    <3>1. SUFFICES ASSUME NEW i \in 1..Len(chan) PROVE 0 < chan[i]
      OBVIOUS
    <3>2. chan \in Seq(Ids)
      BY IdFacts
    <3>3. PICK e \in Ids : e = chan[i]
      BY <3>1, <3>2
    <3>4. e \in Nat /\ e # 0
      BY IdFacts
    <3> QED BY <3>3, <3>4
  <2>2. \A i \in 1..Len(chan) : handler.dedup < chan[i] \/ handler'.through = handler.dedup
    <3>1. SUFFICES ASSUME NEW i \in 1..Len(chan)
                   PROVE  handler.dedup < chan[i] \/ handler'.through = handler.dedup
      OBVIOUS
    <3>2. 0 < chan[i] /\ (handler.dedup < chan[i] \/ handler.through = handler.dedup)
      BY <2>1 DEF HandlerInv
    <3>3. CASE handler.through = 0
      BY <3>2, <3>3
    <3>4. CASE handler.through # 0
      BY <1>3, <3>2, <3>4
    <3> QED BY <3>3, <3>4
  <2> QED BY <1>1, <1>3, <2>2 DEF HandlerInv
<1>6. ReplayInv'
  BY <1>3 DEF ReplayInv
<1>7. GapInv'
  BY <1>1, <1>3, <1>4 DEF GapInv
<1> QED BY <1>4, <1>5, <1>6, <1>7

LEMMA BeatReadKeepsInv ==
  ASSUME StreamInv, BeatRead
  PROVE  StreamInv'
<1> USE DEF StreamInv
<1>1. handler.pc = "live" /\ handler \in Handler
      /\ handler' = [handler EXCEPT !.pc = "beat", !.latest = user.next]
      /\ UNCHANGED <<highest, user, ring, published, chan, wire, open, last,
                     covered, excused, faults>>
  BY IdFacts DEF BeatRead, bus, client
<1>2. user.next \in 0..MaxId
  BY IdFacts
<1>3. /\ handler' \in Handler /\ handler'.after = handler.after /\ handler'.pc = "beat"
      /\ handler'.dedup = handler.dedup /\ handler'.through = handler.through
  BY <1>1, <1>2 DEF Handler
<1>4. /\ TypeOK' /\ BusInv' /\ ChanInv' /\ WireInv' /\ OrderInv' /\ ResumePointIsHonest'
      /\ \A x : (Comes(x)' <=> Comes(x)) /\ (Ahead(x)' <=> Ahead(x))
  BY <1>1, <1>3, SilentKeepsInv
<1>5. HandlerInv' /\ ReplayInv'
  BY <1>1, <1>3 DEF HandlerInv, ReplayInv
<1>6. GapInv'
  BY <1>1, <1>3, <1>4 DEF GapInv
<1> QED BY <1>4, <1>5, <1>6

\* After a resync everything comes.
LEMMA ResyncWritten ==
  ASSUME StreamInv, Write(<<Resync>>), UNCHANGED <<published, open, last, covered, excused>>
  PROVE  /\ wire' \in Seq(Frame) /\ WireInv' /\ \A x : Comes(x)'
         /\ \A j \in 1..Len(wire') : IsEvent(j)' => j \in 1..Len(wire) /\ wire'[j] = wire[j]
<1> USE DEF StreamInv
<1>1. PICK f \in Seq(Frame) : f = <<Resync>> /\ Len(f) = 1 /\ f[1] = Resync
  <2>1. <<Resync>> \in Seq(Frame)
    BY FrameFacts
  <2> QED BY <2>1
<1>2. Write(f)
  BY <1>1
<1>3. /\ wire' \in Seq(Frame) /\ Len(wire) \in Nat
      /\ \A i \in 1..Len(wire) : i \in 1..Len(wire') /\ wire'[i] = wire[i]
      /\ \A k \in 1..1 : Len(wire) + k \in 1..Len(wire') /\ wire'[Len(wire) + k] = f[k]
      /\ \A i \in 1..Len(wire') : i \in 1..Len(wire) \/ \E k \in 1..1 : i = Len(wire) + k
      /\ \A k \in 1..1 : Carries(f[k])'
  BY <1>1, <1>2, WireGrows
<1>4. \A j \in 1..Len(wire') : wire'[j] # Resync => j \in 1..Len(wire) /\ wire'[j] = wire[j]
  BY <1>1, <1>3
<1>5. \A x : Comes(x)'
  BY <1>1, <1>3 DEF Comes
<1>6. WireInv'
  <2>1. ASSUME NEW i \in 1..Len(wire'), NEW x \in published, open, wire'[i] # Resync, x <= wire'[i].id
        PROVE  Reached(x)' \/ \E j \in 1..i : wire'[j] = Evt(x) \/ wire'[j] = Resync
    <3>1. i \in 1..Len(wire) /\ wire'[i] = wire[i]
      BY <1>4, <2>1
    <3>2. Reached(x) \/ \E j \in 1..i : wire[j] = Evt(x) \/ wire[j] = Resync
      BY <2>1, <3>1 DEF WireInv, IsEvent
    <3>3. \A j \in 1..i : j \in 1..Len(wire) /\ wire'[j] = wire[j]
      BY <1>3, <3>1
    <3> QED BY <3>2, <3>3 DEF Reached
  <2>2. \A i \in 1..Len(wire') : wire'[i] # Resync =>
          wire'[i].id \in published /\ wire'[i] = Evt(wire'[i].id)
    BY <1>4 DEF WireInv
  <2>3. open => \A i \in 1..Len(wire') : wire'[i] # Resync => last < wire'[i].id
    BY <1>4 DEF WireInv, IsEvent
  <2>4. open => \A i, j \in 1..Len(wire') :
          i < j /\ wire'[i] # Resync /\ wire'[j] # Resync => wire'[i].id < wire'[j].id
    BY <1>4 DEF WireInv, IsEvent
  <2> QED BY <2>1, <2>2, <2>3, <2>4 DEF WireInv, IsEvent
<1> QED BY <1>3, <1>4, <1>5, <1>6 DEF IsEvent

LEMMA BeatCheckKeepsInv ==
  ASSUME StreamInv, BeatCheck
  PROVE  StreamInv'
<1> USE DEF StreamInv
<1>1. handler.pc = "beat" /\ handler \in Handler
      /\ UNCHANGED <<highest, user, ring, published, chan, open, last, covered, excused, faults>>
  BY IdFacts DEF BeatCheck, bus, client
<1>2. CASE ~ (chan = <<>> /\ handler.latest > handler.through)
  <2>1. wire' = wire /\ handler' = [handler EXCEPT !.pc = "live", !.latest = 0]
    BY <1>2 DEF BeatCheck
  <2>2. /\ handler' \in Handler /\ handler'.after = handler.after /\ handler'.pc = "live"
        /\ handler'.dedup = handler.dedup /\ handler'.through = handler.through
    <3>1. 0 \in 0..MaxId
      BY StreamAssumption
    <3> QED BY <1>1, <2>1, <3>1 DEF Handler
  <2>3. /\ TypeOK' /\ BusInv' /\ ChanInv' /\ WireInv' /\ OrderInv' /\ ResumePointIsHonest'
        /\ \A x : (Comes(x)' <=> Comes(x)) /\ (Ahead(x)' <=> Ahead(x))
    BY <1>1, <2>1, <2>2, SilentKeepsInv
  <2>4. HandlerInv' /\ ReplayInv'
    BY <1>1, <2>2 DEF HandlerInv, ReplayInv
  <2>5. GapInv'
    BY <1>1, <2>1, <2>2, <2>3 DEF GapInv
  <2> QED BY <2>3, <2>4, <2>5
<1>3. CASE chan = <<>> /\ handler.latest > handler.through
  <2>1. Write(<<Resync>>)
        /\ handler' = [handler EXCEPT !.pc = "live", !.latest = 0, !.through = handler.latest]
    BY <1>3 DEF BeatCheck
  <2>2. /\ handler' \in Handler /\ handler'.after = handler.after /\ handler'.pc = "live"
        /\ handler'.dedup = handler.dedup
    <3>1. 0 \in 0..MaxId
      BY StreamAssumption
    <3> QED BY <1>1, <2>1, <3>1 DEF Handler
  <2>3. wire' \in Seq(Frame) /\ WireInv' /\ \A x : Comes(x)'
    BY <1>1, <2>1, ResyncWritten
  <2>4. chan' = <<>> /\ Len(chan') = 0
    BY <1>1, <1>3
  <2>5. TypeOK'
    BY <1>1, <2>2, <2>3 DEF TypeOK
  <2>6. BusInv' /\ ResumePointIsHonest'
    BY <1>1 DEF BusInv, ResumePointIsHonest
  <2>7. ChanInv' /\ ReplayInv' /\ OrderInv'
    BY <2>2, <2>4 DEF ChanInv, ReplayInv, OrderInv
  <2>8. HandlerInv'
    BY <1>1, <2>2, <2>4 DEF HandlerInv
  <2>9. GapInv'
    BY <2>2, <2>3 DEF GapInv
  <2> QED BY <2>3, <2>5, <2>6, <2>7, <2>8, <2>9
<1> QED BY <1>2, <1>3

\* The frames of a replay.
LEMMA ReplayFrames ==
  ASSUME NEW r \in Seq(Ids)
  PROVE  \E f \in Seq(Frame) :
           /\ f = [i \in 1..Len(r) |-> Evt(r[i])]
           /\ Len(f) = Len(r) /\ \A i \in 1..Len(r) : f[i] = Evt(r[i])
<1>1. PICK N \in Nat : N = Len(r)
  OBVIOUS
<1>2. PICK f : f = [i \in 1..N |-> Evt(r[i])]
  OBVIOUS
<1>3. \A i \in 1..N : f[i] = Evt(r[i]) /\ f[i] \in Frame
  BY <1>1, <1>2, FrameFacts
<1>4. f \in [1..N -> Frame]
  BY <1>2, <1>3
<1>5. f \in Seq(Frame) /\ Len(f) = N
  BY <1>4
<1> QED BY <1>1, <1>2, <1>3, <1>5

\* What is replayed is no later than its end.
LEMMA ReplayEndsBefore ==
  ASSUME NEW a \in Nat, NEW N \in Nat, NEW e \in Nat, a + N < e
  PROVE  \A j \in 1..N : a + j < e
OBVIOUS

\* A resync or the whole of what was missed, to a client that has the rest.
LEMMA CheckReplayKeepsInv ==
  ASSUME StreamInv, CheckReplay
  PROVE  StreamInv'
<1> USE DEF StreamInv
<1>1. PICK a \in Nat : a = handler.after
  BY IdFacts
<1>2. PICK r \in Seq(Ids) : r = handler.replayed
  BY IdFacts
<1>3. handler.pc = "check" /\ a # 0 /\ a \in published /\ handler.dedup = 0
      /\ handler.through = 0 /\ handler \in Handler
      /\ UNCHANGED <<highest, user, ring, published, chan, open, last, covered, excused, faults>>
  BY <1>1, IdFacts DEF CheckReplay, HandlerInv, bus, client
<1>4. open => wire = <<>> /\ last = a
  BY <1>1, <1>3 DEF GapInv
<1>5. /\ \A i \in 1..Len(r) : r[i] \in published /\ a < r[i] /\ r[i] \in Nat
      /\ \A i \in 1..(Len(r) - 1) : r[i + 1] = r[i] + 1
  BY <1>1, <1>2, <1>3, IdFacts DEF ReplayInv
<1>6. \A i \in 1..Len(chan) : a < chan[i] /\ 0 < chan[i] /\ chan[i] \in Nat
  <2>1. \A i \in 1..Len(chan) : a < chan[i] /\ chan[i] \in published
    BY <1>1 DEF ChanInv
  <2>2. \A n \in Nat : a < n => 0 < n
    OBVIOUS
  <2> QED BY <2>1, <2>2, IdFacts
<1>7. open => \A i \in 1..Len(chan) : last < chan[i]
  BY <1>3, <1>6 DEF OrderInv
<1>8. BusInv' /\ ResumePointIsHonest'
  BY <1>3 DEF BusInv, ResumePointIsHonest
<1>9. a \in 0..MaxId /\ <<>> \in Seq(Ids)
  BY <1>1, <1>3 DEF Handler
<1>10. CASE Gapped(a, r)
  <2>1. Write(<<Resync>>)
        /\ handler' = [handler EXCEPT !.pc = "start", !.dedup = a, !.replayed = <<>>]
    BY <1>1, <1>2, <1>10 DEF CheckReplay
  <2>2. /\ handler' \in Handler /\ handler'.after = a /\ handler'.pc = "start"
        /\ handler'.dedup = a
    BY <1>1, <1>3, <1>9, <2>1 DEF Handler
  <2>3. /\ wire' \in Seq(Frame) /\ WireInv' /\ \A x : Comes(x)'
        /\ \A j \in 1..Len(wire') : IsEvent(j)' => j \in 1..Len(wire) /\ wire'[j] = wire[j]
    BY <1>3, <2>1, ResyncWritten
  <2>4. TypeOK'
    BY <1>3, <2>2, <2>3 DEF TypeOK
  <2>5. ChanInv' /\ ReplayInv'
    BY <1>1, <1>3, <2>2 DEF ChanInv, ReplayInv
  <2>6. HandlerInv'
    BY <1>3, <1>6, <2>2 DEF HandlerInv
  <2>7. OrderInv'
    <3>1. open => Len(wire) = 0
      BY <1>4
    <3> QED BY <1>3, <1>7, <2>3, <3>1 DEF OrderInv
  <2>8. GapInv'
    BY <2>2, <2>3 DEF GapInv
  <2> QED BY <1>8, <2>3, <2>4, <2>5, <2>6, <2>7, <2>8
<1>11. CASE ~ Gapped(a, r)
  <2>1. PICK l : l = LastOf(r, a)
    OBVIOUS
  <2>2. Write([i \in 1..Len(r) |-> Evt(r[i])])
        /\ handler' = [handler EXCEPT !.pc = "start", !.replayed = <<>>, !.dedup = l,
                                      !.through = l]
    BY <1>1, <1>2, <1>11, <2>1 DEF CheckReplay
  <2>3. PICK N \in Nat : N = Len(r)
    OBVIOUS
  \* The replay begins right after the id resumed from.
  <2>4. \A i \in 1..N : r[i] = a + i
    <3>1. \A i \in 1..N : r[i] = r[1] + (i - 1)
      <4>1. r \in Seq(Nat)
        BY IdFacts
      <4> QED BY <1>5, <2>3, <4>1, Contiguous
    <3>2. N # 0 => r # <<>> /\ Head(r) = r[1] /\ 1 \in 1..N
      BY <2>3
    <3>3. N # 0 => r[1] = a + 1
      BY <1>5, <1>11, <2>3, <3>2 DEF Gapped
    <3>4. ASSUME NEW i \in 1..N PROVE r[i] = a + i
      <4>1. N # 0
        OBVIOUS
      <4> QED BY <3>1, <3>3, <4>1
    <3> QED BY <3>4
  <2>5. l = a + N
    <3>1. CASE r = <<>>
      BY <2>1, <2>3, <3>1 DEF LastOf
    <3>2. CASE r # <<>>
      <4>1. N \in 1..N /\ l = r[N]
        BY <2>1, <2>3, <3>2 DEF LastOf
      <4> QED BY <2>4, <4>1
    <3> QED BY <3>1, <3>2
  <2>6. l \in published /\ l \in Nat /\ l # 0 /\ a <= l /\ l \in 0..MaxId
    <3>1. l \in published
      <4>1. CASE N = 0
        BY <1>3, <2>5, <4>1
      <4>2. CASE N # 0
        <5>1. N \in 1..N
          BY <4>2
        <5> QED BY <1>5, <2>3, <2>4, <2>5, <5>1
      <4> QED BY <4>1, <4>2
    <3>2. l \in Nat /\ l # 0 /\ a <= l
      BY <1>3, <2>5
    <3>3. l \in 1..MaxId
      BY <3>1 DEF TypeOK, Ids
    <3> QED BY <3>1, <3>2, <3>3
  <2>7. /\ handler' \in Handler /\ handler'.after = a /\ handler'.pc = "start"
        /\ handler'.dedup = l /\ handler'.through = l
    BY <1>1, <1>3, <1>9, <2>2, <2>6 DEF Handler
  <2>8. PICK f \in Seq(Frame) : /\ f = [i \in 1..N |-> Evt(r[i])]
                                /\ Len(f) = N /\ \A i \in 1..N : f[i] = Evt(r[i])
    BY <2>3, ReplayFrames
  <2>9. Write(f)
    BY <2>2, <2>3, <2>8
  <2>10. /\ wire' \in Seq(Frame) /\ Len(wire) \in Nat
         /\ \A i \in 1..Len(wire) : i \in 1..Len(wire') /\ wire'[i] = wire[i]
         /\ \A k \in 1..N : Len(wire) + k \in 1..Len(wire') /\ wire'[Len(wire) + k] = f[k]
         /\ \A i \in 1..Len(wire') : i \in 1..Len(wire) \/ \E k \in 1..N : i = Len(wire) + k
    <3>1. /\ wire' \in Seq(Frame) /\ Len(wire) \in Nat
          /\ \A i \in 1..Len(wire) : i \in 1..Len(wire') /\ wire'[i] = wire[i]
          /\ \A k \in 1..Len(f) :
               Len(wire) + k \in 1..Len(wire') /\ wire'[Len(wire) + k] = f[k]
          /\ \A i \in 1..Len(wire') :
               i \in 1..Len(wire) \/ \E k \in 1..Len(f) : i = Len(wire) + k
      BY <1>3, <2>9, WireGrows
    <3> QED BY <2>8, <3>1
  <2>11. open => Len(wire') = N /\ \A i \in 1..N : wire'[i] = Evt(a + i)
    <3>1. SUFFICES ASSUME open PROVE Len(wire') = N /\ \A i \in 1..N : wire'[i] = Evt(a + i)
      OBVIOUS
    <3>2. wire' = f
      BY <1>4, <2>9, <3>1 DEF Write
    <3> QED BY <2>4, <2>8, <3>2
  <2>12. TypeOK'
    BY <1>3, <2>7, <2>10 DEF TypeOK
  <2>13. ChanInv' /\ ReplayInv'
    BY <1>1, <1>3, <2>7 DEF ChanInv, ReplayInv
  <2>14. HandlerInv'
    BY <1>3, <2>6, <2>7 DEF HandlerInv
  \* All that was published before an event that is replayed.
  <2>15. ASSUME open, NEW x \in published, NEW n \in 0..N, x <= a + n
         PROVE  Reached(x) \/ \E j \in 1..n : wire'[j] = Evt(x)
    <3>1. x \in Nat
      BY IdFacts
    <3>2. CASE x <= a
      BY <1>4, <2>15, <3>2 DEF ResumePointIsHonest, Reached
    <3>3. CASE ~ (x <= a)
      <4>1. x - a \in 1..n /\ x - a \in 1..N /\ a + (x - a) = x
        BY <2>15, <3>1, <3>3
      <4> QED BY <2>11, <2>15, <4>1
    <3> QED BY <3>2, <3>3
  <2>16. WireInv'
    <3>1. \A i \in 1..Len(wire') : wire'[i] # Resync =>
            wire'[i].id \in published /\ wire'[i] = Evt(wire'[i].id)
      <4>1. \A k \in 1..N : f[k] = Evt(r[k]) /\ r[k] \in published /\ f[k].id = r[k]
        BY <1>5, <2>3, <2>8, FrameFacts
      <4>2. \A i \in 1..Len(wire) : wire[i] # Resync =>
              wire[i].id \in published /\ wire[i] = Evt(wire[i].id)
        BY DEF WireInv
      <4>3. ASSUME NEW k \in 1..N
            PROVE  wire'[Len(wire) + k].id \in published
                   /\ wire'[Len(wire) + k] = Evt(wire'[Len(wire) + k].id)
        <5>1. wire'[Len(wire) + k] = f[k]
          BY <2>10
        <5>2. f[k].id \in published /\ f[k] = Evt(f[k].id)
          BY <4>1
        <5> QED BY <5>1, <5>2
      <4>4. ASSUME NEW i \in 1..Len(wire), wire'[i] # Resync
            PROVE  wire'[i].id \in published /\ wire'[i] = Evt(wire'[i].id)
        BY <2>10, <4>2, <4>4
      <4> QED BY <2>10, <4>3, <4>4
    <3>2. SUFFICES ASSUME open
                   PROVE  /\ \A i \in 1..Len(wire') : last < wire'[i].id
                          /\ \A i, j \in 1..Len(wire') : i < j => wire'[i].id < wire'[j].id
                          /\ \A i \in 1..Len(wire'), x \in published : x <= wire'[i].id =>
                               Reached(x) \/ \E j \in 1..i : wire'[j] = Evt(x)
      BY <1>3, <3>1 DEF WireInv, IsEvent, Reached
    <3>3. \A i \in 1..N : wire'[i].id = a + i
      BY <2>11, <3>2, FrameFacts
    <3>4. \A i \in 1..N : i \in 0..N /\ a < a + i
      OBVIOUS
    <3>5. \A i, j \in 1..N : i < j => a + i < a + j
      OBVIOUS
    <3>6. Len(wire') = N /\ last = a
      BY <1>4, <2>11, <3>2
    <3>7. \A i \in 1..N : last < wire'[i].id
      BY <3>3, <3>4, <3>6
    <3>8. \A i, j \in 1..N : i < j => wire'[i].id < wire'[j].id
      BY <3>3, <3>5
    <3>9. \A i \in 1..N, x \in published : x <= wire'[i].id =>
            Reached(x) \/ \E j \in 1..i : wire'[j] = Evt(x)
      BY <2>15, <3>2, <3>3, <3>4
    <3> QED BY <3>6, <3>7, <3>8, <3>9
  <2>17. OrderInv'
    <3>1. SUFFICES ASSUME open, NEW i \in 1..Len(chan), l < chan[i]
                   PROVE  /\ last < chan[i]
                          /\ \A j \in 1..Len(wire') : wire'[j].id < chan[i]
      BY <1>3, <2>7 DEF OrderInv, IsEvent
    <3>2. \A j \in 1..N : wire'[j].id = a + j /\ a + j <= l
      BY <2>5, <2>11, <3>1, FrameFacts
    <3>3. \A j \in 1..N : a + j < chan[i]
      <4>1. PICK e \in Nat : e = chan[i] /\ l < e
        BY <1>6, <3>1
      <4>2. \A j \in 1..N : a + j < e
        BY <2>5, <4>1, ReplayEndsBefore
      <4> QED BY <4>1, <4>2
    <3> QED BY <1>7, <2>11, <3>1, <3>2, <3>3
  <2>18. GapInv'
    <3>1. ASSUME open, NEW x \in published, x <= l PROVE Comes(x)'
      <4>1. Reached(x) \/ \E j \in 1..N : wire'[j] = Evt(x)
        BY <2>5, <2>15, <3>1
      <4> QED BY <1>3, <2>11, <3>1, <4>1 DEF Comes, Carries, Reached
    <3>2. \A x \in published : x <= l \/ l < x
      BY <2>6, IdFacts
    <3> QED BY <1>3, <2>6, <2>7, <3>1, <3>2 DEF GapInv
  <2> QED BY <1>8, <2>12, <2>13, <2>14, <2>16, <2>17, <2>18
<1> QED BY <1>10, <1>11

\* A frame alone, and after another.
LEMMA TwoFrames ==
  ASSUME NEW X, NEW d \in X, NEW f \in X
  PROVE  /\ LET s == <<>> \o <<f>> IN s \in Seq(X) /\ Len(s) = 1 /\ s[1] = f
         /\ LET s == <<d>> \o <<f>> IN s \in Seq(X) /\ Len(s) = 2 /\ s[1] = d /\ s[2] = f
OBVIOUS

\* The next event, after a resync if its gap says that one was missed.
LEMMA DeliverKeepsInv ==
  ASSUME StreamInv, Deliver
  PROVE  StreamInv'
<1> USE DEF StreamInv
<1>1. PICK h : h = Head(chan)
  OBVIOUS
<1>2. handler.pc = "live" /\ chan # <<>> /\ chan' = Tail(chan) /\ handler \in Handler
      /\ UNCHANGED <<highest, user, ring, published, open, last, covered, excused, faults>>
  BY IdFacts DEF Deliver, bus, client
<1>3. /\ chan' \in Seq(Ids) /\ Len(chan') <= ChanCap /\ 1 \in 1..Len(chan) /\ h = chan[1]
      /\ \A i \in 1..Len(chan') : i + 1 \in 1..Len(chan) /\ chan'[i] = chan[i + 1] /\ 1 < i + 1
  <2>1. chan \in Seq(Ids) /\ Len(chan) <= ChanCap /\ ChanCap \in Nat
    BY StreamAssumption DEF TypeOK
  <2>2. PICK N \in Nat : N = Len(chan)
    BY <2>1
  <2>3. N # 0 /\ chan' \in Seq(Ids) /\ h = chan[1] /\ Len(chan') = N - 1
        /\ \A i \in 1..(N - 1) : chan'[i] = chan[i + 1]
    BY <1>1, <1>2, <2>1, <2>2
  <2>4. 1 \in 1..N /\ N - 1 <= ChanCap /\ \A i \in 1..(N - 1) : i + 1 \in 1..N /\ 1 < i + 1
    BY <2>1, <2>2, <2>3
  <2> QED BY <2>2, <2>3, <2>4
<1>4. h \in published /\ h \in Nat /\ handler.after < h /\ h # 0 /\ h \in 0..MaxId
  <2>1. h \in published /\ handler.after < h
    BY <1>3 DEF ChanInv
  <2>2. h \in 1..MaxId /\ h \in Nat /\ handler.after \in Nat
    BY <2>1, IdFacts DEF TypeOK, Ids
  <2> QED BY <2>1, <2>2
<1>5. \A i \in 1..Len(chan') :
        /\ chan'[i] \in published /\ chan'[i] \in Nat
        /\ handler.after < chan'[i] /\ h < chan'[i]
  BY <1>3, IdFacts DEF ChanInv
<1>6. \A i, j \in 1..Len(chan') : i < j => chan'[i] < chan'[j]
  <2>1. \A i, j \in 1..Len(chan') : i < j => i + 1 < j + 1
    OBVIOUS
  <2> QED BY <1>3, <2>1 DEF ChanInv
<1>7. BusInv' /\ ResumePointIsHonest'
  BY <1>2 DEF BusInv, ResumePointIsHonest
<1>8. \A x \in published : Ahead(x) => h <= x
  BY <1>1 DEF Ahead
<1>9. handler.dedup \in Nat /\ handler.through \in Nat /\ published \subseteq Nat
  BY IdFacts
<1>10. CASE h <= handler.dedup
  <2>1. handler' = handler /\ wire' = wire
    BY <1>1, <1>10 DEF Deliver, DeliveredAlready
  <2>2. handler.through = handler.dedup /\ handler.through # 0
    BY <1>3, <1>4, <1>9, <1>10 DEF HandlerInv
  <2>3. TypeOK' /\ ReplayInv'
    BY <1>2, <1>3, <2>1 DEF TypeOK, ReplayInv
  <2>4. ChanInv'
    BY <1>2, <1>5, <1>6, <2>1 DEF ChanInv
  <2>5. HandlerInv'
    BY <1>2, <2>1, <2>2 DEF HandlerInv
  <2>6. WireInv'
    BY <1>2, <2>1 DEF WireInv, IsEvent, Reached
  <2>7. OrderInv'
    BY <1>2, <1>3, <2>1 DEF OrderInv, IsEvent
  <2>8. GapInv'
    <3>1. \A x : Comes(x)' <=> Comes(x)
      BY <1>2, <2>1 DEF Comes, Carries, Reached
    <3>2. \A x \in published : x <= handler.dedup \/ handler.through < x
      BY <1>9, <2>2
    <3> QED BY <1>2, <2>1, <2>2, <3>1, <3>2 DEF GapInv
  <2> QED BY <1>7, <2>3, <2>4, <2>5, <2>6, <2>7, <2>8
<1>11. CASE ~ (h <= handler.dedup)
  <2>1. Write((IF StreamGapped(h) THEN <<Resync>> ELSE <<>>) \o <<Evt(h)>>)
        /\ handler' = [handler EXCEPT !.through = h]
    BY <1>1, <1>11 DEF Deliver, DeliveredAlready
  <2>2. /\ handler' \in Handler /\ handler'.pc = "live" /\ handler'.after = handler.after
        /\ handler'.dedup = handler.dedup /\ handler'.through = h
    BY <1>2, <1>4, <2>1 DEF Handler
  \* The last of the frames is the event, and the other one can only be a resync.
  <2>3. PICK f \in Seq(Frame), K \in 1..2 :
          /\ Write(f) /\ Len(f) = K /\ f[K] = Evt(h)
          /\ \A k \in 1..K : k = K \/ f[k] = Resync
          /\ StreamGapped(h) => K = 2 /\ f[1] = Resync
    <3>1. Resync \in Frame /\ Evt(h) \in Frame
      BY <1>4, FrameFacts DEF TypeOK
    <3>2. CASE StreamGapped(h)
      <4>1. (IF StreamGapped(h) THEN <<Resync>> ELSE <<>>) \o <<Evt(h)>>
              = <<Resync>> \o <<Evt(h)>>
        BY <3>2
      <4>2. PICK f : f = <<Resync>> \o <<Evt(h)>>
        OBVIOUS
      <4>3. Write(f)
        BY <2>1, <4>1, <4>2
      <4>4. f \in Seq(Frame) /\ Len(f) = 2 /\ f[1] = Resync /\ f[2] = Evt(h)
        BY <3>1, <4>2, TwoFrames
      <4>5. 2 \in 1..2 /\ \A k \in 1..2 : k = 2 \/ f[k] = Resync
        BY <4>4
      <4> QED BY <4>3, <4>4, <4>5
    <3>3. CASE ~ StreamGapped(h)
      <4>1. (IF StreamGapped(h) THEN <<Resync>> ELSE <<>>) \o <<Evt(h)>>
              = <<>> \o <<Evt(h)>>
        BY <3>3
      <4>2. PICK f : f = <<>> \o <<Evt(h)>>
        OBVIOUS
      <4>3. Write(f)
        BY <2>1, <4>1, <4>2
      <4>4. f \in Seq(Frame) /\ Len(f) = 1 /\ f[1] = Evt(h)
        BY <3>1, <4>2, TwoFrames
      <4>5. 1 \in 1..2 /\ \A k \in 1..1 : k = 1
        OBVIOUS
      <4> QED BY <3>3, <4>3, <4>4, <4>5
    <3> QED BY <3>2, <3>3
  <2>4. PICK L \in Nat : L = Len(wire)
    BY IdFacts
  <2>5. /\ wire' \in Seq(Frame)
        /\ \A i \in 1..L : i \in 1..Len(wire') /\ wire'[i] = wire[i]
        /\ \A k \in 1..K : L + k \in 1..Len(wire') /\ wire'[L + k] = f[k]
        /\ \A i \in 1..Len(wire') : i \in 1..L \/ \E k \in 1..K : i = L + k
        /\ \A x : Comes(x) => Comes(x)'
        /\ \A k \in 1..K : Carries(f[k])'
    <3>1. /\ wire' \in Seq(Frame)
          /\ \A i \in 1..Len(wire) : i \in 1..Len(wire') /\ wire'[i] = wire[i]
          /\ \A k \in 1..Len(f) :
               Len(wire) + k \in 1..Len(wire') /\ wire'[Len(wire) + k] = f[k]
          /\ \A i \in 1..Len(wire') :
               i \in 1..Len(wire) \/ \E k \in 1..Len(f) : i = Len(wire) + k
          /\ \A x : Comes(x) => Comes(x)'
          /\ \A k \in 1..Len(f) : Carries(f[k])'
      BY <1>2, <2>3, WireGrows
    <3> QED BY <2>3, <2>4, <3>1
  \* An event at a position of the new wire is one of the old wire, or this one.
  <2>6. ASSUME NEW i \in 1..Len(wire'), wire'[i] # Resync
        PROVE  \/ i \in 1..L /\ wire'[i] = wire[i] /\ wire[i] # Resync
               \/ i = L + K /\ wire'[i] = Evt(h)
    BY <2>3, <2>5, <2>6
  <2>7. Evt(h).id = h /\ Evt(h) # Resync
    BY FrameFacts
  <2>8. TypeOK'
    BY <1>2, <1>3, <2>2, <2>5 DEF TypeOK
  <2>9. ChanInv' /\ ReplayInv'
    BY <1>2, <1>5, <1>6, <2>2 DEF ChanInv, ReplayInv
  <2>10. \A i \in 1..Len(chan') : handler.dedup < chan'[i]
    BY <1>4, <1>5, <1>9, <1>11
  <2>11. HandlerInv'
    BY <1>2, <2>2, <2>10 DEF HandlerInv
  <2>12. open => last < h /\ \A j \in 1..L : wire[j] # Resync => wire[j].id < h
    <3>1. handler.dedup < h
      BY <1>4, <1>9, <1>11
    <3> QED BY <1>3, <2>4, <3>1 DEF OrderInv, IsEvent
  \* What was published before the event comes before it.
  <2>13. ASSUME open, NEW x \in published, x <= h
         PROVE  Comes(x) \/ x = h \/ StreamGapped(h)
    <3>1. Comes(x) \/ Ahead(x) \/ (handler.through # 0 /\ handler.through < x)
      BY <1>2, <2>13 DEF GapInv
    <3>2. x \in Nat
      BY <1>9
    <3>3. Ahead(x) => x = h
      BY <1>4, <1>8, <2>13, <3>2
    <3>4. (handler.through # 0 /\ handler.through < x) => x = h \/ StreamGapped(h)
      BY <1>4, <1>9, <2>13, <3>2 DEF StreamGapped
    <3> QED BY <3>1, <3>3, <3>4
  <2>14. StreamGapped(h) => L + 1 \in 1..(L + K) /\ wire'[L + 1] = Resync
    BY <2>3, <2>5
  <2>15. WireInv'
    <3>1. ASSUME NEW i \in 1..Len(wire'), wire'[i] # Resync
          PROVE  wire'[i].id \in published /\ wire'[i] = Evt(wire'[i].id)
      <4>1. CASE i \in 1..L /\ wire'[i] = wire[i] /\ wire[i] # Resync
        BY <2>4, <4>1 DEF WireInv
      <4>2. CASE i = L + K /\ wire'[i] = Evt(h)
        BY <1>4, <2>7, <4>2
      <4> QED BY <2>6, <3>1, <4>1, <4>2
    <3>2. ASSUME open, NEW i \in 1..Len(wire'), wire'[i] # Resync
          PROVE  last < wire'[i].id
      <4>1. CASE i \in 1..L /\ wire'[i] = wire[i] /\ wire[i] # Resync
        BY <2>4, <3>2, <4>1 DEF WireInv, IsEvent
      <4>2. CASE i = L + K /\ wire'[i] = Evt(h)
        BY <2>7, <2>12, <3>2, <4>2
      <4> QED BY <2>6, <3>2, <4>1, <4>2
    <3>3. ASSUME open, NEW i \in 1..Len(wire'), NEW j \in 1..Len(wire'), i < j,
                 wire'[i] # Resync, wire'[j] # Resync
          PROVE  wire'[i].id < wire'[j].id
      <4>1. i \in 1..L \/ i = L + K
        BY <2>6, <3>3
      <4>2. j \in 1..L \/ j = L + K
        BY <2>6, <3>3
      <4>3. i \in 1..L /\ wire'[i] = wire[i] /\ wire[i] # Resync
        <5>1. ~ (i = L + K)
          BY <2>4, <3>3, <4>2
        <5> QED BY <2>6, <3>3, <5>1
      <4>4. CASE j \in 1..L /\ wire'[j] = wire[j] /\ wire[j] # Resync
        BY <2>4, <3>3, <4>3, <4>4 DEF WireInv, IsEvent
      <4>5. CASE j = L + K /\ wire'[j] = Evt(h)
        BY <2>7, <2>12, <3>3, <4>3, <4>5
      <4> QED BY <2>6, <3>3, <4>4, <4>5
    <3>4. ASSUME open, NEW i \in 1..Len(wire'), NEW x \in published,
                 wire'[i] # Resync, x <= wire'[i].id
          PROVE  Reached(x) \/ \E j \in 1..i : wire'[j] = Evt(x) \/ wire'[j] = Resync
      <4>1. CASE i \in 1..L /\ wire'[i] = wire[i] /\ wire[i] # Resync
        <5>1. Reached(x) \/ \E j \in 1..i : wire[j] = Evt(x) \/ wire[j] = Resync
          BY <2>4, <3>4, <4>1 DEF WireInv, IsEvent
        <5>2. \A j \in 1..i : wire'[j] = wire[j]
          BY <2>5, <4>1
        <5> QED BY <5>1, <5>2
      <4>2. CASE i = L + K /\ wire'[i] = Evt(h)
        <5>1. \A j \in 1..L : j \in 1..i /\ wire'[j] = wire[j]
          BY <2>5, <4>2
        <5>2. Comes(x) => Reached(x) \/ \E j \in 1..i : wire'[j] = Evt(x) \/ wire'[j] = Resync
          BY <2>4, <5>1 DEF Comes, Carries
        <5>3. i \in 1..i
          BY <2>4, <4>2
        <5> QED BY <2>7, <2>13, <2>14, <3>4, <4>2, <5>2, <5>3
      <4> QED BY <2>6, <3>4, <4>1, <4>2
    <3> QED BY <1>2, <3>1, <3>2, <3>3, <3>4 DEF WireInv, IsEvent, Reached
  <2>16. OrderInv'
    <3>1. SUFFICES ASSUME open, NEW i \in 1..Len(chan')
                   PROVE  /\ last < chan'[i]
                          /\ \A j \in 1..Len(wire') : wire'[j] # Resync => wire'[j].id < chan'[i]
      BY <1>2, <2>2 DEF OrderInv, IsEvent
    <3>2. last < chan[i + 1] /\ \A j \in 1..L : wire[j] # Resync => wire[j].id < chan[i + 1]
      BY <1>3, <2>4, <2>10, <3>1 DEF OrderInv, IsEvent
    <3> QED BY <1>3, <1>5, <2>6, <2>7, <3>1, <3>2
  <2>17. GapInv'
    <3>1. ASSUME open, NEW x \in published, x <= h PROVE Comes(x)'
      <4>1. CASE Comes(x)
        BY <2>5, <4>1
      <4>2. CASE x = h
        BY <2>3, <2>5, <4>2 DEF Comes
      <4>3. CASE StreamGapped(h)
        BY <2>3, <2>5, <4>3 DEF Comes
      <4> QED BY <2>13, <3>1, <4>1, <4>2, <4>3
    <3>2. \A x \in published : x <= h \/ h < x
      BY <1>4, <1>9
    <3>3. open => \A x \in published : x <= handler.dedup => Comes(x)'
      BY <1>2, <2>5 DEF GapInv
    <3> QED BY <1>2, <1>4, <2>2, <3>1, <3>2, <3>3 DEF GapInv
  <2> QED BY <1>7, <2>8, <2>9, <2>11, <2>15, <2>16, <2>17
<1> QED BY <1>10, <1>11

-----------------------------------------------------------------------------
(* The theorems about the stream                                           *)

LEMMA StreamStepKeepsInv ==
  ASSUME StreamInv, [Next]_vars
  PROVE  StreamInv'
<1>1. CASE UNCHANGED vars
  <2>1. TypeOK' /\ BusInv' /\ ChanInv' /\ HandlerInv' /\ ReplayInv'
    BY <1>1 DEF StreamInv, vars, TypeOK, BusInv, ChanInv, HandlerInv, ReplayInv
  <2>2. WireInv' /\ OrderInv' /\ GapInv' /\ ResumePointIsHonest'
    BY <1>1 DEF StreamInv, vars, WireInv, OrderInv, GapInv, ResumePointIsHonest,
                Comes, Carries, Reached, Ahead, IsEvent
  <2> QED BY <2>1, <2>2 DEF StreamInv
<1>2. CASE Publish \/ PublishToOther \/ EvictIdleUser \/ Restart
  BY <1>2, PublishKeepsInv, BusKeepsInv, RestartKeepsInv
<1>3. CASE Connect \/ Receive \/ Cut \/ Ended
  BY <1>3, ConnectKeepsInv, ResyncKeepsInv, EventKeepsInv, CloseKeepsInv
<1>4. CASE Handle \/ Deliver \/ EndStream
  BY <1>4, ResumeKeepsInv, CheckReplayKeepsInv, StartKeepsInv, BeatReadKeepsInv,
     BeatCheckKeepsInv, DeliverKeepsInv, EndStreamKeepsInv DEF Handle
<1> QED BY <1>1, <1>2, <1>3, <1>4 DEF Next

LEMMA StreamInvHolds ==
  Spec => []StreamInv
<1>1. Init => StreamInv
  <2> SUFFICES ASSUME Init PROVE StreamInv
    OBVIOUS
  <2>1. Len(<<>>) = 0 /\ <<>> \in Seq(Ids) /\ <<>> \in Seq(Frame) /\ 0 <= RingCap /\ 0 <= ChanCap
        /\ 0 \in 0..MaxId /\ 0 \in 0..MaxFaults
    BY StreamAssumption
  <2>2. NoUser \in User /\ ~ NoUser.known
    BY <2>1 DEF NoUser, User
  <2>3. TypeOK
    BY <2>1, <2>2, NoHandlerIsTyped DEF Init, TypeOK
  <2>4. BusInv /\ ChanInv /\ ReplayInv /\ WireInv /\ OrderInv /\ GapInv /\ ResumePointIsHonest
    BY <2>1, <2>2 DEF Init, BusInv, ChanInv, ReplayInv, WireInv, OrderInv, GapInv,
                      ResumePointIsHonest, NoHandler
  <2>5. HandlerInv
    BY <2>1 DEF Init, HandlerInv, NoHandler
  <2> QED BY <2>3, <2>4, <2>5 DEF StreamInv
<1>2. StreamInv /\ [Next]_vars => StreamInv'
  BY StreamStepKeepsInv
<1> QED BY <1>1, <1>2, PTL DEF Spec

\* The state of the bus, the handler, the wire and the client is of its type,
\* for rings and channels of every size and any number of events and faults.
THEOREM StreamTypeCorrect ==
  Spec => []TypeOK
<1>1. StreamInv => TypeOK
  BY DEF StreamInv
<1> QED BY <1>1, StreamInvHolds, PTL

\* The id a client resumes from never runs ahead of its caches: the replay, the
\* gap detection of deliverLive and the resync of the heartbeat, together, miss
\* nothing that was published up to it.
THEOREM ResumePointStaysHonest ==
  Spec => []ResumePointIsHonest
<1>1. StreamInv => ResumePointIsHonest
  BY DEF StreamInv
<1> QED BY <1>1, StreamInvHolds, PTL

\* The client applies events in the order of their ids, and none twice, though
\* what is replayed may also be in the channel.
THEOREM EventsStayInOrder ==
  Spec => EventsInOrder
<1>1. StreamInv /\ [Next]_vars => [last' # last => last' > last]_last
  <2>1. ASSUME StreamInv, [Next]_vars, last' # last PROVE last' > last
    <3>1. Receive /\ Head(wire) # Resync
      BY <2>1 DEF Next, vars, Publish, PublishToOther, EvictIdleUser, Restart, Connect,
                  Receive, Cut, Ended, Handle, Resume, CheckReplay, Start, BeatRead,
                  BeatCheck, Deliver, EndStream, client
    <3>2. last < last'
      BY <2>1, <3>1, EventKeepsInv
    <3> QED BY <3>2
  <2> QED BY <2>1
<1> QED BY <1>1, StreamInvHolds, PTL DEF Spec, EventsInOrder

-----------------------------------------------------------------------------
(* When there is a stream: the invariant                                   *)

Client == [requested : BOOLEAN, disposed : BOOLEAN, connecting : BOOLEAN,
           token : Users \cup {Nobody, NoToken}, over : BOOLEAN,
           stream : Users \cup {Nobody}, watchdog : BOOLEAN, timer : BOOLEAN]

\* Nothing but a lookup goes on that was not requested.
Quiet(k) == k.stream = Nobody /\ ~ k.watchdog /\ ~ k.timer

RequestInv(k) == k.requested \/ Quiet(k)

\* Only the current client is requested, where its hook runs.
CurrentInv(c) == clients[c].requested => c = current /\ mounted /\ enabled

\* A client is of one session.
SessionInv(c) ==
  c = current => /\ clients[c].token \in {session, Nobody, NoToken}
                 /\ clients[c].stream \in {session, Nobody}

\* A client that no hook has begun to use is untouched.
UnusedInv(c) == c > current \/ (c = current /\ ~ mounted) => clients[c] = NewClient

ClientInv(c) == RequestInv(clients[c]) /\ CurrentInv(c) /\ SessionInv(c) /\ UnusedInv(c)

HookInv == ClientTypeOK /\ \A c \in ClientIds : ClientInv(c)

-----------------------------------------------------------------------------
(* What the methods of SSEClient make of a client                          *)

LEMMA ConnectedFacts ==
  ASSUME NEW k \in Client
  PROVE  /\ Connected(k) \in Client
         /\ Connected(k).stream = k.stream /\ Connected(k).token = k.token
         /\ RequestInv(k) => RequestInv(Connected(k))
BY DEF Connected, Client, RequestInv, Quiet

LEMMA ClosedFacts ==
  ASSUME NEW k \in Client
  PROVE  /\ Closed(k) \in Client
         /\ Closed(k).stream = Nobody /\ Closed(k).token = k.token
         /\ Closed(k).requested = k.requested
         /\ RequestInv(k) => RequestInv(Closed(k))
BY DEF Closed, Client, RequestInv, Quiet

LEMMA DisconnectedFacts ==
  ASSUME NEW k \in Client
  PROVE  /\ Disconnected(k) \in Client
         /\ Disconnected(k).stream = Nobody /\ Disconnected(k).token = k.token
         /\ ~ Disconnected(k).requested
         /\ RequestInv(Disconnected(k))
BY DEF Disconnected, Closed, Client, RequestInv, Quiet

LEMMA DisposedFacts ==
  ASSUME NEW k \in Client
  PROVE  Disposed(k) \in Client /\ ~ Disposed(k).requested /\ RequestInv(Disposed(k))
BY DEF Disposed, Disconnected, Closed, Client, RequestInv, Quiet

LEMMA RescheduledFacts ==
  ASSUME NEW k \in Client, k.requested
  PROVE  /\ Rescheduled(k) \in Client
         /\ Rescheduled(k).stream = k.stream /\ Rescheduled(k).token = k.token
         /\ Rescheduled(k).requested
BY DEF Rescheduled, Client

LEMMA OpenedFacts ==
  ASSUME NEW k \in Client, k.requested, NEW u \in Users
  PROVE  /\ Opened(k, u) \in Client
         /\ Opened(k, u).stream = u /\ Opened(k, u).token = k.token
         /\ Opened(k, u).requested
BY DEF Opened, Closed, Client

LEMMA NewClientFacts == NewClient \in Client /\ Quiet(NewClient) /\ ~ NewClient.requested
BY DEF NewClient, Client, Quiet

-----------------------------------------------------------------------------
(* Steps of a client                                                       *)

\* A step of one client keeps the invariant if the client does not get requested,
\* stays of its session, and was begun to be used.
LEMMA BecomesKeepsInv ==
  ASSUME HookInv, NEW c \in ClientIds, NEW k \in Client, Becomes(c, k), clientFaults' \in 0..MaxClientFaults,
         clients[c] # NewClient,
         RequestInv(k), k.requested => clients[c].requested,
         c = current => k.token \in {session, Nobody, NoToken} /\ k.stream \in {session, Nobody}
  PROVE  HookInv'
<1>1. clients \in [ClientIds -> Client]
  BY DEF HookInv, ClientTypeOK, Client
<1>2. clients' \in [ClientIds -> Client] /\ (clients[c])' = k
      /\ \A d \in ClientIds \ {c} : (clients[d])' = clients[d]
  BY <1>1 DEF Becomes
<1>3. UNCHANGED <<current, active, enabled, session, mounted>>
  BY DEF Becomes, hook
<1>4. ClientTypeOK'
  BY <1>2, <1>3 DEF HookInv, ClientTypeOK, Client
<1>5. ASSUME NEW d \in ClientIds PROVE ClientInv(d)'
  <2>1. ClientInv(d)
    BY DEF HookInv
  <2>2. CASE d = c
    BY <1>2, <1>3, <2>1, <2>2 DEF ClientInv, RequestInv, Quiet, CurrentInv, SessionInv, UnusedInv
  <2>3. CASE d # c
    BY <1>2, <1>3, <2>1, <2>3 DEF ClientInv, RequestInv, Quiet, CurrentInv, SessionInv, UnusedInv
  <2> QED BY <2>2, <2>3
<1> QED BY <1>4, <1>5 DEF HookInv

\* What is known of a client that goes on.
LEMMA Known ==
  ASSUME HookInv, NEW c \in ClientIds
  PROVE  /\ clients[c] \in Client /\ ClientInv(c)
         /\ NoToken \notin Users \cup {Nobody} /\ Nobody \notin Users
         /\ clients[c].stream # Nobody \/ clients[c].watchdog \/ clients[c].timer =>
              clients[c].requested
         /\ clients[c].requested \/ clients[c].connecting \/ clients[c].token # NoToken
              => clients[c] # NewClient
BY StreamClientAssumption DEF HookInv, ClientTypeOK, Client, ClientInv, RequestInv, Quiet, NewClient

LEMMA FaultIsTyped ==
  ASSUME HookInv, ClientFault \/ UNCHANGED clientFaults
  PROVE  clientFaults' \in 0..MaxClientFaults
BY StreamClientAssumption DEF HookInv, ClientTypeOK, ClientFault

LEMMA LookUpKeepsInv ==
  ASSUME HookInv, NEW c \in ClientIds, LookUp(c)
  PROVE  HookInv'
<1>1. PICK t \in {session, Nobody} : Becomes(c, [clients[c] EXCEPT !.token = t])
  BY DEF LookUp
<1>2. t \in Users \cup {Nobody}
  BY DEF HookInv, ClientTypeOK
<1> DEFINE k == [clients[c] EXCEPT !.token = t]
<1>3. k \in Client /\ k.token = t /\ k.stream = clients[c].stream
      /\ k.requested = clients[c].requested /\ k.watchdog = clients[c].watchdog
      /\ k.timer = clients[c].timer
  BY <1>2, Known DEF Client
<1>4. clientFaults' \in 0..MaxClientFaults /\ clients[c] # NewClient
  BY Known, FaultIsTyped DEF LookUp
<1> QED
  BY <1>1, <1>3, <1>4, Known, BecomesKeepsInv DEF ClientInv, RequestInv, Quiet, SessionInv

\* The answer of a lookup is used only by a client that is still requested, which
\* is the current one.
LEMMA OpenKeepsInv ==
  ASSUME HookInv, NEW c \in ClientIds, Open(c)
  PROVE  HookInv'
<1> DEFINE k == clients[c]
           done == [k EXCEPT !.connecting = FALSE, !.token = NoToken]
<1>1. /\ done \in Client /\ done.token = NoToken /\ done.stream = k.stream
      /\ done.requested = k.requested /\ done.watchdog = k.watchdog /\ done.timer = k.timer
  BY Known DEF Client
<1>2. clientFaults' \in 0..MaxClientFaults /\ k # NewClient /\ k.token # NoToken
  BY Known, FaultIsTyped DEF Open
<1>3. RequestInv(done)
  BY <1>1, Known DEF ClientInv, RequestInv, Quiet
<1>4. CASE ~ Wanted(k)
  BY <1>1, <1>2, <1>3, <1>4, Known, BecomesKeepsInv DEF Open, ClientInv, SessionInv
<1>5. CASE Wanted(k) /\ k.token = Nobody
  BY <1>1, <1>2, <1>3, <1>5, Known, RescheduledFacts, BecomesKeepsInv
     DEF Open, Wanted, ClientInv, SessionInv, RequestInv
<1>6. CASE Wanted(k) /\ k.token # Nobody
  <2>1. k.requested /\ c = current
    BY <1>6, Known DEF Wanted, ClientInv, CurrentInv
  <2>2. k.token \in Users /\ k.token = session
    BY <1>2, <1>6, <2>1, Known DEF Client, ClientInv, SessionInv
  <2>3. Becomes(c, Opened(done, k.token))
    BY <1>6 DEF Open
  <2>4. /\ Opened(done, k.token) \in Client
        /\ Opened(done, k.token).stream = session /\ Opened(done, k.token).token = NoToken
        /\ Opened(done, k.token).requested
    BY <1>1, <2>1, <2>2, OpenedFacts
  <2> HIDE DEF done
  <2> QED BY <1>2, <2>1, <2>3, <2>4, BecomesKeepsInv DEF RequestInv
<1> QED BY <1>4, <1>5, <1>6

LEMMA ProgressKeepsInv ==
  ASSUME HookInv, NEW c \in ClientIds, Progress(c)
  PROVE  HookInv'
<1> DEFINE k == clients[c]
<1>1. clientFaults' \in 0..MaxClientFaults /\ k \in Client /\ ClientInv(c) /\ k.requested
      /\ k # NewClient
  BY Known, FaultIsTyped DEF Progress, Live
<1>2. CASE Becomes(c, [k EXCEPT !.watchdog = TRUE])
  <2>1. /\ [k EXCEPT !.watchdog = TRUE] \in Client
        /\ [k EXCEPT !.watchdog = TRUE].token = k.token
        /\ [k EXCEPT !.watchdog = TRUE].stream = k.stream
        /\ [k EXCEPT !.watchdog = TRUE].requested
    BY <1>1 DEF Client
  <2> QED BY <1>1, <1>2, <2>1, BecomesKeepsInv DEF ClientInv, SessionInv, RequestInv
<1>3. CASE Becomes(c, Connected(Closed(k)))
  BY <1>1, <1>3, ClosedFacts, ConnectedFacts, BecomesKeepsInv
     DEF ClientInv, SessionInv
<1>4. CASE Becomes(c, Rescheduled(Closed(k)))
  BY <1>1, <1>4, ClosedFacts, RescheduledFacts, BecomesKeepsInv
     DEF ClientInv, SessionInv, RequestInv
<1> QED BY <1>2, <1>3, <1>4 DEF Progress

LEMMA StreamEndsKeepsInv ==
  ASSUME HookInv, NEW c \in ClientIds, StreamEnds(c)
  PROVE  HookInv'
<1> DEFINE over == [clients[c] EXCEPT !.over = TRUE]
<1>1. clientFaults' \in 0..MaxClientFaults /\ clients[c] \in Client /\ ClientInv(c)
      /\ clients[c].requested /\ clients[c] # NewClient
  BY Known, FaultIsTyped DEF StreamEnds, Live
<1>2. /\ over \in Client /\ over.token = clients[c].token
      /\ over.stream = clients[c].stream /\ over.requested
  BY <1>1 DEF Client
<1> QED
  BY <1>1, <1>2, RescheduledFacts, BecomesKeepsInv
     DEF StreamEnds, ClientInv, SessionInv, RequestInv

LEMMA WatchdogFiresKeepsInv ==
  ASSUME HookInv, NEW c \in ClientIds, WatchdogFires(c)
  PROVE  HookInv'
<1> DEFINE k == [clients[c] EXCEPT !.watchdog = FALSE]
<1>1. clientFaults' \in 0..MaxClientFaults /\ clients[c] \in Client /\ ClientInv(c)
      /\ clients[c].requested /\ clients[c] # NewClient
  BY Known, FaultIsTyped DEF WatchdogFires
<1>2. /\ k \in Client /\ k.token = clients[c].token
      /\ k.stream = clients[c].stream /\ k.requested
  BY <1>1 DEF Client
<1>3. CASE k.disposed
  <2>1. Becomes(c, k)
    BY <1>3 DEF WatchdogFires
  <2> QED BY <1>1, <1>2, <2>1, BecomesKeepsInv DEF ClientInv, SessionInv, RequestInv
<1>4. CASE ~ k.disposed
  <2>1. Becomes(c, Connected(Closed(k)))
    BY <1>4 DEF WatchdogFires
  <2> QED
    BY <1>1, <1>2, <2>1, ClosedFacts, ConnectedFacts, BecomesKeepsInv
       DEF ClientInv, SessionInv, RequestInv
<1> QED BY <1>3, <1>4

LEMMA ReconnectTimerKeepsInv ==
  ASSUME HookInv, NEW c \in ClientIds, ReconnectTimer(c)
  PROVE  HookInv'
<1> DEFINE k == [clients[c] EXCEPT !.timer = FALSE]
<1>1. clientFaults' \in 0..MaxClientFaults /\ clients[c] \in Client /\ ClientInv(c)
      /\ clients[c].requested /\ clients[c] # NewClient
  BY Known, FaultIsTyped DEF ReconnectTimer
<1>2. /\ k \in Client /\ k.token = clients[c].token
      /\ k.stream = clients[c].stream /\ k.requested
  BY <1>1 DEF Client
<1> QED
  BY <1>1, <1>2, ConnectedFacts, BecomesKeepsInv
     DEF ReconnectTimer, ClientInv, SessionInv, RequestInv

-----------------------------------------------------------------------------
(* Steps of the hook                                                       *)

LEMMA ConnectIfEnabledFacts ==
  ASSUME NEW k \in Client, NEW on \in BOOLEAN
  PROVE  /\ ConnectIfEnabled(k, on) \in Client
         /\ ConnectIfEnabled(k, on).stream = k.stream
         /\ ConnectIfEnabled(k, on).token = k.token
         /\ ConnectIfEnabled(k, on).requested => k.requested \/ on
         /\ RequestInv(k) => RequestInv(ConnectIfEnabled(k, on))
BY ConnectedFacts DEF ConnectIfEnabled

\* What the hook makes of the clients, the current one and the others.
LEMMA HookKeepsInv ==
  ASSUME HookInv, NEW k \in Client, clients' = [clients EXCEPT ![current] = k],
         UNCHANGED <<current, session, clientFaults>>,
         active' \in BOOLEAN, enabled' \in BOOLEAN, mounted' = TRUE,
         RequestInv(k), k.requested => enabled',
         k.token \in {session, Nobody, NoToken}, k.stream \in {session, Nobody}
  PROVE  HookInv'
<1>1. clients \in [ClientIds -> Client] /\ current \in ClientIds
  BY DEF HookInv, ClientTypeOK, Client
<1>2. clients' \in [ClientIds -> Client] /\ (clients[current])' = k
      /\ \A d \in ClientIds \ {current} : (clients[d])' = clients[d]
  BY <1>1
<1>3. ClientTypeOK'
  BY <1>2 DEF HookInv, ClientTypeOK, Client
<1>4. ASSUME NEW d \in ClientIds PROVE ClientInv(d)'
  <2>1. ClientInv(d)
    BY DEF HookInv
  <2>2. CASE d = current
    <3>1. ~ (d > current)
      BY <2>2 DEF ClientIds
    <3> QED
      BY <1>2, <2>2, <3>1 DEF ClientInv, RequestInv, Quiet, CurrentInv, SessionInv, UnusedInv
  <2>3. CASE d # current
    BY <1>2, <2>1, <2>3 DEF ClientInv, RequestInv, Quiet, CurrentInv, SessionInv, UnusedInv
  <2> QED BY <2>2, <2>3
<1> QED BY <1>3, <1>4 DEF HookInv

\* What is known of the current client.
LEMMA KnownCurrent ==
  ASSUME HookInv
  PROVE  /\ current \in ClientIds /\ clients[current] \in Client
         /\ RequestInv(clients[current])
         /\ clients[current].requested => mounted /\ enabled
         /\ clients[current].token \in {session, Nobody, NoToken}
         /\ clients[current].stream \in {session, Nobody}
         /\ active \in BOOLEAN /\ enabled \in BOOLEAN /\ mounted \in BOOLEAN
BY DEF HookInv, ClientTypeOK, Client, ClientInv, CurrentInv, SessionInv

LEMMA MountKeepsInv ==
  ASSUME HookInv, Mount
  PROVE  HookInv'
BY KnownCurrent, ConnectIfEnabledFacts, HookKeepsInv DEF Mount

\* A hook that is not there does nothing.
LEMMA UnmountedKeepsInv ==
  ASSUME HookInv, ~ mounted, UNCHANGED <<clients, current, session, mounted, clientFaults>>,
         active' \in BOOLEAN, enabled' \in BOOLEAN
  PROVE  HookInv'
<1>1. ClientTypeOK'
  BY DEF HookInv, ClientTypeOK
<1>2. \A c \in ClientIds : ClientInv(c)'
  BY DEF HookInv, ClientInv, RequestInv, Quiet, CurrentInv, SessionInv, UnusedInv
<1> QED BY <1>1, <1>2 DEF HookInv

LEMMA AppStateKeepsInv ==
  ASSUME HookInv, AppState
  PROVE  HookInv'
<1>0. active' \in BOOLEAN
  BY DEF AppState
<1>1. CASE ~ mounted
  BY <1>0, <1>1, KnownCurrent, UnmountedKeepsInv DEF AppState
<1>2. CASE mounted /\ active'
  BY <1>0, <1>2, KnownCurrent, ConnectIfEnabledFacts, HookKeepsInv DEF AppState
<1>3. CASE mounted /\ ~ active'
  BY <1>0, <1>3, KnownCurrent, DisconnectedFacts, HookKeepsInv DEF AppState
<1> QED BY <1>1, <1>2, <1>3

LEMMA KillSwitchKeepsInv ==
  ASSUME HookInv, KillSwitch
  PROVE  HookInv'
<1>0. enabled' \in BOOLEAN
  BY DEF KillSwitch
<1>1. CASE ~ mounted
  BY <1>0, <1>1, KnownCurrent, UnmountedKeepsInv DEF KillSwitch
<1>2. CASE mounted /\ ~ enabled'
  BY <1>0, <1>2, KnownCurrent, DisconnectedFacts, HookKeepsInv DEF KillSwitch
<1>3. CASE mounted /\ enabled'
  BY <1>0, <1>3, KnownCurrent, ConnectIfEnabledFacts, HookKeepsInv DEF KillSwitch
<1> QED BY <1>1, <1>2, <1>3

\* The next client is untouched, and no older one is requested.
LEMMA NextClientFacts ==
  ASSUME HookInv, current < MaxClients
  PROVE  /\ current \in ClientIds /\ current + 1 \in ClientIds /\ current + 1 # current
         /\ clients[current + 1] = NewClient
         /\ \A c \in ClientIds : c > current + 1 => clients[c] = NewClient
         /\ \A c \in ClientIds \ {current} : ~ clients[c].requested
<1>1. current \in ClientIds /\ current \in Nat /\ MaxClients \in Nat /\ current + 1 \in ClientIds
  BY StreamClientAssumption DEF HookInv, ClientTypeOK, ClientIds
<1>2. \A c \in ClientIds : c \in Nat /\ UnusedInv(c) /\ CurrentInv(c)
  BY DEF HookInv, ClientInv, ClientIds
<1> QED BY <1>1, <1>2 DEF UnusedInv, CurrentInv

\* A new client takes over: the old one is disposed of, and the new one is new or
\* connected by the hook.
LEMMA ReplacedKeepsInv ==
  ASSUME HookInv, current < MaxClients,
         current' = current + 1, UNCHANGED <<active, enabled, clientFaults>>,
         session' \in Users \cup {Nobody}, mounted' \in BOOLEAN,
         NEW k \in Client, RequestInv(k), k.requested => enabled,
         k.token = NoToken, k.stream = Nobody,
         ~ mounted' => k = NewClient,
         clients' = [clients EXCEPT ![current] = Disposed(@), ![current + 1] = k]
  PROVE  HookInv'
<1>1. clients \in [ClientIds -> Client]
  BY DEF HookInv, ClientTypeOK, Client
<1>2. /\ current \in ClientIds /\ current + 1 \in ClientIds /\ current + 1 # current
      /\ \A c \in ClientIds : c > current + 1 => clients[c] = NewClient
      /\ \A c \in ClientIds \ {current} : ~ clients[c].requested
  BY NextClientFacts
<1>3. Disposed(clients[current]) \in Client /\ ~ Disposed(clients[current]).requested
      /\ RequestInv(Disposed(clients[current]))
  BY <1>1, <1>2, DisposedFacts
<1>4. /\ clients' \in [ClientIds -> Client] /\ (clients')[current] = Disposed(clients[current])
      /\ (clients')[current + 1] = k
      /\ \A c \in ClientIds \ {current, current + 1} : (clients')[c] = clients[c]
  BY <1>1, <1>2, <1>3
<1>5. ClientTypeOK'
  BY <1>2, <1>4 DEF HookInv, ClientTypeOK, Client
<1>6. ASSUME NEW c \in ClientIds PROVE ClientInv(c)'
  <2>0. c \in Nat /\ current \in Nat
    BY <1>2 DEF ClientIds
  <2>1. CASE c = current
    BY <1>3, <1>4, <2>0, <2>1
       DEF ClientInv, RequestInv, Quiet, CurrentInv, SessionInv, UnusedInv
  <2>2. CASE c = current + 1
    BY <1>4, <2>0, <2>2, NewClientFacts
       DEF ClientInv, RequestInv, Quiet, CurrentInv, SessionInv, UnusedInv
  <2>3. CASE c # current /\ c # current + 1
    <3>1. ClientInv(c) /\ ~ clients[c].requested /\ (clients')[c] = clients[c]
      BY <1>2, <1>4, <2>3 DEF HookInv
    <3> QED
      BY <1>2, <2>0, <2>3, <3>1
         DEF ClientInv, RequestInv, Quiet, CurrentInv, SessionInv, UnusedInv
  <2> QED BY <2>1, <2>2, <2>3
<1> QED BY <1>5, <1>6 DEF HookInv

LEMMA UnmountKeepsInv ==
  ASSUME HookInv, Unmount
  PROVE  HookInv'
<1>1. clients \in [ClientIds -> Client]
  BY DEF HookInv, ClientTypeOK, Client
<1>2. clients' = [clients EXCEPT ![current] = Disposed(@), ![current + 1] = NewClient]
  BY <1>1, NextClientFacts DEF Unmount
<1>3. session' \in Users \cup {Nobody} /\ mounted' \in BOOLEAN
  BY DEF Unmount, HookInv, ClientTypeOK
<1>4. NewClient.token = NoToken /\ NewClient.stream = Nobody
  BY DEF NewClient
<1> QED
  BY <1>2, <1>3, <1>4, NewClientFacts, ReplacedKeepsInv DEF Unmount, RequestInv

LEMMA ChangeUserKeepsInv ==
  ASSUME HookInv, NEW u \in Users \cup {Nobody}, ChangeUser(u)
  PROVE  HookInv'
<1>1. clients \in [ClientIds -> Client]
  BY DEF HookInv, ClientTypeOK, Client
<1>2. NewClient.token = NoToken /\ NewClient.stream = Nobody
  BY DEF NewClient
<1>3. CASE mounted
  <2> DEFINE k == IF active THEN ConnectIfEnabled(NewClient, enabled) ELSE NewClient
  <2>1. clients' = [clients EXCEPT ![current] = Disposed(@), ![current + 1] = k]
    BY <1>1, <1>3, NextClientFacts DEF ChangeUser
  <2>2. k \in Client /\ RequestInv(k) /\ (k.requested => enabled)
        /\ k.token = NoToken /\ k.stream = Nobody
    BY <1>2, NewClientFacts, ConnectIfEnabledFacts, KnownCurrent DEF RequestInv
  <2> QED
    BY <1>3, <2>1, <2>2, KnownCurrent, ReplacedKeepsInv DEF ChangeUser
<1>4. CASE ~ mounted
  <2>1. ClientTypeOK'
    BY <1>4 DEF HookInv, ClientTypeOK, ChangeUser
  <2>2. ASSUME NEW c \in ClientIds PROVE ClientInv(c)'
    <3>1. ClientInv(c)
      BY DEF HookInv
    <3> QED
      BY <1>2, <1>4, <3>1
         DEF ChangeUser, ClientInv, RequestInv, Quiet, CurrentInv, SessionInv, UnusedInv
  <2> QED BY <2>1, <2>2 DEF HookInv
<1> QED BY <1>3, <1>4

-----------------------------------------------------------------------------
(* The theorems about the client                                           *)

\* Every step keeps the invariant.
LEMMA ClientStepKeepsInv ==
  ASSUME HookInv, [ClientNext]_clientVars
  PROVE  HookInv'
<1>1. CASE UNCHANGED clientVars
  BY <1>1 DEF clientVars, HookInv, ClientTypeOK, ClientInv, RequestInv, Quiet, CurrentInv, SessionInv,
              UnusedInv
<1>2. ASSUME NEW c \in ClientIds, GoOn(c) \/ Progress(c) \/ StreamEnds(c) \/ WatchdogFires(c)
      PROVE  HookInv'
  BY <1>2, LookUpKeepsInv, OpenKeepsInv, ReconnectTimerKeepsInv, ProgressKeepsInv,
     StreamEndsKeepsInv, WatchdogFiresKeepsInv DEF GoOn
<1>3. CASE Mount \/ Unmount \/ AppState \/ KillSwitch
  BY <1>3, MountKeepsInv, UnmountKeepsInv, AppStateKeepsInv, KillSwitchKeepsInv
<1>4. ASSUME NEW u \in Users \cup {Nobody}, ChangeUser(u) PROVE HookInv'
  BY <1>4, ChangeUserKeepsInv
<1> QED BY <1>1, <1>2, <1>3, <1>4 DEF ClientNext

LEMMA HookInvHolds ==
  ClientSpec => []HookInv
<1>1. ClientInit => HookInv
  <2> SUFFICES ASSUME ClientInit PROVE HookInv
    OBVIOUS
  <2>1. ClientTypeOK
    <3>1. current \in ClientIds /\ clientFaults \in 0..MaxClientFaults
      BY StreamClientAssumption DEF ClientInit, ClientIds
    <3>2. clients \in [ClientIds -> Client]
      BY NewClientFacts DEF ClientInit
    <3>3. {active, enabled, mounted} \subseteq BOOLEAN
      BY DEF ClientInit
    <3> QED BY <3>1, <3>2, <3>3 DEF ClientInit, ClientTypeOK, Client
  <2>2. \A c \in ClientIds : clients[c] = NewClient
    BY DEF ClientInit
  <2>3. NewClient.token = NoToken /\ NewClient.stream = Nobody
    BY DEF NewClient
  <2> QED
    BY <2>1, <2>2, <2>3, NewClientFacts
       DEF HookInv, ClientInv, RequestInv, CurrentInv, SessionInv, UnusedInv
<1>2. HookInv /\ [ClientNext]_clientVars => HookInv'
  BY ClientStepKeepsInv
<1> QED BY <1>1, <1>2, PTL DEF ClientSpec

\* The state of every client that is made, of the hook and of the session is of
\* its type, for any number of clients and users.
THEOREM ClientTypeCorrect ==
  ClientSpec => []ClientTypeOK
<1>1. HookInv => ClientTypeOK
  BY DEF HookInv
<1> QED BY <1>1, HookInvHolds, PTL

\* A stream is open only for the current client, while the app wants it, and for the
\* user who is signed in: SSEClient's connect, openStream, disconnect and dispose,
\* as useServerEvents and the sign-out call them.
THEOREM StreamsAreWanted ==
  ClientSpec => []NoStreamUnlessWanted
<1>1. HookInv => NoStreamUnlessWanted
  <2> SUFFICES ASSUME HookInv, NEW c \in ClientIds, clients[c].stream # Nobody
               PROVE  c = current /\ clients[c].requested /\ enabled /\ clients[c].stream = session
    BY DEF NoStreamUnlessWanted
  <2>1. ClientInv(c)
    BY DEF HookInv
  <2>2. clients[c].requested
    BY <2>1 DEF ClientInv, RequestInv, Quiet
  <2> QED BY <2>1, <2>2 DEF ClientInv, CurrentInv, SessionInv
<1> QED BY <1>1, HookInvHolds, PTL
=============================================================================
