---------------------------- MODULE DownloadWalk ----------------------------
(***************************************************************************)
(* The download stage of an acquisition: candidates are tried best first,  *)
(* a window of them at a time and each in a goroutine of its own, until    *)
(* one is accepted.  An accepted audio-only file ends the attempts ranked  *)
(* below it; an accepted muxed file is kept for one more window, in case   *)
(* an audio-only one turns up; a doubtful file is held as a best effort.   *)
(* Each attempt has a temporary directory, which somebody has to remove.   *)
(*                                                                         *)
(* What a candidate's audio is like is decided by the attempt that looks   *)
(* at it.  An attempt whose context has ended skips checks: it may come to *)
(* any result.                                                             *)
(***************************************************************************)
EXTENDS Naturals, FiniteSets

CONSTANTS
  Ranked,       \* number of candidates
  Width,
  MaxAttempts,  \* maxDownloadAttempts
  Slots,        \* of the DownloadLimiter
  Source,       \* the source of each candidate
  Implausible,  \* candidates of an implausible duration
  Outcomes

Candidates == 1 .. Ranked
NoOne      == 0

\* "betterMuxed" is of a higher grade than audio-only files, "muxed" is not.
Muxed    == {"muxed", "betterMuxed"}
Held     == {"fine", "weak", "other"}
Rejected == {"rejected", "unavailable"}

\* What the constants have to be.
WalkAssumption ==
  /\ {Ranked, Width, MaxAttempts, Slots} \subseteq Nat \ {0}
  /\ DOMAIN Source = Candidates
  /\ Implausible \subseteq Candidates
  /\ Outcomes \subseteq {"audio"} \cup Muxed \cup Held \cup Rejected
  /\ "rejected" \in Outcomes

VARIABLES
  stage,      \* of the job, from the walk over the candidates to its end
  rest,       \* pending: candidates not tried yet
  window,
  used,
  at,         \* where the attempt on a candidate is
  outcome,
  cancelled,  \* the job's context
  cut,        \* attempts whose context has ended while they were under way
  best, muxed, retryGiven,  \* holdBook
  dead,       \* downloadFailures.deadSources
  selected,
  dirs        \* candidates whose temporary directory exists

walkVars == <<stage, rest, window, used, at, outcome, cancelled, cut, best, muxed,
              retryGiven, dead, selected, dirs>>

walk == <<rest, window, used, retryGiven>>
book == <<best, muxed, dead, selected>>

WalkTypeOK ==
  /\ stage \in {"walk", "window", "picked", "failed", "undone", "kept", "done"}
  /\ {rest, window, cut, dirs} \subseteq SUBSET Candidates
  /\ used \in 0 .. MaxAttempts
  /\ at \in [Candidates -> {"none", "new", "queued", "fetching", "checking", "ended"}]
  /\ outcome \in [Candidates -> Outcomes \cup {"none"}]
  /\ {cancelled, retryGiven} \subseteq BOOLEAN
  /\ {best, muxed, selected} \subseteq Candidates \cup {NoOne}
  /\ dead \subseteq {Source[c] : c \in Candidates}

WalkInit ==
  /\ stage = "walk" /\ rest = Candidates /\ window = {} /\ used = 0
  /\ at = [c \in Candidates |-> "none"] /\ outcome = [c \in Candidates |-> "none"]
  /\ cancelled = FALSE /\ cut = {}
  /\ best = NoOne /\ muxed = NoOne /\ retryGiven = FALSE
  /\ dead = {} /\ selected = NoOne /\ dirs = {}

-----------------------------------------------------------------------------
(* The walk                                                                *)

Limit == IF MaxAttempts - used < Width THEN MaxAttempts - used ELSE Width

Worthwhile == {c \in rest : Source[c] \notin dead /\ c \notin Implausible}

NextWindow == {c \in Worthwhile : Cardinality({d \in Worthwhile : d < c}) < Limit}

\* Candidates after a full window, unless it has used up the attempts.
RestAfter(w) ==
  IF Cardinality(w) = Limit /\ used + Limit < MaxAttempts
  THEN {c \in rest : \A d \in w : d < c}
  ELSE {}

\* An accepted muxed file waits for one window.
MuxedRetrySpent == muxed # NoOne /\ retryGiven

StartWindow ==
  /\ stage = "walk" /\ rest # {} /\ ~ cancelled
  /\ ~ MuxedRetrySpent /\ NextWindow # {}
  /\ stage' = "window"
  /\ window' = NextWindow /\ rest' = RestAfter(NextWindow)
  /\ used' = used + Cardinality(NextWindow)
  /\ at' = [c \in Candidates |-> IF c \in NextWindow THEN "new" ELSE at[c]]
  /\ retryGiven' = (retryGiven \/ muxed # NoOne)
  /\ UNCHANGED <<outcome, cancelled, cut, book, dirs>>

\* The muxed file, or the best effort if it is above the floor. The other one
\* is discarded on return.
SettleWalk ==
  /\ stage = "walk"
  /\ rest = {} \/ (~ cancelled /\ (MuxedRetrySpent \/ NextWindow = {}))
  /\ selected' = CASE muxed # NoOne -> muxed
                   [] muxed = NoOne /\ best # NoOne /\ outcome[best] # "weak" -> best
                   [] OTHER -> NoOne
  /\ stage' = IF selected' = NoOne THEN "failed" ELSE "picked"
  /\ dirs' = dirs \ ({best, muxed} \ {selected'})
  /\ UNCHANGED <<walk, at, outcome, cancelled, cut, best, muxed, dead>>

GiveUp ==
  /\ stage = "walk" /\ rest # {} /\ cancelled
  /\ stage' = "failed" /\ dirs' = dirs \ {best, muxed}
  /\ UNCHANGED <<walk, at, outcome, cancelled, cut, book>>

-----------------------------------------------------------------------------
(* An attempt                                                              *)

CreateDir(c) ==
  /\ at[c] = "new"
  /\ \/ /\ at' = [at EXCEPT ![c] = "queued"]
        /\ dirs' = dirs \cup {c}
        /\ UNCHANGED outcome
     \/ /\ at' = [at EXCEPT ![c] = "ended"]
        /\ outcome' = [outcome EXCEPT ![c] = "rejected"]
        /\ UNCHANGED dirs
  /\ UNCHANGED <<stage, walk, cancelled, cut, book>>

AcquireSlot(c) ==
  /\ at[c] = "queued"
  /\ Cardinality({d \in Candidates : at[d] = "fetching"}) < Slots
  /\ at' = [at EXCEPT ![c] = "fetching"]
  /\ UNCHANGED <<stage, walk, outcome, cancelled, cut, book, dirs>>

Fetched(c) ==
  /\ at[c] = "fetching"
  /\ at' = [at EXCEPT ![c] = "checking"]
  /\ UNCHANGED <<stage, walk, outcome, cancelled, cut, book, dirs>>

\* A preview, a slot that never comes and a panic reject as well as the checks.
Possible(c) ==
  CASE at[c] = "queued"   -> {"rejected"}
    [] at[c] = "fetching" -> Rejected
    [] at[c] = "checking" -> Outcomes \ {"unavailable"}
    [] OTHER              -> {}

\* A slip: an accepted file ends the attempts on all other candidates.
StopsAll(c) == window \ {c}

\* The attempts that an accepted audio-only file makes useless.
Stops(c) == {d \in window : d > c}

EndAttempt(c, result) ==
  /\ result \in Possible(c) \cap Outcomes
  /\ at' = [at EXCEPT ![c] = "ended"]
  /\ outcome' = [outcome EXCEPT ![c] = result]
  /\ dirs' = IF result \in Rejected THEN dirs \ {c} ELSE dirs
  /\ cut' = IF result = "audio" THEN cut \cup {d \in Stops(c) : at[d] # "ended"} ELSE cut
  /\ UNCHANGED <<stage, walk, cancelled, book>>

-----------------------------------------------------------------------------
(* The results of a window                                                 *)

\* The better of two held candidates: no other version, then the confidence.
Beats(c, d) ==
  <<outcome[c], outcome[d]>> \in {<<"fine", "weak">>, <<"fine", "other">>, <<"weak", "other">>}

\* A slip: the loser of the comparison keeps its directory.
AgainstMuxedKeepingBoth(m, c) ==
  [m EXCEPT !.muxed = NoOne,
            !.selected = IF outcome[m.muxed] = "betterMuxed" THEN m.muxed ELSE c]

AgainstMuxed(m, c) ==
  LET winner == IF outcome[m.muxed] = "betterMuxed" THEN m.muxed ELSE c
  IN  [m EXCEPT !.muxed = NoOne, !.selected = winner,
                !.removed = @ \cup ({m.muxed, c} \ {winner})]

\* The book after one more result. A held candidate that is the best so far
\* replaces whatever the book holds, an accepted muxed file too.
Offered(m, c) ==
  CASE outcome[c] \in Rejected ->
         [m EXCEPT !.dead = @ \cup IF outcome[c] = "unavailable" THEN {Source[c]} ELSE {}]
    [] outcome[c] \notin Rejected /\ m.selected # NoOne ->
         [m EXCEPT !.removed = @ \cup {c}]
    [] outcome[c] = "audio" /\ m.selected = NoOne ->
         IF m.muxed = NoOne THEN [m EXCEPT !.selected = c] ELSE AgainstMuxed(m, c)
    [] outcome[c] \in Muxed /\ m.selected = NoOne ->
         IF m.muxed = NoOne THEN [m EXCEPT !.muxed = c] ELSE [m EXCEPT !.removed = @ \cup {c}]
    [] outcome[c] \in Held /\ m.selected = NoOne ->
         IF m.best # NoOne /\ ~ Beats(c, m.best)
         THEN [m EXCEPT !.removed = @ \cup {c}]
         ELSE [m EXCEPT !.removed = @ \cup {m.best, m.muxed}, !.best = c, !.muxed = NoOne]

\* The book after the window's results in the order of their ranks.
Merged ==
  LET upTo[c \in 0 .. Ranked] ==
        IF c = 0
        THEN [best |-> best, muxed |-> muxed, dead |-> dead, selected |-> NoOne, removed |-> {}]
        ELSE IF c \in window THEN Offered(upTo[c - 1], c) ELSE upTo[c - 1]
  IN  upTo[Ranked]

\* With a winner the step returns, and what the book still holds is discarded.
MergeWindow ==
  /\ stage = "window" /\ \A c \in window : at[c] = "ended"
  /\ LET m == Merged IN
       /\ best' = m.best /\ muxed' = m.muxed /\ dead' = m.dead
       /\ selected' = m.selected
       /\ stage' = IF m.selected = NoOne THEN "walk" ELSE "picked"
       /\ dirs' = IF m.selected = NoOne THEN dirs \ m.removed
                  ELSE dirs \ (m.removed \cup {m.best, m.muxed})
  /\ UNCHANGED <<walk, at, outcome, cancelled, cut>>

-----------------------------------------------------------------------------
(* The job around the step                                                 *)

CancelJob ==
  /\ ~ cancelled /\ stage \in {"walk", "window", "picked", "kept"}
  /\ cancelled' = TRUE
  /\ cut' = cut \cup {c \in window : at[c] # "ended"}
  /\ UNCHANGED <<stage, walk, at, outcome, book, dirs>>

\* The next stage starts, or the completed ones are rolled back.
NextStage ==
  /\ stage = "picked"
  /\ stage' = IF cancelled THEN "undone" ELSE "kept"
  /\ dirs' = IF cancelled THEN dirs \ {selected} ELSE dirs
  /\ UNCHANGED <<walk, at, outcome, cancelled, cut, book>>

\* A later stage is rolled back, or the job cleans up after it.
EndJob ==
  /\ stage = "kept"
  /\ stage' = "done" /\ dirs' = dirs \ {selected}
  /\ UNCHANGED <<walk, at, outcome, cancelled, cut, book>>

-----------------------------------------------------------------------------

Attempt(c) ==
  \/ CreateDir(c) \/ AcquireSlot(c) \/ Fetched(c)
  \/ \E result \in Outcomes : EndAttempt(c, result)

WalkNext ==
  \/ StartWindow \/ SettleWalk \/ GiveUp
  \/ \E c \in Candidates : Attempt(c)
  \/ MergeWindow
  \/ CancelJob \/ NextStage \/ EndJob

WalkSpec == WalkInit /\ [][WalkNext]_walkVars

-----------------------------------------------------------------------------
(* Properties                                                              *)

Sound(c) == outcome[c] = "audio" /\ c \notin cut

\* The stage hands over the file it would hand over if it tried one candidate
\* after the other: no result that skipped checks, though the job be cancelled;
\* no attempt cut short but for an acceptable file ranked above it; the first
\* audio-only file, unless a muxed one of a higher grade came before it; and as
\* a best effort, nothing that another held file beats.
BestIsKept ==
  /\ stage = "kept" => selected \notin cut
  /\ stage \in {"kept", "failed"} /\ ~ cancelled =>
       /\ \A c \in cut : \E a \in 1 .. c - 1 : Sound(a)
       /\ \A a \in Candidates : Sound(a) =>
            /\ selected \in 1 .. a
            /\ selected = a \/ outcome[selected] \in {"audio", "betterMuxed"}
       /\ selected # NoOne /\ outcome[selected] \in Held =>
            \A c \in Candidates : ~ Beats(c, selected)

\* Between windows the directories are those of the files in the book; once a
\* file is selected, its directory is there and no other; and none is left
\* when the stage has failed, was rolled back, or the job has ended.
OnlySelectedIsLeft ==
  /\ stage = "walk" => dirs = {best, muxed} \ {NoOne}
  /\ stage \in {"picked", "kept"} => dirs = {selected}
  /\ stage \in {"failed", "undone", "done"} => dirs = {}
=============================================================================
